CONSTANTS
    UsedRanks = {2}
    TypeTexts = {"16550A", "16750", "8250"}
    ModeTexts = {"server", "client", "tcpserver", "tcpclient", "file", "disconnected", "pipe"}
    PortTexts = {"", "0x3f8", "3f8"}
    IRQTexts = {"", "4"}
    ParsePort <- MCParsePort
    ParseIRQ <- MCParseIRQ
    Datas = {"/tmp/u"}
    SplitComma <- MCSplitComma
    SplitSpace <- MCSplitSpace
    NoNum = NoNum
INIT Init
NEXT Next
INVARIANT TypeOK
INVARIANT UARTRoundTrip
INVARIANT WriteAccepted
