------------------------------- MODULE MCUART -------------------------------
EXTENDS UART

\* The conversions on the strings the runs use.
MCParsePort(s) == CASE s = "0x3f8" -> 1016 [] s = "0x2f8" -> 760 [] OTHER -> NoNum
MCParseIRQ(s) == CASE s = "4" -> 4 [] s = "3" -> 3 [] OTHER -> NoNum
MCSplitComma(d) == CASE d = "/tmp/a,b" -> <<"/tmp/a", "b">> [] OTHER -> <<d>>
MCSplitSpace(d) == CASE d = "/tmp/a b" -> <<"/tmp/a", "b">> [] OTHER -> <<d>>
=============================================================================
