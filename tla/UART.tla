-------------------------------- MODULE UART --------------------------------
(***************************************************************************)
(* The UART codec of uart.go together with the VM's serial ports as        *)
(* VBoxManage keeps them.  A caller builds UARTs (NewUARTsAllOff, NewUART  *)
(* placed by NewUARTsFromUARTMap), writes them with "modifyvm" and the     *)
(* command parameters ModifyVMCommandParameters produces, and reads them   *)
(* back with NewUARTs from the "showvminfo --machinereadable" properties.  *)
(* The tool's side (how modifyvm reads the arguments, how showvminfo       *)
(* prints a port) follows the usage text and vminfo samples the code       *)
(* quotes in its comments.                                                 *)
(***************************************************************************)
EXTENDS Naturals, Sequences, FiniteSets, TLC

CONSTANTS
    UsedRanks,      \* the UART ranks the caller configures (the others stay off)
    TypeTexts,      \* type strings given to NewUART
    ModeTexts,      \* mode strings given to NewUART
    PortTexts,      \* port strings given to NewUART, e.g. "0x3f8"
    IRQTexts,       \* IRQ strings given to NewUART, e.g. "4"
    ParsePort(_),   \* fmt.Sscanf(s, "0x%x"): a number, or NoNum on failure
    ParseIRQ(_),    \* strconv.ParseUint(s, 10, 64): a number, or NoNum
    Datas,          \* non-empty mode data strings (pipe, port, host:port, path)
    SplitComma(_),  \* strings.Split(d, ",") on a mode data string
    SplitSpace(_),  \* strings.Split(d, " ") on a mode data string
    NoNum           \* a failed number conversion

Ranks == 1..4

Types == {"16450", "16550A", "16750"}
\* The six UARTMode constants.  The tool also knows the <devicename> form
\* of --uartmode ("hostdevice" here), which has no UARTMode constant.
Modes == {"server", "client", "tcpserver", "tcpclient", "file", "disconnected"}
DataModes == Modes \ {"disconnected"}

ASSUME UARTAssumption ==
    /\ UsedRanks \subseteq Ranks
    /\ NoNum \notin Nat
    /\ \A s \in PortTexts \ {""} : ParsePort(s) \in Nat \cup {NoNum}
    /\ \A s \in IRQTexts \ {""} : ParseIRQ(s) \in Nat \cup {NoNum}
    /\ \A d \in Datas : /\ d # ""
                        /\ SplitComma(d) \in Seq(STRING) \ {<<>>}
                        /\ SplitSpace(d) \in Seq(STRING) \ {<<>>}

\* Mutant: the key of slot i taken as the zero-based loop index.
UARTOffFromKeyOffByOne(r) ==
    [Key |-> r - 1, Port |-> 0, IRQ |-> 0, Type |-> "", Mode |-> "", ModeData |-> ""]

\* The UART struct with its BasicSerialComConfig flattened; Key is a rank.
UARTOffFromKey(r) ==
    [Key |-> r, Port |-> 0, IRQ |-> 0, Type |-> "", Mode |-> "", ModeData |-> ""]

IsOff(u) == u.Port = 0 /\ u.IRQ = 0

NewUARTsAllOff == [r \in Ranks |-> UARTOffFromKey(r)]

-----------------------------------------------------------------------------
(* Text.  A token of a command line or a comma-separated part of a vminfo  *)
(* value is a string Str(s), a number printed "0x%04x" (Hex4) or "%d"      *)
(* (Dec), or an option name "--<f><r>" (Flag).                              *)

Str(s) == [str |-> s]
Hex4(p) == [hex4 |-> p]
Dec(n) == [dec |-> n]
Flag(f, r) == [flag |-> f, rank |-> r]
IsStr(t) == DOMAIN t = {"str"}
IsHex(t) == DOMAIN t = {"hex4"}
IsDec(t) == DOMAIN t = {"dec"}
IsFlag(t) == DOMAIN t = {"flag", "rank"}

\* strings.Split of a mode data string at spaces or at commas.
SplitBy(split(_), d) ==
    IF d = "" THEN <<Str("")>>
    ELSE [i \in 1..Len(split(d)) |-> Str(split(d)[i])]

-----------------------------------------------------------------------------
(* Serialisation: commandParameters of one UART.  Each of its three        *)
(* functions yields a name and a value; the value is split at spaces and   *)
(* a function that yields an empty name is skipped.                        *)

CmdUartN(u) ==
    IF IsOff(u) THEN <<Flag("uart", u.Key), Str("off")>>
    ELSE <<Flag("uart", u.Key), Hex4(u.Port), Dec(u.IRQ)>>

\* Mutant: the mode parameter emitted for an off UART too.
CmdUARTModeNNoOffCheck(u) ==
    IF u.Mode = "disconnected" THEN <<Flag("uartmode", u.Key), Str("disconnected")>>
    ELSE <<Flag("uartmode", u.Key), Str(u.Mode)>> \o SplitBy(SplitSpace, u.ModeData)

CmdUARTModeN(u) ==
    IF IsOff(u) THEN <<>>
    ELSE IF u.Mode = "disconnected" THEN <<Flag("uartmode", u.Key), Str("disconnected")>>
    ELSE <<Flag("uartmode", u.Key), Str(u.Mode)>> \o SplitBy(SplitSpace, u.ModeData)

CmdUARTTypeN(u) ==
    IF IsOff(u) THEN <<>> ELSE <<Flag("uarttype", u.Key), Str(u.Type)>>

CommandParameters(u) == CmdUartN(u) \o CmdUARTModeN(u) \o CmdUARTTypeN(u)

\* ModifyVMCommandParameters: the parameters of the four UARTs in order.
ModifyVMCommandParameters(us) ==
    CommandParameters(us[1]) \o CommandParameters(us[2])
    \o CommandParameters(us[3]) \o CommandParameters(us[4])

-----------------------------------------------------------------------------
(* Parsing: NewUARTs over the vminfo property map.  A property value is    *)
(* the sequence of its comma-separated parts; keys are [key, rank].        *)

Key(k, r) == [key |-> k, rank |-> r]
Fail == [ok |-> FALSE]
Ok(u) == [ok |-> TRUE, uart |-> u]

\* Mutant: the "disconnected" value read like "<mode>,<value>".
InitUARTModeNoDisconnected(pm, u) ==
    LET k == Key("uartmode", u.Key) IN
    IF k \notin DOMAIN pm THEN Ok(u)
    ELSE IF Len(pm[k]) = 2 /\ pm[k][1] \in {Str(m) : m \in Modes} /\ IsStr(pm[k][2])
         THEN Ok([u EXCEPT !.Mode = pm[k][1].str, !.ModeData = pm[k][2].str])
    ELSE Fail

\* initUARTModeFromVMInfoMap: absent key leaves the mode empty.
InitUARTMode(pm, u) ==
    LET k == Key("uartmode", u.Key) IN
    IF k \notin DOMAIN pm THEN Ok(u)
    ELSE IF pm[k] = <<Str("disconnected")>> THEN Ok([u EXCEPT !.Mode = "disconnected"])
    ELSE IF Len(pm[k]) = 2 /\ pm[k][1] \in {Str(m) : m \in Modes} /\ IsStr(pm[k][2])
         THEN Ok([u EXCEPT !.Mode = pm[k][1].str, !.ModeData = pm[k][2].str])
    ELSE Fail

\* initUARTTypeFromVMInfoMap: absent key leaves the type empty.
InitUARTType(pm, u) ==
    LET k == Key("uarttype", u.Key) IN
    IF k \notin DOMAIN pm THEN Ok(u)
    ELSE IF pm[k] \in {<<Str(t)>> : t \in Types} THEN Ok([u EXCEPT !.Type = pm[k][1].str])
    ELSE Fail

\* One iteration of the loop of NewUARTs: initFromVMInfoValue, then the
\* mode, then the type, each returning on error.
ParseSlot(pm, r) ==
    LET k == Key("uart", r)
        u0 == UARTOffFromKey(r)
    IN  IF k \notin DOMAIN pm \/ pm[k] = <<Str("off")>> THEN Ok(u0)
        ELSE IF ~(Len(pm[k]) = 2 /\ IsHex(pm[k][1]) /\ IsDec(pm[k][2])) THEN Fail
        ELSE LET m == InitUARTMode(pm, [u0 EXCEPT !.Port = pm[k][1].hex4,
                                                  !.IRQ = pm[k][2].dec])
             IN  IF ~m.ok THEN Fail ELSE InitUARTType(pm, m.uart)

NewUARTs(pm) ==
    IF \E r \in Ranks : ~ParseSlot(pm, r).ok THEN Fail
    ELSE [ok |-> TRUE, uarts |-> [r \in Ranks |-> ParseSlot(pm, r).uart]]

-----------------------------------------------------------------------------
(* Construction: NewUART from strings, accumulating every error.           *)

\* UARTModeFromStringIfSupported: "" on an unsupported mode; note the
\* "client" case.
UARTModeFromStringIfSupported(s) ==
    CASE s = "client" -> "server"
      [] s \in Modes  -> s
      [] OTHER        -> ""

NumOr0(n) == IF n = NoNum THEN 0 ELSE n

\* NewUART(key, type, port, irq, mode, data) for a supported key.
NewUART(r, in) ==
    LET both == in.port # "" /\ in.irq # ""
        mode == UARTModeFromStringIfSupported(in.mode)
        errs == \/ in.mode \notin Modes
                \/ both /\ (ParsePort(in.port) = NoNum \/ ParseIRQ(in.irq) = NoNum)
                \/ (in.port = "") # (in.irq = "")
                \/ in.typ \notin Types
    IN  [ok   |-> ~errs,
         uart |-> [Key |-> r,
                   Port |-> IF both THEN NumOr0(ParsePort(in.port)) ELSE 0,
                   IRQ |-> IF both THEN NumOr0(ParseIRQ(in.irq)) ELSE 0,
                   Type |-> IF in.typ \in Types THEN in.typ ELSE "",
                   Mode |-> mode, ModeData |-> in.data]]

Inputs == [typ : TypeTexts, port : PortTexts, irq : IRQTexts,
           mode : ModeTexts, data : Datas \cup {""}]

-----------------------------------------------------------------------------
(* The tool.  A serial port of the VM keeps its settings while disabled.   *)
(* "modifyvm" reads --uart<N> off | <base> <irq>, --uartmode<N>             *)
(* disconnected | <mode> <value> | <devicename>, --uarttype<N> <type>, and  *)
(* fails as a whole on any argument it cannot read.  "showvminfo            *)
(* --machinereadable" prints uart<N>="off" for a disabled port, and         *)
(* uart<N>="0x%04x,%d", uartmode<N> and uarttype<N> for an enabled one,     *)
(* the mode as "disconnected", "<mode>,<value>" or "<devicename>".          *)

ToolModes == Modes \cup {"hostdevice"}

\* The defaults of a new VM: the COM1..COM4 configurations, disabled.
COM == <<[p |-> 1016, i |-> 4], [p |-> 760, i |-> 3],
         [p |-> 1000, i |-> 4], [p |-> 744, i |-> 3]>>
ToolDefault == [r \in Ranks |-> [on |-> FALSE, port |-> COM[r].p, irq |-> COM[r].i,
                                 mode |-> "disconnected", data |-> "", type |-> "16550A"]]

Rejected == [rejected |-> TRUE]
Arg(toks, j) == IF j <= Len(toks) THEN toks[j] ELSE [none |-> TRUE]
StrOf(S) == {Str(x) : x \in S}

RECURSIVE ApplyFrom(_, _, _)
ApplyFrom(toks, i, cfg) ==
    IF i > Len(toks) THEN cfg
    ELSE IF ~IsFlag(toks[i]) THEN Rejected
    ELSE LET f == toks[i].flag
             r == toks[i].rank
             a1 == Arg(toks, i + 1)
             a2 == Arg(toks, i + 2)
         IN CASE f = "uart" /\ a1 = Str("off") ->
                   ApplyFrom(toks, i + 2, [cfg EXCEPT ![r].on = FALSE])
              [] f = "uart" /\ IsHex(a1) /\ IsDec(a2) ->
                   ApplyFrom(toks, i + 3, [cfg EXCEPT ![r].on = TRUE,
                                          ![r].port = a1.hex4, ![r].irq = a2.dec])
              [] f = "uartmode" /\ a1 = Str("disconnected") ->
                   ApplyFrom(toks, i + 2, [cfg EXCEPT ![r].mode = "disconnected"])
              [] f = "uartmode" /\ a1 \in StrOf(DataModes) /\ IsStr(a2) ->
                   ApplyFrom(toks, i + 3, [cfg EXCEPT ![r].mode = a1.str, ![r].data = a2.str])
              [] f = "uartmode" /\ IsStr(a1) /\ a1 \notin StrOf(Modes) ->
                   ApplyFrom(toks, i + 2, [cfg EXCEPT ![r].mode = "hostdevice", ![r].data = a1.str])
              [] f = "uarttype" /\ a1 \in StrOf(Types) ->
                   ApplyFrom(toks, i + 2, [cfg EXCEPT ![r].type = a1.str])
              [] OTHER -> Rejected

ModifyVM(toks, cfg) == ApplyFrom(toks, 1, cfg)

ModeValue(c) ==
    CASE c.mode = "disconnected" -> <<Str("disconnected")>>
      [] c.mode = "hostdevice"   -> SplitBy(SplitComma, c.data)
      [] OTHER                   -> <<Str(c.mode)>> \o SplitBy(SplitComma, c.data)

VMInfo(cfg) ==
    LET on == {r \in Ranks : cfg[r].on}
        keys == {Key("uart", r) : r \in Ranks}
                \cup {Key(k, r) : k \in {"uartmode", "uarttype"}, r \in on}
    IN  [k \in keys |->
            LET c == cfg[k.rank] IN
            CASE k.key = "uart" /\ c.on -> <<Hex4(c.port), Dec(c.irq)>>
              [] k.key = "uart"         -> <<Str("off")>>
              [] k.key = "uartmode"     -> ModeValue(c)
              [] OTHER                  -> <<Str(c.type)>>]

-----------------------------------------------------------------------------
(* The caller and the VM.                                                  *)

VARIABLES
    tool,       \* the VM's serial ports as VBoxManage keeps them
    uarts,      \* the UARTs value the caller holds
    written,    \* the UARTs of the last accepted write
    lastWrite   \* "none", "accepted" or "rejected"

vars == <<tool, uarts, written, lastWrite>>

Init ==
    /\ tool = ToolDefault
    /\ uarts = NewUARTsAllOff
    /\ written = NewUARTsAllOff
    /\ lastWrite = "none"

\* NewUART for one supported key, placed with NewUARTsFromUARTMap; a
\* caller that gets an error does not use the result.
SetUART(r, in) ==
    LET n == NewUART(r, in) IN
    /\ n.ok
    /\ uarts' = [NewUARTsAllOff EXCEPT ![r] = n.uart]
    /\ UNCHANGED <<tool, written, lastWrite>>

SwitchAllOff ==
    /\ uarts' = NewUARTsAllOff
    /\ UNCHANGED <<tool, written, lastWrite>>

\* GetMachine reads the UARTs with NewUARTs from the VM's vminfo.
ReadUARTs ==
    LET p == NewUARTs(VMInfo(tool)) IN
    /\ uarts' = IF p.ok THEN p.uarts ELSE uarts
    /\ UNCHANGED <<tool, written, lastWrite>>

\* modifyvm with the UARTs' ModifyVMCommandParameters.
WriteUARTs ==
    LET t == ModifyVM(ModifyVMCommandParameters(uarts), tool) IN
    IF t = Rejected
    THEN /\ lastWrite' = "rejected"
         /\ UNCHANGED <<tool, uarts, written>>
    ELSE /\ tool' = t
         /\ written' = uarts
         /\ lastWrite' = "accepted"
         /\ UNCHANGED uarts

Next ==
    \/ \E r \in UsedRanks, in \in Inputs : SetUART(r, in)
    \/ SwitchAllOff
    \/ ReadUARTs
    \/ WriteUARTs

Spec == Init /\ [][Next]_vars

-----------------------------------------------------------------------------
UARTRec == [Key : Ranks, Port : Nat, IRQ : Nat, Type : Types \cup {""},
            Mode : Modes \cup {""}, ModeData : Datas \cup {""}]
ToolSlot == [on : BOOLEAN, port : Nat, irq : Nat, mode : ToolModes,
             data : Datas \cup {""}, type : Types]

TypeOK ==
    /\ tool \in [Ranks -> ToolSlot]
    /\ uarts \in [Ranks -> UARTRec]
    /\ \A r \in Ranks : uarts[r].Key = r
    /\ written \in [Ranks -> UARTRec]
    /\ lastWrite \in {"none", "accepted", "rejected"}

\* What a round trip keeps of a UART: the mode data of a disconnected port
\* is not part of its configuration.
Shape(u) == [u EXCEPT !.ModeData = IF u.Mode = "disconnected" THEN "" ELSE @]

(* Round trip through the tool: after modifyvm accepted the parameters of  *)
(* the caller's UARTs, NewUARTs over the VM's vminfo succeeds and yields    *)
(* every non-off UART as written and every off one as off.                  *)
UARTRoundTrip ==
    lastWrite = "accepted" =>
        LET p == NewUARTs(VMInfo(tool)) IN
        /\ p.ok
        /\ \A r \in Ranks :
              IF IsOff(written[r]) THEN p.uarts[r] = UARTOffFromKey(r)
              ELSE Shape(p.uarts[r]) = Shape(written[r])

(* modifyvm accepts ModifyVMCommandParameters of every UARTs value a caller *)
(* holds, whether built with NewUART without error or read by NewUARTs.     *)
WriteAccepted == lastWrite # "rejected"

=============================================================================
