------------------------------ MODULE CmdArgs ------------------------------
(***************************************************************************)
(* The command argument builder of natnet.go: a CmdArgs value collects a   *)
(* base sequence (Append, AppendNoValue, AppendCmdArgs) and an override    *)
(* sequence (AppendOverride), and Args() turns both into the token list    *)
(* handed to VBoxManage.  The state is the two sequences; every builder    *)
(* method is one action.  Args() is an operator: its two loops are the     *)
(* recursive functions ScanArgs (first loop, lines 152-163) and EmitArgs   *)
(* (second loop, lines 164-181).                                           *)
(***************************************************************************)
EXTENDS Naturals, Sequences, FiniteSets

CONSTANTS
    Keys,          \* argument keys, e.g. "--cpus"
    Values,        \* argument values, e.g. "2"; disjoint from Keys
    PartsFns,      \* the ToCmdArgParts functions callers attach
    ApplyParts(_, _, _), \* ApplyParts(f, k, v): the tokens f returns for k, v
    NoValue,       \* V == nil
    NoParts,       \* ToCmdArgParts == nil
    NoArg,         \* "not in the map m" of Args()
    ArgLists,      \* the argument lists passed to the variadic methods
    MaxArgs        \* bound on the number of stored arguments

\* A CmdArg as the struct allows it: any key, an optional value, an
\* optional multi-token transformer and the deletion flag.
CmdArg == [K : Keys, V : Values \cup {NoValue},
           Parts : PartsFns \cup {NoParts}, Del : BOOLEAN]

ASSUME CmdArgsAssumption ==
    /\ Keys \cap Values = {}
    /\ NoValue \notin Values
    /\ NoParts \notin PartsFns
    /\ NoArg \notin CmdArg
    /\ ArgLists \subseteq Seq(CmdArg)
    /\ MaxArgs \in Nat

\* ToCmdArgParts replaces the tokens of one argument: Args() expects it to
\* return the key first and only values after it (the multi-token value
\* options split a value, as in "--uart1 0x3f8 4").  No function of the
\* repository sets it, so this is the contract callers must meet.
ASSUME PartsAssumption ==
    \A f \in PartsFns, k \in Keys, v \in Values :
        LET t == ApplyParts(f, k, v) IN
        /\ t \in Seq(Keys \cup Values)
        /\ t # <<>>
        /\ t[1] = k
        /\ \A i \in 2..Len(t) : t[i] \in Values

VARIABLES
    args,       \* cmdArgs.args, the base sequence
    overrides   \* cmdArgs.overrides, the override sequence

vars == <<args, overrides>>

\* Mutant: a flag built with a pointer to "" instead of a nil value.
NewCmdArgNoValueEmpty(k) == [K |-> k, V |-> "", Parts |-> NoParts, Del |-> FALSE]

\* NewCmdArgNoValue, NewCmdArg, NewCmdArgDeleted.
NewCmdArgNoValue(k) == [K |-> k, V |-> NoValue, Parts |-> NoParts, Del |-> FALSE]
NewCmdArg(k, v) == [K |-> k, V |-> v, Parts |-> NoParts, Del |-> FALSE]
NewCmdArgDeleted(k) == [K |-> k, V |-> NoValue, Parts |-> NoParts, Del |-> TRUE]

\* Room for n more arguments under the model's bound.
Room(n) == Len(args) + Len(overrides) + n <= MaxArgs

-----------------------------------------------------------------------------
(* The builder methods.  A CmdArgs is the zero value when a caller starts.  *)

Init ==
    /\ args = <<>>
    /\ overrides = <<>>

AppendNoValue(k) ==
    /\ Room(1)
    /\ args' = Append(args, NewCmdArgNoValue(k))
    /\ UNCHANGED overrides

AppendArg(k, v) ==
    /\ Room(1)
    /\ args' = Append(args, NewCmdArg(k, v))
    /\ UNCHANGED overrides

\* An empty argument list returns early and leaves the builder as it is.
AppendCmdArgs(l) ==
    /\ Room(Len(l))
    /\ IF l = <<>> THEN UNCHANGED args ELSE args' = args \o l
    /\ UNCHANGED overrides

AppendOverride(l) ==
    /\ Room(Len(l))
    /\ IF l = <<>> THEN UNCHANGED overrides ELSE overrides' = overrides \o l
    /\ UNCHANGED args

Next ==
    \/ \E k \in Keys : AppendNoValue(k)
    \/ \E k \in Keys, v \in Values : AppendArg(k, v)
    \/ \E l \in ArgLists : AppendCmdArgs(l)
    \/ \E l \in ArgLists : AppendOverride(l)

Spec == Init /\ [][Next]_vars

-----------------------------------------------------------------------------
(* Args().  The first loop walks args and then overrides; a key met for     *)
(* the first time is appended to orderK, and every occurrence replaces the  *)
(* whole CmdArg stored for its key in m.                                    *)

(* Faulty variants of the two loops, each a plausible slip in Args():      *)
(* scanning the overrides before the base arguments, appending a key to    *)
(* orderK on every occurrence, keeping the first CmdArg of a key instead   *)
(* of replacing it, and moving a rewritten key to the end of orderK.       *)
ScannedOverridesFirst == overrides \o args

ScanArgsNoContainsCheck(all) ==
    LET s[i \in 0..Len(all)] ==
          IF i = 0 THEN [m |-> [k \in Keys |-> NoArg], orderK |-> <<>>]
          ELSE [m |-> [s[i - 1].m EXCEPT ![all[i].K] = all[i]],
                orderK |-> Append(s[i - 1].orderK, all[i].K)]
    IN s[Len(all)]

ScanArgsFirstWriteWins(all) ==
    LET s[i \in 0..Len(all)] ==
          IF i = 0 THEN [m |-> [k \in Keys |-> NoArg], orderK |-> <<>>]
          ELSE LET prev == s[i - 1]
                   arg == all[i]
               IN IF prev.m[arg.K] = NoArg
                  THEN [m |-> [prev.m EXCEPT ![arg.K] = arg],
                        orderK |-> Append(prev.orderK, arg.K)]
                  ELSE prev
    IN s[Len(all)]

ScanArgsMoveToEnd(all) ==
    LET s[i \in 0..Len(all)] ==
          IF i = 0 THEN [m |-> [k \in Keys |-> NoArg], orderK |-> <<>>]
          ELSE LET prev == s[i - 1]
                   arg == all[i]
                   kept == SelectSeq(prev.orderK, LAMBDA x : x # arg.K)
               IN [m |-> [prev.m EXCEPT ![arg.K] = arg],
                   orderK |-> Append(kept, arg.K)]
    IN s[Len(all)]

Scanned == args \o overrides

\* The state of the first loop before any argument: an empty map m and an
\* empty orderK.
ScanInit == [m |-> [k \in Keys |-> NoArg], orderK |-> <<>>]

\* One iteration of the first loop for argument arg.
ScanStep(prev, arg) ==
    [m |-> [prev.m EXCEPT ![arg.K] = arg],
     orderK |-> IF prev.m[arg.K] = NoArg
                THEN Append(prev.orderK, arg.K)
                ELSE prev.orderK]

\* The state after each prefix of all: s[i] after the first i arguments.
ScanSteps(all) ==
    LET s[i \in 0..Len(all)] == IF i = 0 THEN ScanInit ELSE ScanStep(s[i - 1], all[i])
    IN s

ScanArgs(all) == ScanSteps(all)[Len(all)]

\* The tokens one surviving argument contributes.
ArgTokens(arg) ==
    IF arg.V = NoValue THEN <<arg.K>>
    ELSE IF arg.Parts = NoParts THEN <<arg.K, arg.V>>
    ELSE ApplyParts(arg.Parts, arg.K, arg.V)

\* The second loop walks orderK, skips deleted arguments and emits tokens;
\* e[j] is argStrs after the first j keys.
EmitSteps(scan) ==
    LET e[j \in 0..Len(scan.orderK)] ==
          IF j = 0 THEN <<>>
          ELSE LET arg == scan.m[scan.orderK[j]]
               IN IF arg.Del THEN e[j - 1] ELSE e[j - 1] \o ArgTokens(arg)
    IN e

EmitArgs(scan) == EmitSteps(scan)[Len(scan.orderK)]

Args == EmitArgs(ScanArgs(Scanned))

-----------------------------------------------------------------------------
TypeOK ==
    /\ args \in Seq(CmdArg)
    /\ overrides \in Seq(CmdArg)
    /\ Len(args) + Len(overrides) <= MaxArgs

-----------------------------------------------------------------------------
(* What Args() promises (spec section 4.4), stated over the two sequences  *)
(* the callers built and not over the loops that compute it.               *)

\* The positions of the arguments of s with key k.
KeyIdx(s, k) == {i \in 1..Len(s) : s[i].K = k}

HasKey(s, k) == KeyIdx(s, k) # {}

\* The last argument of s with key k, and the position of the first one.
LastArg(s, k) == s[CHOOSE i \in KeyIdx(s, k) : \A j \in KeyIdx(s, k) : j <= i]
FirstIdx(s, k) == CHOOSE i \in KeyIdx(s, k) : \A j \in KeyIdx(s, k) : i <= j

\* Where key k stands in the produced token list.
ArgsKeyPos(k) == {i \in 1..Len(Args) : Args[i] = k}

\* The tokens of arg stand in Args at the (single) position of its key.
EmittedAt(arg) ==
    \E i \in ArgsKeyPos(arg.K) :
        /\ i + Len(ArgTokens(arg)) - 1 <= Len(Args)
        /\ SubSeq(Args, i, i + Len(ArgTokens(arg)) - 1) = ArgTokens(arg)

\* Key uniqueness: whatever sequence of Append/AppendOverride calls built
\* the CmdArgs, Args() names each key at most once.
ArgsKeyOnce == \A k \in Keys : Cardinality(ArgsKeyPos(k)) <= 1

\* Override precedence: for a key given to AppendOverride, Args() carries
\* exactly the last override for it (or drops the key when that override
\* is a deletion), whether the base Appends came before or after it.
OverrideWins ==
    \A k \in Keys : HasKey(overrides, k) =>
        LET w == LastArg(overrides, k)
        IN IF w.Del THEN ArgsKeyPos(k) = {} ELSE EmittedAt(w)

\* A key only appended to the base sequence keeps its last base value, and
\* is dropped when that last base argument is a deletion.
BaseValueKept ==
    \A k \in Keys : HasKey(args, k) /\ ~HasKey(overrides, k) =>
        LET w == LastArg(args, k)
        IN IF w.Del THEN ArgsKeyPos(k) = {} ELSE EmittedAt(w)

\* Emission order: keys appear in the order in which they were first
\* appended, base keys before override-only keys, a later rewrite of a key
\* never moving it.
FirstSeenPos(k) ==
    IF HasKey(args, k) THEN FirstIdx(args, k)
    ELSE Len(args) + FirstIdx(overrides, k)

FirstSeenOrder ==
    \A k1, k2 \in Keys :
        \A i1 \in ArgsKeyPos(k1), i2 \in ArgsKeyPos(k2) :
            i1 < i2 => FirstSeenPos(k1) < FirstSeenPos(k2)

=============================================================================
