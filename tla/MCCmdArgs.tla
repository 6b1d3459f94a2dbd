----------------------------- MODULE MCCmdArgs -----------------------------
(* Model of the command argument builder for TLC: two keys, one value, one *)
(* multi-token transformer, at most four stored arguments.                 *)
EXTENDS CmdArgs

\* A transformer that splits a value into two tokens, as the UART "<I/O
\* base> <IRQ>" value is split.
MCApplyParts(f, k, v) == <<k, v, v>>

\* Empty calls, every single argument, and a set-then-delete pair passed in
\* one variadic call.
MCArgLists ==
    {<<>>} \cup {<<a>> : a \in CmdArg}
           \cup {<<NewCmdArg(k, v), NewCmdArgDeleted(k)>> : k \in Keys, v \in Values}
=============================================================================
