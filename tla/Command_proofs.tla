--------------------------- MODULE Command_proofs ---------------------------
(***************************************************************************)
(* Proofs about the command runner: for any host and any number of        *)
(* goroutines, a command runs under sudo only when its API function asked  *)
(* for it.                                                                 *)
(***************************************************************************)
EXTENDS Command, SequenceTheorems, TLAPS

USE CommandAssumption

PCs == {"idle", "manage", "lookup", "branch", "opts", "exec"}

(* The inductive strengthening.  The shared manage never has sudo set and  *)
(* never names sudo itself.  A goroutine's own copy has sudo set only       *)
(* between its SetOpts and its Exec, and then the command it is about to   *)
(* run is one that asked for sudo; a goroutine heading for SetOpts has     *)
(* such a command next, and one heading for Exec has some command left.    *)
GInv(g) ==
    /\ cmd[g] # Nil => cmd[g].program.name # "sudo"
    /\ cmd[g] # Nil /\ cmd[g].sudo => pc[g] = "exec" /\ todo[g] # <<>> /\ Head(todo[g]) = TRUE
    /\ pc[g] = "opts" \/ (pc[g] \in {"manage", "lookup"} /\ ret[g] = "opts") =>
          todo[g] # <<>> /\ Head(todo[g]) = TRUE
    /\ pc[g] = "exec" \/ (pc[g] \in {"manage", "lookup"} /\ ret[g] = "exec") =>
          todo[g] # <<>>
    /\ pc[g] \in {"manage", "lookup"} => ret[g] \in {"branch", "opts", "exec"}

ManageInv == manage # Nil => manage.sudo = FALSE /\ manage.program.name # "sudo"

IInv ==
    /\ TypeOK
    /\ ret \in [Goroutines -> PCs]
    /\ cmd \in [Goroutines -> CommandT \cup {Nil}]
    /\ ManageInv
    /\ \A g \in Goroutines : GInv(g)
    /\ SudoOnlyWhenAsked

-----------------------------------------------------------------------------
(* The nil interface is no command.                                        *)
LEMMA NilNotCommand == Nil \notin CommandT
BY DEF Nil, CommandT

(* The command lists the API functions run.                                *)
LEMMA StepsType ==
    /\ <<FALSE>> \in Seq(BOOLEAN) /\ <<FALSE>> # <<>>
    /\ \A f \in APIs : /\ GuestSteps(f) \in Seq(BOOLEAN)
                       /\ GuestSteps(f) # <<>>
                       /\ Head(GuestSteps(f)) = TRUE
<1>1. <<FALSE>> \in Seq(BOOLEAN) /\ <<TRUE>> \in Seq(BOOLEAN) /\ <<TRUE, FALSE>> \in Seq(BOOLEAN)
      OBVIOUS
<1>2. <<FALSE>> # <<>> /\ <<TRUE>> # <<>> /\ <<TRUE, FALSE>> # <<>>
      OBVIOUS
<1>3. Head(<<TRUE>>) = TRUE /\ Head(<<TRUE, FALSE>>) = TRUE
      <2>1. Head(<<TRUE>>) = <<TRUE>>[1]
            BY <1>1, <1>2, HeadTailProperties
      <2>2. Head(<<TRUE, FALSE>>) = <<TRUE, FALSE>>[1]
            BY <1>1, <1>2, HeadTailProperties
      <2>3. <<TRUE>>[1] = TRUE /\ <<TRUE, FALSE>>[1] = TRUE
            OBVIOUS
      <2>4. Head(<<TRUE>>) = TRUE
            BY <2>1, <2>3, Zenon
      <2>5. Head(<<TRUE, FALSE>>) = TRUE
            BY <2>2, <2>3, Zenon
      <2> QED BY <2>4, <2>5, Zenon
<1>4. \A f \in APIs : GuestSteps(f) \in {<<TRUE>>, <<TRUE, FALSE>>}
      BY DEF GuestSteps
<1>5. \A s \in {<<TRUE>>, <<TRUE, FALSE>>} : s \in Seq(BOOLEAN) /\ s # <<>> /\ Head(s) = TRUE
      BY <1>1, <1>2, <1>3, Zenon
<1> QED BY <1>1, <1>2, <1>4, <1>5, Zenon

(* setOpts(sudo(b)) on a command yields a command with sudo = b and the    *)
(* same program.                                                           *)
LEMMA SetSudoType ==
    ASSUME NEW c \in CommandT, NEW b \in BOOLEAN
    PROVE  /\ [c EXCEPT !.sudo = b] \in CommandT
           /\ [c EXCEPT !.sudo = b].sudo = b
           /\ [c EXCEPT !.sudo = b].program = c.program
BY DEF CommandT

(* A lookup returns the program's own name as an absolute path.            *)
LEMMA LookupType ==
    ASSUME NEW e \in Env, NEW n \in {"VBoxManage", "VBoxControl"}
    PROVE  /\ LookupVBoxProgram(e, n).ok \in BOOLEAN
           /\ LookupVBoxProgram(e, n).path \in Path
           /\ LookupVBoxProgram(e, n).path.name = n
BY DEF LookupVBoxProgram, lookupVBoxProgramByExecLookPath, Path

(* The value Manage() stores is a command without sudo that does not name  *)
(* sudo.                                                                   *)
LEMMA ManageValueType ==
    ASSUME NEW e \in Env
    PROVE  /\ ManageValue(e) \in CommandT
           /\ ManageValue(e).sudo = FALSE
           /\ ManageValue(e).program.name # "sudo"
<1>1. isSudoer(e) \in BOOLEAN
      BY DEF isSudoer
<1>2. /\ LookupVBoxProgram(e, "VBoxManage").ok \in BOOLEAN
      /\ LookupVBoxProgram(e, "VBoxManage").path \in Path
      /\ LookupVBoxProgram(e, "VBoxManage").path.name = "VBoxManage"
      BY LookupType
<1>3. /\ LookupVBoxProgram(e, "VBoxControl").ok \in BOOLEAN
      /\ LookupVBoxProgram(e, "VBoxControl").path \in Path
      /\ LookupVBoxProgram(e, "VBoxControl").path.name = "VBoxControl"
      BY LookupType
<1>4. [name |-> "false", abs |-> FALSE] \in Path
      BY DEF Path
<1> QED BY <1>1, <1>2, <1>3, <1>4 DEF ManageValue, CommandT

(* The error a run returns is one of the modelled errors.                  *)
LEMMA ErrType ==
    ASSUME NEW c \in CommandT, NEW e \in Env
    PROVE  \A err \in Outcomes(c, e) : MapErr(err) \in Errors
<1>1. Outcomes(c, e) \subseteq {PathError, ExecError, ExitError, NoError}
      BY DEF Outcomes
<1>2. ExecError # ErrNotFound
      <2>1. ExecError.type # ErrNotFound.type
            BY DEF ExecError, ErrNotFound
      <2> QED BY <2>1
<1>3. /\ PathError.type # "*exec.Error"
      /\ ExitError.type # "*exec.Error"
      /\ NoError.type # "*exec.Error"
      BY DEF PathError, ExitError, NoError
<1>4. \A err \in {PathError, ExecError, ExitError, NoError} : MapErr(err) = err
      <2>1. MapErr(ExecError) = ExecError
            BY <1>2, Zenon DEF MapErr
      <2>2. \A err \in {PathError, ExitError, NoError} : MapErr(err) = err
            BY <1>3, Zenon DEF MapErr
      <2> QED BY <2>1, <2>2, Zenon
<1> QED BY <1>1, <1>4 DEF Errors

-----------------------------------------------------------------------------
LEMMA InitIInv == Init => IInv
<1> SUFFICES ASSUME Init PROVE IInv
    OBVIOUS
<1>1. env \in Env /\ manage \in CommandT \cup {Nil} /\ last = Nil
      BY DEF Init
<1>2. pc \in [Goroutines -> PCs] /\ ret \in [Goroutines -> PCs] /\ fn \in [Goroutines -> APIs]
      BY DEF Init, PCs, APIs
<1>3. todo \in [Goroutines -> Seq(BOOLEAN)]
      BY EmptySeq DEF Init
<1>4. cmd \in [Goroutines -> CommandT \cup {Nil}] /\ \A g \in Goroutines : cmd[g] = Nil
      BY DEF Init
<1>5. TypeOK
      BY <1>1, <1>2, <1>3, <1>4 DEF Init, TypeOK, PCs
<1>6. \A g \in Goroutines : GInv(g)
      BY <1>4, Zenon DEF Init, GInv
<1>7. ManageInv /\ SudoOnlyWhenAsked
      BY DEF Init, ManageInv, SudoOnlyWhenAsked
<1> QED BY <1>2, <1>4, <1>5, <1>6, <1>7 DEF IInv

LEMMA NextIInv == IInv /\ [Next]_vars => IInv'
<1> SUFFICES ASSUME IInv, [Next]_vars PROVE IInv'
    OBVIOUS
<1> USE NilNotCommand
<1>0. /\ env \in Env /\ manage \in CommandT \cup {Nil}
      /\ pc \in [Goroutines -> PCs] /\ ret \in [Goroutines -> PCs]
      /\ fn \in [Goroutines -> APIs] /\ todo \in [Goroutines -> Seq(BOOLEAN)]
      /\ cmd \in [Goroutines -> CommandT \cup {Nil}]
      /\ \A g \in Goroutines : pc[g] \in {"branch", "opts", "exec"} => cmd[g] \in CommandT
      /\ ManageInv /\ \A g \in Goroutines : GInv(g)
      /\ last = Nil \/ last.err \in Errors
      BY DEF IInv, TypeOK, PCs
<1>1. ASSUME NEW g \in Goroutines, NEW f \in APIs, Call(g, f) PROVE IInv'
      <2> USE <1>1 DEF Call, CallManage
      <2>1. pc' \in [Goroutines -> PCs] /\ ret' \in [Goroutines -> PCs] /\ pc'[g] = "manage"
            BY <1>0 DEF PCs
      <2>2. fn' \in [Goroutines -> APIs] /\ todo' \in [Goroutines -> Seq(BOOLEAN)]
            BY <1>0, StepsType
      <2>3. \A h \in Goroutines \ {g} : pc'[h] = pc[h] /\ ret'[h] = ret[h] /\ todo'[h] = todo[h]
            BY <1>0
      <2>4. \A h \in Goroutines : pc'[h] \in {"branch", "opts", "exec"} => cmd'[h] \in CommandT
            BY <1>0, <2>1, <2>3
      <2>5. TypeOK'
            BY <1>0, <2>1, <2>2, <2>4 DEF TypeOK, PCs
      <2>6. GInv(g)'
            BY <1>0, <2>1, StepsType DEF GInv
      <2>7. \A h \in Goroutines \ {g} : GInv(h)'
            BY <1>0, <2>3 DEF GInv
      <2> QED BY <1>0, <2>1, <2>5, <2>6, <2>7 DEF IInv, ManageInv, SudoOnlyWhenAsked
<1>2. ASSUME NEW g \in Goroutines, ManageCached(g) PROVE IInv'
      BY <1>0, <1>2 DEF ManageCached, IInv, ManageInv, GInv, TypeOK, SudoOnlyWhenAsked, PCs
<1>3. ASSUME NEW g \in Goroutines, ManageNil(g) PROVE IInv'
      BY <1>0, <1>3 DEF ManageNil, IInv, ManageInv, GInv, TypeOK, SudoOnlyWhenAsked, PCs
<1>4. ASSUME NEW g \in Goroutines, Manage(g) PROVE IInv'
      BY <1>0, <1>4, ManageValueType
         DEF Manage, IInv, ManageInv, GInv, TypeOK, SudoOnlyWhenAsked, PCs
<1>5. ASSUME NEW g \in Goroutines, Branch(g) PROVE IInv'
      <2> USE <1>5 DEF Branch, CallManage
      <2>1. cmd[g] \in CommandT /\ fn[g] \in APIs
            BY <1>0
      <2>2. /\ todo'[g] \in Seq(BOOLEAN) /\ todo'[g] # <<>>
            /\ ret'[g] = "opts" => Head(todo'[g]) = TRUE
            BY <2>1, StepsType, <1>0
      <2>3. TypeOK'
            BY <1>0, <2>2 DEF TypeOK, PCs
      <2>4. GInv(g)'
            BY <1>0, <2>1, <2>2 DEF GInv
      <2>5. \A h \in Goroutines \ {g} : GInv(h)'
            BY <1>0 DEF GInv
      <2> QED BY <1>0, <2>3, <2>4, <2>5 DEF IInv, ManageInv, SudoOnlyWhenAsked, PCs
<1>6. ASSUME NEW g \in Goroutines, SetOpts(g) PROVE IInv'
      <2> USE <1>6 DEF SetOpts, SetSudo
      <2>1. cmd[g] \in CommandT
            BY <1>0
      <2>2. cmd'[g] \in CommandT /\ cmd'[g].sudo = TRUE /\ cmd'[g].program = cmd[g].program
            BY <2>1, <1>0, SetSudoType
      <2>3. TypeOK'
            BY <1>0, <2>2 DEF TypeOK, PCs
      <2>4. GInv(g)'
            BY <1>0, <2>1, <2>2 DEF GInv
      <2>5. \A h \in Goroutines \ {g} : GInv(h)'
            BY <1>0 DEF GInv
      <2> QED BY <1>0, <2>2, <2>3, <2>4, <2>5 DEF IInv, ManageInv, SudoOnlyWhenAsked, PCs
<1>7. ASSUME NEW g \in Goroutines, Exec(g) PROVE IInv'
      <2> USE <1>7 DEF Exec
      <2>1. cmd[g] \in CommandT /\ env \in Env /\ todo[g] # <<>> /\ todo[g] \in Seq(BOOLEAN)
            BY <1>0 DEF GInv
      <2>2. PICK err \in Outcomes(cmd[g], env) :
               /\ last' = [g |-> g, asked |-> Head(todo[g]),
                           program |-> Prepare(cmd[g], env).name,
                           vboxMissing |-> cmd[g].program.name \notin env.installed
                                           \/ cmd[g].program.name = "false",
                           err |-> MapErr(err)]
               /\ todo' = [todo EXCEPT ![g] = Tail(@)]
               /\ IF Tail(todo[g]) = <<>> \/ err # NoError
                  THEN pc' = [pc EXCEPT ![g] = "idle"] /\ UNCHANGED ret
                  ELSE CallManage(g, IF Head(Tail(todo[g])) THEN "opts" ELSE "exec")
            OBVIOUS
      <2>3. Tail(todo[g]) \in Seq(BOOLEAN) /\ Head(todo[g]) \in BOOLEAN
            BY <2>1, HeadTailProperties
      <2>4. Tail(todo[g]) # <<>> => Head(Tail(todo[g])) \in BOOLEAN
            BY <2>3, HeadTailProperties
      <2>5. MapErr(err) \in Errors
            BY <2>1, ErrType
      <2>6. Prepare(cmd[g], env).name = "sudo" => Head(todo[g]) = TRUE
            BY <2>1, <1>0 DEF Prepare, GInv
      <2>7. cmd'[g] \in CommandT /\ cmd'[g].sudo = FALSE /\ cmd'[g].program = cmd[g].program
            BY <2>1, <1>0, SetSudoType DEF SetSudo
      <2>8. /\ pc' \in [Goroutines -> PCs] /\ ret' \in [Goroutines -> PCs]
            /\ todo' \in [Goroutines -> Seq(BOOLEAN)]
            BY <1>0, <2>2, <2>3 DEF CallManage, PCs
      <2>13. last'.err \in Errors
             BY <2>2, <2>5
      <2>14. \A h \in Goroutines \ {g} : pc'[h] = pc[h] /\ cmd'[h] = cmd[h]
             BY <1>0, <2>2 DEF SetSudo, CallManage
      <2>15. \A h \in Goroutines : pc'[h] \in {"branch", "opts", "exec"} => cmd'[h] \in CommandT
             BY <1>0, <2>7, <2>14
      <2>16. env' = env /\ fn' = fn /\ manage' = manage
             BY DEF SetSudo
      <2>9. TypeOK'
            BY <1>0, <2>8, <2>13, <2>15, <2>16 DEF TypeOK, PCs
      <2>10. GInv(g)'
             BY <1>0, <2>1, <2>2, <2>4, <2>7 DEF GInv, CallManage
      <2>11. \A h \in Goroutines \ {g} : GInv(h)'
             BY <1>0, <2>2 DEF GInv, SetSudo, CallManage
      <2>12. SudoOnlyWhenAsked'
             BY <2>2, <2>6 DEF SudoOnlyWhenAsked, Nil
      <2> QED BY <1>0, <2>7, <2>8, <2>9, <2>10, <2>11, <2>12
              DEF IInv, ManageInv, SetSudo
<1>8. CASE UNCHANGED vars
      BY <1>0, <1>8 DEF vars, IInv, ManageInv, GInv, TypeOK, SudoOnlyWhenAsked
<1> QED BY <1>1, <1>2, <1>3, <1>4, <1>5, <1>6, <1>7, <1>8 DEF Next
-----------------------------------------------------------------------------
(* Every goroutine holds a command once Manage() has returned, and every   *)
(* call returns one of the modelled errors.                                *)
THEOREM TypeCorrect == Spec => []TypeOK
<1>1. IInv => TypeOK
      BY DEF IInv
<1> QED BY <1>1, InitIInv, NextIInv, PTL DEF Spec

(* Sudo does not leak between goroutines: a command runs under sudo only   *)
(* when the guest-property function running it called                      *)
(* setOpts(sudo(true)), whatever the other goroutines did meanwhile.       *)
THEOREM SudoNeverLeaks == Spec => []SudoOnlyWhenAsked
<1>1. IInv => SudoOnlyWhenAsked
      BY DEF IInv
<1> QED BY <1>1, InitIInv, NextIInv, PTL DEF Spec


-----------------------------------------------------------------------------
(* The shared command is nil or the value a lookup in the (fixed) host     *)
(* environment gives.                                                      *)
MInv == manage = Nil \/ manage = ManageValue(env)

(* A step never changes the host environment, and changes manage only by   *)
(* storing a fresh lookup.                                                 *)
LEMMA NextManage ==
    ASSUME [Next]_vars
    PROVE  env' = env /\ (manage' = manage \/ manage' = ManageValue(env))
<1>1. ASSUME NEW g \in Goroutines, NEW f \in APIs, Call(g, f)
      PROVE  env' = env /\ manage' = manage
      BY <1>1 DEF Call
<1>2. ASSUME NEW g \in Goroutines, ManageCached(g) \/ ManageNil(g) \/ Branch(g)
      PROVE  env' = env /\ manage' = manage
      BY <1>2 DEF ManageCached, ManageNil, Branch
<1>3. ASSUME NEW g \in Goroutines, Manage(g)
      PROVE  env' = env /\ manage' = ManageValue(env)
      BY <1>3 DEF Manage
<1>4. ASSUME NEW g \in Goroutines, SetOpts(g) \/ Exec(g)
      PROVE  env' = env /\ manage' = manage
      BY <1>4 DEF SetOpts, Exec, SetSudo
<1>5. CASE UNCHANGED vars
      BY <1>5 DEF vars
<1> QED BY <1>1, <1>2, <1>3, <1>4, <1>5 DEF Next

(* Once Manage() has stored the shared command it never changes: the      *)
(* unlocked lookup of a goroutine that raced past the nil check stores the *)
(* same value, and setOpts(sudo(...)) on a caller's copy never writes      *)
(* through to it.                                                          *)
THEOREM ManageNeverChanges == Spec => ManageStable
<1>1. Init => MInv
      BY DEF Init, MInv
<1>2. MInv /\ [Next]_vars => MInv'
      BY NextManage DEF MInv
<1>3. MInv /\ [Next]_vars => [manage # Nil => manage' = manage]_vars
      BY NextManage DEF MInv
<1> QED BY <1>1, <1>2, <1>3, PTL DEF Spec, ManageStable

=============================================================================
