-------------------------- MODULE TriggerGuardProofs --------------------------
(***************************************************************************)
(* Proofs about TriggerGuard, for every set of tables and triggers and     *)
(* every depth of nesting, as long as the program changes tables only by   *)
(* statements that the guard recognises and no trigger is dropped while    *)
(* its body runs.                                                          *)
(***************************************************************************)
EXTENDS TriggerGuard, SequenceTheorems, TLAPS

Recognised == Kinds \subseteq {"dml", "drop"} /\ ~SelfDrop

(* The guard knows every trigger whose body is running. *)
RunningAreEnabled ==
    \A i \in DOMAIN stack : stack[i].what = "trigger" => stack[i].name \in enabled

(* The inductive invariant. *)
GuardInv == TypeOK /\ RunningAreEnabled /\ NoSelfModification /\ RowsAreCurrent

Entries == Statements \cup Bodies

LEMMA EntryFacts ==
  ASSUME NEW e \in Entries
  PROVE  \/ e.what = "stmt" /\ e \in Statements
         \/ e.what = "trigger" /\ e \in Bodies
  BY DEF Entries, Statements, Bodies

(* What lies above a statement is the body of a trigger on its table. *)
LEMMA BodyAbove ==
  ASSUME TypeOK, NEW i \in DOMAIN stack, i + 1 \in DOMAIN stack, stack[i].what = "stmt"
  PROVE  stack[i + 1].what = "trigger" /\ TableOf[stack[i + 1].name] = stack[i].table
  <1>1. stack \in Seq(Entries)
    BY DEF TypeOK, Entries
  <1>2. i \in Nat /\ i >= 1 /\ i + 1 > 1 /\ (i + 1) - 1 = i
    BY <1>1
  <1>3. stack[i + 1] \in Entries
    BY <1>1
  <1>4. stack[i + 1].what # "stmt"
    BY <1>2 DEF TypeOK
  <1>5. stack[i + 1].what = "trigger"
    BY <1>3, <1>4, EntryFacts
  <1>6. QED
    BY <1>2, <1>5 DEF TypeOK

(* A table that code may change has no statement under way below it. *)
LEMMA NothingToOvertake ==
  ASSUME GuardInv, NEW t \in Tables, InCode, ~RunningOn(t),
         NEW i \in DOMAIN stack, stack[i].what = "stmt"
  PROVE  stack[i].table # t
  <1>1. stack \in Seq(Entries)
    BY DEF GuardInv, TypeOK, Entries
  <1>2. i \in 1 .. Len(stack) /\ Len(stack) \in Nat
    BY <1>1
  <1>3. i # Len(stack)
    BY <1>1, <1>2 DEF InCode, Top
  <1>4. i + 1 \in DOMAIN stack
    BY <1>1, <1>2, <1>3
  <1>5. stack[i + 1].what = "trigger" /\ TableOf[stack[i + 1].name] = stack[i].table
    BY <1>4, BodyAbove DEF GuardInv
  <1>6. stack[i + 1].name \in enabled
    BY <1>4, <1>5 DEF GuardInv, RunningAreEnabled
  <1>7. QED
    BY <1>4, <1>5, <1>6 DEF RunningOn

(* Where there is nothing to overtake the stack stays as it is. *)
LEMMA OvertakenIsIdentity ==
  ASSUME NEW s \in Seq(Entries), NEW t,
         \A i \in DOMAIN s : s[i].what = "stmt" => s[i].table # t
  PROVE  Overtaken(s, t) = s
  <1>1. \A i \in DOMAIN s :
           (IF s[i].what = "stmt" /\ s[i].table = t /\ s[i].phase \in {"read", "write"}
            THEN [s[i] EXCEPT !.stale = TRUE] ELSE s[i]) = s[i]
    OBVIOUS
  <1>2. s = [i \in DOMAIN s |-> s[i]]
    OBVIOUS
  <1>3. QED
    BY <1>1, <1>2 DEF Overtaken

(* The invariant survives the removal of entries from the top. *)
LEMMA PopKeeps ==
  ASSUME GuardInv, NEW n \in 0 .. Len(stack), stack' = SubSeq(stack, 1, n), enabled' = enabled
  PROVE  GuardInv'
  <1>1. stack \in Seq(Entries)
    BY DEF GuardInv, TypeOK, Entries
  <1>2. stack' \in Seq(Entries)
    BY <1>1
  <1>3. \A i \in DOMAIN stack' : i \in DOMAIN stack /\ stack'[i] = stack[i] /\ i \in Nat
                                 /\ (i > 1 => i - 1 \in DOMAIN stack' /\ stack'[i - 1] = stack[i - 1])
    BY <1>1
  <1>4. TypeOK'
    BY <1>2, <1>3 DEF GuardInv, TypeOK, Entries
  <1>5. RunningAreEnabled' /\ NoSelfModification' /\ RowsAreCurrent'
    BY <1>3 DEF GuardInv, RunningAreEnabled, NoSelfModification, RowsAreCurrent
  <1>6. QED
    BY <1>4, <1>5 DEF GuardInv

(* The invariant survives a change of phase of the statement on top. *)
LEMMA PhaseKeeps ==
  ASSUME GuardInv, stack # <<>>, Top.what = "stmt", NEW ph \in Phases,
         stack' = [stack EXCEPT ![Len(stack)].phase = ph], enabled' = enabled
  PROVE  GuardInv'
  <1>1. stack \in Seq(Entries)
    BY DEF GuardInv, TypeOK, Entries
  <1>2. Len(stack) \in DOMAIN stack
    BY <1>1
  <1>3. Top \in Statements
    BY <1>1, <1>2, EntryFacts DEF Top, Bodies
  <1> DEFINE new == [Top EXCEPT !.phase = ph]
  <1>4. new \in Statements /\ new.what = "stmt" /\ new.table = Top.table /\ new.stale = Top.stale
    BY <1>3 DEF Statements
  <1>5. stack' = [stack EXCEPT ![Len(stack)] = new]
    BY DEF Top
  <1>6. stack' \in Seq(Entries) /\ DOMAIN stack' = DOMAIN stack
    BY <1>1, <1>4, <1>5 DEF Entries
  <1>7. \A i \in DOMAIN stack : /\ stack'[i].what = stack[i].what
                                /\ stack[i].what = "stmt" => stack'[i].table = stack[i].table
                                                             /\ stack'[i].stale = stack[i].stale
                                /\ stack[i].what = "trigger" => stack'[i].name = stack[i].name
    BY <1>2, <1>4, <1>5 DEF Top
  <1> HIDE DEF new
  <1>8. \A i \in DOMAIN stack : i \in Nat /\ (i > 1 => i - 1 \in DOMAIN stack)
    BY <1>1
  <1>9. TypeOK'
    BY <1>6, <1>7, <1>8 DEF GuardInv, TypeOK, Entries
  <1>10. RunningAreEnabled' /\ NoSelfModification' /\ RowsAreCurrent'
    BY <1>6, <1>7 DEF GuardInv, RunningAreEnabled, NoSelfModification, RowsAreCurrent
  <1>11. QED
    BY <1>9, <1>10 DEF GuardInv

-----------------------------------------------------------------------------
LEMMA BeginDmlKeeps ==
  ASSUME GuardInv, NEW t \in Tables, BeginDml(t)
  PROVE  GuardInv'
  <1>1. stack \in Seq(Entries)
    BY DEF GuardInv, TypeOK, Entries
  <1>2. Statement(t) \in Entries /\ Statement(t) \in Statements
    BY DEF Statement, Statements, Entries, Phases
  <1>3. stack' = Append(stack, Statement(t)) /\ enabled' = enabled
    BY DEF BeginDml
  <1>4. stack' \in Seq(Entries) /\ Len(stack') = Len(stack) + 1 /\ Len(stack) \in Nat
    BY <1>1, <1>2, <1>3
  <1>5. \A i \in DOMAIN stack' : \/ i \in DOMAIN stack /\ i < Len(stack') /\ stack'[i] = stack[i]
                                 \/ i = Len(stack') /\ stack'[i] = Statement(t)
    BY <1>1, <1>2, <1>3, <1>4
  <1>6. \A i \in DOMAIN stack' : i > 1 => i - 1 \in DOMAIN stack /\ stack'[i - 1] = stack[i - 1]
    BY <1>1, <1>2, <1>3, <1>4
  <1>7. stack # <<>> => stack[Len(stack)].what = "trigger"
    BY DEF BeginDml, InCode, Top
  <1>8. Statement(t).what = "stmt" /\ Statement(t).table = t /\ ~Statement(t).stale
    BY DEF Statement
  <1>9. ~RunningOn(t)
    BY DEF BeginDml, MayRun, Sniffed
  <1>10. TypeOK'
    <2> SUFFICES ASSUME NEW i \in DOMAIN stack'
                 PROVE  /\ i = 1 => stack'[i].what = "stmt"
                        /\ stack'[i].what = "trigger" /\ i > 1 =>
                              stack'[i - 1].what = "stmt"
                              /\ stack'[i - 1].table = TableOf[stack'[i].name]
                        /\ stack'[i].what = "stmt" /\ i > 1 => stack'[i - 1].what = "trigger"
      BY <1>3, <1>4 DEF GuardInv, TypeOK, Entries
    <2>1. CASE i \in DOMAIN stack /\ stack'[i] = stack[i]
      BY <2>1, <1>6 DEF GuardInv, TypeOK
    <2>2. CASE i = Len(stack') /\ stack'[i] = Statement(t)
      <3>1. i > 1 => stack # <<>> /\ i - 1 = Len(stack)
        BY <1>1, <1>4, <2>2
      <3>2. QED
        BY <2>2, <3>1, <1>6, <1>7, <1>8
    <2>3. QED
      BY <2>1, <2>2, <1>5
  <1>11. RunningAreEnabled'
    BY <1>3, <1>5, <1>8 DEF GuardInv, RunningAreEnabled
  <1>12. NoSelfModification'
    <2> SUFFICES ASSUME NEW i \in DOMAIN stack', NEW j \in DOMAIN stack', i < j,
                        stack'[i].what = "trigger", stack'[j].what = "stmt"
                 PROVE  stack'[j].table # TableOf[stack'[i].name]
      BY DEF NoSelfModification
    <2>1. i \in DOMAIN stack /\ stack'[i] = stack[i]
      BY <1>5, <1>8
    <2>2. stack[i].name \in enabled
      BY <2>1 DEF GuardInv, RunningAreEnabled
    <2>3. CASE j \in DOMAIN stack /\ stack'[j] = stack[j]
      BY <2>1, <2>3 DEF GuardInv, NoSelfModification
    <2>4. CASE stack'[j] = Statement(t)
      BY <2>1, <2>2, <2>4, <1>8, <1>9 DEF RunningOn
    <2>5. QED
      BY <2>3, <2>4, <1>5
  <1>13. RowsAreCurrent'
    BY <1>5, <1>8 DEF GuardInv, RowsAreCurrent
  <1>14. QED
    BY <1>10, <1>11, <1>12, <1>13 DEF GuardInv

LEMMA FireTriggerKeeps ==
  ASSUME GuardInv, NEW tr \in Triggers, FireTrigger(tr)
  PROVE  GuardInv'
  <1>1. stack \in Seq(Entries)
    BY DEF GuardInv, TypeOK, Entries
  <1>2. Body(tr) \in Entries /\ Body(tr).what = "trigger" /\ Body(tr).name = tr
    BY DEF Body, Bodies, Entries
  <1>3. stack' = Append(stack, Body(tr)) /\ enabled' = enabled /\ tr \in enabled
    BY DEF FireTrigger
  <1>4. stack' \in Seq(Entries) /\ Len(stack') = Len(stack) + 1 /\ Len(stack) \in Nat
    BY <1>1, <1>2, <1>3
  <1>5. \A i \in DOMAIN stack' : \/ i \in DOMAIN stack /\ i < Len(stack') /\ stack'[i] = stack[i]
                                 \/ i = Len(stack') /\ stack'[i] = Body(tr)
    BY <1>1, <1>2, <1>3, <1>4
  <1>6. \A i \in DOMAIN stack' : i > 1 => i - 1 \in DOMAIN stack /\ stack'[i - 1] = stack[i - 1]
    BY <1>1, <1>2, <1>3, <1>4
  <1>7. /\ Len(stack) >= 1
        /\ stack[Len(stack)].what = "stmt"
        /\ stack[Len(stack)].table = TableOf[tr]
    BY <1>1 DEF FireTrigger, InStatement, Top
  <1>8. TypeOK'
    <2> SUFFICES ASSUME NEW i \in DOMAIN stack'
                 PROVE  /\ i = 1 => stack'[i].what = "stmt"
                        /\ stack'[i].what = "trigger" /\ i > 1 =>
                              stack'[i - 1].what = "stmt"
                              /\ stack'[i - 1].table = TableOf[stack'[i].name]
                        /\ stack'[i].what = "stmt" /\ i > 1 => stack'[i - 1].what = "trigger"
      BY <1>3, <1>4 DEF GuardInv, TypeOK, Entries
    <2>1. CASE i \in DOMAIN stack /\ stack'[i] = stack[i]
      BY <2>1, <1>6 DEF GuardInv, TypeOK
    <2>2. CASE i = Len(stack') /\ stack'[i] = Body(tr)
      BY <2>2, <1>2, <1>4, <1>6, <1>7
    <2>3. QED
      BY <2>1, <2>2, <1>5
  <1>9. RunningAreEnabled'
    BY <1>2, <1>3, <1>5 DEF GuardInv, RunningAreEnabled
  <1>10. NoSelfModification'
    <2> SUFFICES ASSUME NEW i \in DOMAIN stack', NEW j \in DOMAIN stack', i < j,
                        stack'[i].what = "trigger", stack'[j].what = "stmt"
                 PROVE  stack'[j].table # TableOf[stack'[i].name]
      BY DEF NoSelfModification
    <2>1. j \in DOMAIN stack /\ stack'[j] = stack[j] /\ j < Len(stack')
      BY <1>2, <1>5
    <2>2. i \in DOMAIN stack /\ stack'[i] = stack[i]
      BY <2>1, <1>4, <1>5
    <2>3. QED
      BY <2>1, <2>2 DEF GuardInv, NoSelfModification
  <1>11. RowsAreCurrent'
    BY <1>2, <1>5 DEF GuardInv, RowsAreCurrent
  <1>12. QED
    BY <1>8, <1>9, <1>10, <1>11 DEF GuardInv

LEMMA WriteRowsKeeps ==
  ASSUME GuardInv, WriteRows
  PROVE  GuardInv'
  <1>1. stack \in Seq(Entries)
    BY DEF GuardInv, TypeOK, Entries
  <1>2. stack # <<>> /\ Top.what = "stmt" /\ enabled' = enabled
    BY DEF WriteRows, InStatement
  <1> DEFINE n == Len(stack)
  <1>3. n \in Nat /\ n >= 1 /\ n \in DOMAIN stack /\ Top = stack[n]
    BY <1>1, <1>2 DEF Top
  <1>4. Popped \in Seq(Entries) /\ Len(Popped) = n - 1
        /\ \A i \in DOMAIN Popped : i \in DOMAIN stack /\ i < n /\ Popped[i] = stack[i]
    <2>1. n - 1 \in Nat /\ \A i \in 1 .. n - 1 : i \in DOMAIN stack /\ stack[i] \in Entries
      BY <1>1, <1>3
    <2>2. /\ Popped \in Seq(Entries)
          /\ Len(Popped) = IF 1 <= n - 1 THEN (n - 1) - 1 + 1 ELSE 0
          /\ \A i \in 1 .. (n - 1) - 1 + 1 : Popped[i] = stack[1 + i - 1]
      <3>1. 1 \in Int /\ n - 1 \in Int /\ \A i \in 1 .. n - 1 : stack[i] \in Entries
        BY <2>1
      <3> HIDE DEF n
      <3>2. /\ SubSeq(stack, 1, n - 1) \in Seq(Entries)
            /\ Len(SubSeq(stack, 1, n - 1)) = IF 1 <= n - 1 THEN (n - 1) - 1 + 1 ELSE 0
            /\ \A i \in 1 .. (n - 1) - 1 + 1 : SubSeq(stack, 1, n - 1)[i] = stack[1 + i - 1]
        BY <3>1, SubSeqProperties
      <3>3. QED
        BY <3>2 DEF Popped, n
    <2>3. Len(Popped) = n - 1
      <3>1. \A k \in Nat : k >= 1 => (IF 1 <= k - 1 THEN (k - 1) - 1 + 1 ELSE 0) = k - 1
        OBVIOUS
      <3> HIDE DEF n
      <3>2. QED
        BY <1>3, <2>2, <3>1
    <2>4. DOMAIN Popped = 1 .. n - 1
      BY <2>2, <2>3
    <2>5. QED
      BY <1>3, <2>1, <2>2, <2>3, <2>4
  <1>5. ASSUME NEW i \in DOMAIN Popped, Popped[i].what = "stmt"
        PROVE  Popped[i].table # Top.table
    <2>1. i \in DOMAIN stack /\ i < n /\ Popped[i] = stack[i] /\ i + 1 \in DOMAIN stack
      BY <1>1, <1>3, <1>4
    <2>2. stack[i + 1].what = "trigger" /\ TableOf[stack[i + 1].name] = stack[i].table
      BY <1>5, <2>1, BodyAbove DEF GuardInv
    <2>3. i + 1 < n
      BY <1>1, <1>2, <1>3, <2>1, <2>2
    <2>4. stack[n].table # TableOf[stack[i + 1].name]
      BY <1>2, <1>3, <2>1, <2>2, <2>3 DEF GuardInv, NoSelfModification
    <2>5. QED
      BY <1>3, <2>1, <2>2, <2>4
  <1>6. Overtaken(Popped, Top.table) = Popped
    BY <1>4, <1>5, OvertakenIsIdentity
  <1>7. stack' = Append(Popped, [Top EXCEPT !.phase = "write"])
    BY <1>6 DEF WriteRows
  <1>8. stack' = [stack EXCEPT ![Len(stack)].phase = "write"]
    <2> DEFINE new == [Top EXCEPT !.phase = "write"]
               after == [stack EXCEPT ![n] = new]
    <2>1. Top \in Statements
      BY <1>1, <1>2, <1>3, EntryFacts DEF Bodies
    <2>2. new \in Entries
      BY <2>1 DEF Statements, Entries, Phases
    <2> HIDE DEF new
    <2>3. Append(Popped, new) \in Seq(Entries) /\ Len(Append(Popped, new)) = n
      BY <1>3, <1>4, <2>2
    <2>4. after \in Seq(Entries) /\ Len(after) = n
      BY <1>1, <1>3, <2>2
    <2>5. \A i \in 1 .. n : Append(Popped, new)[i] = after[i]
      BY <1>1, <1>3, <1>4, <2>2
    <2>6. Append(Popped, new) = after
      BY <2>3, <2>4, <2>5, SeqEqual
    <2>7. QED
      BY <1>3, <1>7, <2>6 DEF new
  <1>9. "write" \in Phases
    BY DEF Phases
  <1>10. QED
    BY <1>2, <1>8, <1>9, PhaseKeeps

LEMMA RunDdlKeeps ==
  ASSUME GuardInv, Recognised, NEW kind \in Kinds, NEW t \in Tables, RunDdl(kind, t)
  PROVE  GuardInv'
  <1>1. stack \in Seq(Entries)
    BY DEF GuardInv, TypeOK, Entries
  <1>2. ~RunningOn(t) /\ InCode
    BY DEF Recognised, RunDdl, MayRun, Sniffed
  <1>3. \A i \in DOMAIN stack : stack[i].what = "stmt" => stack[i].table # t
    BY <1>2, NothingToOvertake
  <1>4. stack' = stack /\ enabled' = enabled
    BY <1>1, <1>3, OvertakenIsIdentity DEF RunDdl
  <1>5. QED
    BY <1>4 DEF GuardInv, TypeOK, RunningAreEnabled, NoSelfModification, RowsAreCurrent

LEMMA DropTriggerKeeps ==
  ASSUME GuardInv, Recognised, NEW tr \in Triggers, DropTrigger(tr)
  PROVE  GuardInv'
  <1>1. stack \in Seq(Entries)
    BY DEF GuardInv, TypeOK, Entries
  <1>2. stack' = stack /\ enabled' = enabled \ {tr}
    BY DEF DropTrigger
  <1>3. ASSUME NEW i \in DOMAIN stack, stack[i].what = "trigger"
        PROVE  stack[i].name # tr
    <2>1. stack[i] \in Bodies
      BY <1>1, <1>3, EntryFacts DEF Statements
    <2>2. stack[i] = Body(stack[i].name)
      BY <2>1 DEF Body, Bodies
    <2>3. stack[i] # Body(tr)
      BY DEF Recognised, DropTrigger
    <2>4. QED
      BY <2>2, <2>3
  <1>4. RunningAreEnabled'
    BY <1>2, <1>3 DEF GuardInv, RunningAreEnabled
  <1>5. QED
    BY <1>2, <1>4 DEF GuardInv, TypeOK, NoSelfModification, RowsAreCurrent

(* The invariant holds initially and every step keeps it. *)
LEMMA GuardInductive ==
  ASSUME Recognised
  PROVE  Spec => []GuardInv
  <1>1. Init => GuardInv
    BY DEF Init, GuardInv, TypeOK, RunningAreEnabled, NoSelfModification, RowsAreCurrent
  <1>2. GuardInv /\ [Next]_vars => GuardInv'
    <2> SUFFICES ASSUME GuardInv, [Next]_vars
                 PROVE  GuardInv'
      OBVIOUS
    <2>0. stack \in Seq(Entries)
      BY DEF GuardInv, TypeOK, Entries
    <2>1. CASE \E t \in Tables : BeginDml(t)
      BY <2>1, BeginDmlKeeps
    <2>2. CASE \E kind \in Kinds, t \in Tables : RunDdl(kind, t)
      BY <2>2, RunDdlKeeps
    <2>3. CASE ReadRows
      <3>1. "read" \in Phases
        BY DEF Phases
      <3>2. QED
        BY <2>3, <3>1, PhaseKeeps DEF ReadRows, InStatement
    <2>4. CASE WriteRows
      BY <2>4, WriteRowsKeeps
    <2>5. CASE RowsWritten
      <3>1. "after" \in Phases
        BY DEF Phases
      <3>2. QED
        BY <2>5, <3>1, PhaseKeeps DEF RowsWritten, InStatement
    <2>6. CASE \E tr \in Triggers : FireTrigger(tr)
      BY <2>6, FireTriggerKeeps
    <2>7. CASE Return \/ Reject
      <3>1. stack # <<>> /\ stack' = SubSeq(stack, 1, Len(stack) - 1) /\ enabled' = enabled
        BY <2>7 DEF Return, Reject, InStatement, Popped
      <3>2. Len(stack) - 1 \in 0 .. Len(stack)
        BY <2>0, <3>1
      <3>3. QED
        BY <3>1, <3>2, PopKeeps
    <2>8. CASE Raise
      <3>1. stack # <<>> /\ Top.what = "trigger" /\ enabled' = enabled
            /\ stack' = SubSeq(stack, 1, Len(stack) - 2)
        BY <2>8 DEF Raise
      <3>2. Len(stack) # 1
        BY <2>0, <3>1 DEF GuardInv, TypeOK, Top
      <3>3. Len(stack) - 2 \in 0 .. Len(stack)
        <4>1. Len(stack) \in Nat /\ Len(stack) # 0
          BY <2>0, <3>1
        <4>2. \A k \in Nat : k # 0 /\ k # 1 => k - 2 \in 0 .. k
          OBVIOUS
        <4>3. QED
          BY <3>2, <4>1, <4>2
      <3>4. QED
        BY <3>1, <3>3, PopKeeps
    <2>9. CASE \E tr \in Triggers : DropTrigger(tr)
      BY <2>9, DropTriggerKeeps
    <2>10. CASE UNCHANGED vars
      BY <2>10 DEF vars, GuardInv, TypeOK, RunningAreEnabled, NoSelfModification, RowsAreCurrent
    <2>11. QED
      BY <2>1, <2>2, <2>3, <2>4, <2>5, <2>6, <2>7, <2>8, <2>9, <2>10 DEF Next
  <1>3. QED
    BY <1>1, <1>2, PTL DEF Spec

(* Trigger bodies and statements alternate on the stack as TypeOK says, in  *)
(* programs of recognised statements.                                       *)
THEOREM GuardTypeCorrect ==
  ASSUME Recognised
  PROVE  Spec => []TypeOK
  <1>1. GuardInv => TypeOK
    BY DEF GuardInv
  <1>2. QED
    BY <1>1, GuardInductive, PTL

(* vm_check_table_not_firing keeps triggers from modifying their own table, *)
(* however many procs, child VMs and other triggers lie in between.         *)
THEOREM NoTriggerModifiesItsTable ==
  ASSUME Recognised
  PROVE  Spec => []NoSelfModification
  <1>1. GuardInv => NoSelfModification
    BY DEF GuardInv
  <1>2. QED
    BY <1>1, GuardInductive, PTL

(* An UPDATE or DELETE never rebuilds a row chain from rows that a trigger  *)
(* has overtaken.                                                           *)
THEOREM RewritesUseCurrentRows ==
  ASSUME Recognised
  PROVE  Spec => []RowsAreCurrent
  <1>1. GuardInv => RowsAreCurrent
    BY DEF GuardInv
  <1>2. QED
    BY <1>1, GuardInductive, PTL
=============================================================================
