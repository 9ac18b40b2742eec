----------------------------- MODULE TriggerGuard -----------------------------
(***************************************************************************)
(* Triggers and the statements that fire them (src/vm.c, with the row      *)
(* loops of src/sql_engine.c).  The stack of call frames and child VMs is  *)
(* one sequence, outermost first, of the two things that matter: DML       *)
(* statements under way and trigger bodies running.  A trigger body is     *)
(* code like the main program: it may run any statement, whether static or *)
(* through execute_immediate and dbms_sql.                                 *)
(*                                                                         *)
(* An UPDATE or DELETE reads all rows, fires BEFORE row triggers, frees    *)
(* the row chain and rebuilds it from what it read, firing AFTER row       *)
(* triggers as it goes.  A change of the table in between would be lost,   *)
(* or would run on a freed chain: such a statement is marked stale.        *)
(***************************************************************************)
EXTENDS Naturals, Sequences

CONSTANTS
    Tables,
    Triggers,   \* trigger names
    TableOf,    \* the table of each trigger
    RowLevel,   \* triggers declared FOR EACH ROW
    Kinds,      \* kinds of table-changing statements the program uses
    SelfDrop,   \* whether a trigger may be dropped while it runs
    MaxDepth    \* bound: frames and child VMs

ASSUME TriggersAssumption ==
    /\ TableOf \in [Triggers -> Tables]
    /\ RowLevel \subseteq Triggers
    /\ Kinds \subseteq {"dml", "drop", "drop if exists", "alter"}
    /\ SelfDrop \in BOOLEAN
    /\ MaxDepth \in Nat

VARIABLES
    enabled,  \* triggers of the chunk's registry with an offset >= 0
    stack     \* statements under way and trigger bodies running

vars == <<enabled, stack>>

Phases == {"before", "read", "write", "after"}

Statement(t)   == [what |-> "stmt", table |-> t, phase |-> "before", stale |-> FALSE]
Body(tr)       == [what |-> "trigger", name |-> tr]

Statements == [what : {"stmt"}, table : Tables, phase : Phases, stale : BOOLEAN]
Bodies     == [what : {"trigger"}, name : Triggers]

Top    == stack[Len(stack)]
Popped == SubSeq(stack, 1, Len(stack) - 1)

\* The program's own code is running: main, or the body of a trigger.
InCode == stack # <<>> => Top.what = "trigger"

InStatement(phases) == stack # <<>> /\ Top.what = "stmt" /\ Top.phase \in phases

-----------------------------------------------------------------------------
\* Mutant: only the innermost frame is asked, not the VMs above it.
MutRunningOn(t) ==
    /\ stack # <<>>
    /\ Top.what = "trigger" /\ Top.name \in enabled /\ TableOf[Top.name] = t

\* vm_check_table_not_firing: a frame or a child VM entered a trigger on t.
\* A dropped trigger has lost its offset and is no longer recognised.
RunningOn(t) ==
    \E i \in DOMAIN stack :
        stack[i].what = "trigger" /\ stack[i].name \in enabled /\ TableOf[stack[i].name] = t

\* sql_trigger_info finds the table of INSERT, UPDATE, DELETE and DROP TABLE;
\* it reads IF as the table of DROP TABLE IF EXISTS and does not know ALTER.
Sniffed(kind) == kind \in {"dml", "drop"}

\* vm_check_sql_not_firing
MayRun(kind, t) == Sniffed(kind) => ~RunningOn(t)

\* Rows that a statement on t has read, or is writing back, are overtaken.
Overtaken(s, t) ==
    [i \in DOMAIN s |->
        IF s[i].what = "stmt" /\ s[i].table = t /\ s[i].phase \in {"read", "write"}
        THEN [s[i] EXCEPT !.stale = TRUE] ELSE s[i]]

-----------------------------------------------------------------------------
\* OP_SQL_EXEC and vm_dynamic_exec accept an INSERT, UPDATE or DELETE.
BeginDml(t) ==
    /\ "dml" \in Kinds
    /\ InCode
    /\ Len(stack) < MaxDepth
    /\ MayRun("dml", t)
    /\ stack' = Append(stack, Statement(t))
    /\ UNCHANGED enabled

\* DDL changes the table and its row chain at once.
RunDdl(kind, t) ==
    /\ kind \in Kinds \ {"dml"}
    /\ InCode
    /\ MayRun(kind, t)
    /\ stack' = Overtaken(stack, t)
    /\ UNCHANGED enabled

\* read_all_rows
ReadRows ==
    /\ InStatement({"before"})
    /\ stack' = [stack EXCEPT ![Len(stack)].phase = "read"]
    /\ UNCHANGED enabled

\* free_row_pages, and the rows that follow one by one.
WriteRows ==
    /\ InStatement({"read"})
    /\ stack' = Append(Overtaken(Popped, Top.table), [Top EXCEPT !.phase = "write"])
    /\ UNCHANGED enabled

RowsWritten ==
    /\ InStatement({"write"})
    /\ stack' = [stack EXCEPT ![Len(stack)].phase = "after"]
    /\ UNCHANGED enabled

\* Mutant: the trigger's table is not compared with the statement's.
MutFireTrigger(tr) ==
    /\ InStatement(IF tr \in RowLevel THEN {"read", "write"} ELSE {"before", "after"})
    /\ tr \in enabled
    /\ ~RunningOn(TableOf[tr])
    /\ Len(stack) < MaxDepth
    /\ stack' = Append(stack, Body(tr))
    /\ UNCHANGED enabled

\* vm_fire_trigger around the statement, vm_fire_row_trigger from its loops.
FireTrigger(tr) ==
    /\ InStatement(IF tr \in RowLevel THEN {"read", "write"} ELSE {"before", "after"})
    /\ tr \in enabled
    /\ TableOf[tr] = Top.table
    /\ ~RunningOn(TableOf[tr])          \* vm_check_trigger_entry
    /\ Len(stack) < MaxDepth
    /\ stack' = Append(stack, Body(tr))
    /\ UNCHANGED enabled

Return ==
    /\ \/ stack # <<>> /\ Top.what = "trigger"
       \/ InStatement({"after"})
    /\ stack' = Popped
    /\ UNCHANGED enabled

\* A constraint or a missing table rejects the statement before it writes.
Reject ==
    /\ InStatement({"before", "read"})
    /\ stack' = Popped
    /\ UNCHANGED enabled

\* A trigger body fails: the statement that fired it fails in the code
\* that ran it, which may catch the error or fail in its turn.
Raise ==
    /\ stack # <<>> /\ Top.what = "trigger"
    /\ stack' = SubSeq(stack, 1, Len(stack) - 2)
    /\ UNCHANGED enabled

\* vm_drop_trigger, from OP_DROP_TRIGGER and vm_dynamic_exec.
DropTrigger(tr) ==
    /\ InCode
    /\ SelfDrop \/ \A i \in DOMAIN stack : stack[i] # Body(tr)
    /\ enabled' = enabled \ {tr}
    /\ UNCHANGED stack

-----------------------------------------------------------------------------
Init ==
    /\ enabled = Triggers
    /\ stack = <<>>

Next ==
    \/ \E t \in Tables : BeginDml(t)
    \/ \E kind \in Kinds, t \in Tables : RunDdl(kind, t)
    \/ ReadRows
    \/ WriteRows
    \/ RowsWritten
    \/ \E tr \in Triggers : FireTrigger(tr)
    \/ Return
    \/ Reject
    \/ Raise
    \/ \E tr \in Triggers : DropTrigger(tr)

Spec == Init /\ [][Next]_vars

-----------------------------------------------------------------------------
(* Every variable has its type, and trigger bodies run on top of the        *)
(* statement on their table that fired them.                                *)
TypeOK ==
    /\ enabled \subseteq Triggers
    /\ stack \in Seq(Statements \cup Bodies)
    /\ \A i \in DOMAIN stack :
          /\ i = 1 => stack[i].what = "stmt"
          /\ stack[i].what = "trigger" /\ i > 1 =>
                stack[i - 1].what = "stmt" /\ stack[i - 1].table = TableOf[stack[i].name]
          /\ stack[i].what = "stmt" /\ i > 1 => stack[i - 1].what = "trigger"

(* "A trigger may not modify the table it fires on, whether directly,       *)
(* through a proc it calls, through dynamic SQL, or through another table's *)
(* trigger that writes back" (docs/language.md:141): no DML statement runs  *)
(* on a table above a running trigger of that table.                        *)
NoSelfModification ==
    \A i, j \in DOMAIN stack :
        i < j /\ stack[i].what = "trigger" /\ stack[j].what = "stmt"
            => stack[j].table # TableOf[stack[i].name]

(* No statement rewrites a table from rows that another statement has       *)
(* overtaken: what the rewrite replaces is what was read.                   *)
RowsAreCurrent ==
    \A i \in DOMAIN stack : stack[i].what = "stmt" => ~stack[i].stale
=============================================================================
