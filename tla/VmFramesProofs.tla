---------------------------- MODULE VmFramesProofs ----------------------------
(***************************************************************************)
(* Proofs about VmFrames, for programs whose exits are orderly: any        *)
(* nesting of scopes and calls, any capacities, any stack addresses.       *)
(***************************************************************************)
EXTENDS VmFrames, SequenceTheorems, TLAPS

(* No return, break or continue leaves a try block, and no procedure falls *)
(* off its end.                                                            *)
Orderly == Exits = {}

-----------------------------------------------------------------------------
(* The inductive invariant, about a VM v and the place p it stands at.       *)

Frames == [frame_base : Int, return_ip : Places, outs : SUBSET (Nat \X Nat)]
Handlers == [catch_ip : Places, frame_count : Nat, frame_base : Int,
             local_count : Nat, stack_top : Int]
VMs == [stack : Blocks, capacity : InitialCapacity .. StackMax, stack_top : Int,
        frame_base : Int, frames : Seq(Frames), try_frames : Seq(Handlers)]

\* Scopes nest: each starts above the floors of those around it, the locals of
\* the place lie above all of them, and the first, only, is the procedure's.
Nested(p) ==
    /\ p.scopes # <<>> /\ p.scopes[1].kind = "proc"
    /\ \A i \in DOMAIN p.scopes :
        /\ Floor(p.scopes[i]) <= p.locals
        /\ p.scopes[i].kind = "try" => p.scopes[i].own = 1
        /\ p.scopes[i].kind = "proc" => i = 1
        /\ \A j \in DOMAIN p.scopes : i < j => Floor(p.scopes[i]) <= p.scopes[j].start

PlaceIn(v, p, k) == IF k = Len(v.frames) + 1 THEN p ELSE v.frames[k].return_ip
BaseIn(v, k) == IF k = Len(v.frames) + 1 THEN v.frame_base ELSE v.frames[k].frame_base

OpenTry(v, p, k, n) ==
    /\ k \in 1 .. Len(v.frames) + 1
    /\ n \in DOMAIN PlaceIn(v, p, k).scopes
    /\ PlaceIn(v, p, k).scopes[n].kind = "try"

\* A handler leads to the catch block of the try block number n in place q of
\* an activation with that base.
Leads(tf, q, base, n) ==
    /\ \A i \in 1 .. n - 1 : tf.catch_ip.scopes[i] = q.scopes[i]
    /\ tf.catch_ip.scopes[n] = Scope("catch", q.scopes[n].start, 1)
    /\ tf.catch_ip.locals = q.scopes[n].start + 1
    /\ tf.catch_ip.temps = 0
    /\ tf.frame_base = base
    /\ tf.local_count = q.scopes[n].start + 1
    /\ tf.stack_top = base + q.scopes[n].start + 1

Act(tf) == tf.frame_count + 1
Num(tf) == Len(tf.catch_ip.scopes)

HandlersLead(v, p) ==
    \A j \in DOMAIN v.try_frames :
        LET tf == v.try_frames[j]
        IN  /\ OpenTry(v, p, Act(tf), Num(tf))
            /\ Leads(tf, PlaceIn(v, p, Act(tf)), BaseIn(v, Act(tf)), Num(tf))
HandlersOrdered(v) ==
    \A i, j \in DOMAIN v.try_frames : i < j =>
        \/ Act(v.try_frames[i]) < Act(v.try_frames[j])
        \/ Act(v.try_frames[i]) = Act(v.try_frames[j]) /\ Num(v.try_frames[i]) < Num(v.try_frames[j])
TriesHandled(v, p) ==
    \A k, n \in Nat : OpenTry(v, p, k, n) =>
        \E j \in DOMAIN v.try_frames : Act(v.try_frames[j]) = k /\ Num(v.try_frames[j]) = n

\* Bases do not decrease from an activation to the ones it calls.
Bounded(v) ==
    /\ v.stack <= v.frame_base /\ v.frame_base <= v.stack_top
    /\ v.stack_top <= v.stack + v.capacity
    /\ \A i \in DOMAIN v.frames :
        /\ v.stack <= v.frames[i].frame_base /\ v.frames[i].frame_base <= v.frame_base
        /\ \A j \in DOMAIN v.frames : i < j => v.frames[i].frame_base <= v.frames[j].frame_base
    /\ \A i \in DOMAIN v.try_frames :
        /\ v.stack <= v.try_frames[i].frame_base
        /\ v.try_frames[i].frame_base <= v.try_frames[i].stack_top
        /\ v.try_frames[i].stack_top <= v.stack + v.capacity

CallersNested(v) ==
    \A i \in DOMAIN v.frames :
        Nested(v.frames[i].return_ip) /\ v.frames[i].return_ip.temps >= 1

Inv(v, p) ==
    /\ v \in VMs /\ p \in Places
    /\ Nested(p) /\ CallersNested(v)
    /\ HandlersLead(v, p) /\ HandlersOrdered(v) /\ TriesHandled(v, p)
    /\ Bounded(v)

Tile(v, p) ==
    /\ BaseIn(v, 1) = v.stack
    /\ \A k \in 1 .. Len(v.frames) :
        BaseIn(v, k + 1) = BaseIn(v, k) + v.frames[k].return_ip.locals + v.frames[k].return_ip.temps - 1
    /\ v.stack_top = v.frame_base + p.locals + p.temps

IInv ==
    /\ Inv(vm, ip)
    /\ status \in {"run", "ok", "error", "stack overflow"}
    /\ Running => Tile(vm, ip)
    /\ status = "error" => \A k, n \in Nat : ~OpenTry(vm, ip, k, n)

-----------------------------------------------------------------------------
(* Moving the stack.                                                         *)

LEMMA VMsAreTyped ==
  ASSUME NEW v \in VMs
  PROVE  /\ v.stack \in Int /\ v.stack_top \in Int /\ v.frame_base \in Int
         /\ v.capacity \in Int /\ v.capacity <= StackMax
         /\ v.frames \in Seq(Frames) /\ v.try_frames \in Seq(Handlers)
  <1>1. /\ v.stack \in Blocks /\ v.capacity \in InitialCapacity .. StackMax
        /\ v.stack_top \in Int /\ v.frame_base \in Int
        /\ v.frames \in Seq(Frames) /\ v.try_frames \in Seq(Handlers)
    BY DEF VMs
  <1>2. v.stack \in Int
    BY <1>1, VmFramesAssumption
  <1>3. v.capacity \in Int /\ v.capacity <= StackMax
    BY <1>1, VmFramesAssumption
  <1>4. QED
    BY <1>1, <1>2, <1>3

\* w is v with every pointer moved by d.
Moved(v, w, d) ==
    /\ w.stack = v.stack + d /\ w.stack_top = v.stack_top + d /\ w.frame_base = v.frame_base + d
    /\ w.capacity >= v.capacity
    /\ DOMAIN w.frames = DOMAIN v.frames /\ Len(w.frames) = Len(v.frames)
    /\ \A i \in DOMAIN v.frames :
        /\ w.frames[i].frame_base = v.frames[i].frame_base + d
        /\ w.frames[i].return_ip = v.frames[i].return_ip
    /\ DOMAIN w.try_frames = DOMAIN v.try_frames /\ Len(w.try_frames) = Len(v.try_frames)
    /\ \A i \in DOMAIN v.try_frames :
        /\ w.try_frames[i].frame_base = v.try_frames[i].frame_base + d
        /\ w.try_frames[i].stack_top = v.try_frames[i].stack_top + d
        /\ w.try_frames[i].catch_ip = v.try_frames[i].catch_ip
        /\ w.try_frames[i].frame_count = v.try_frames[i].frame_count
        /\ w.try_frames[i].local_count = v.try_frames[i].local_count

\* The block a growing stack moves to holds the same VM.
LEMMA RebasedMoves ==
  ASSUME NEW v \in VMs, NEW b \in Blocks, NEW c \in InitialCapacity .. StackMax,
         c >= v.capacity,
         NEW w, w = Rebased(v, b, c), NEW d, d = b - v.stack
  PROVE  w \in VMs /\ Moved(v, w, d)
  <1>1. v.stack \in Int /\ b \in Int /\ v.stack_top \in Int /\ v.frame_base \in Int
    BY VmFramesAssumption DEF VMs
  <1>2. v.frames \in Seq(Frames) /\ v.try_frames \in Seq(Handlers)
    BY DEF VMs
  <1>3. /\ w.stack = b /\ w.capacity = c /\ w.stack_top = v.stack_top + d
        /\ w.frame_base = v.frame_base + d
    BY DEF Rebased
  <1>4. w.frames = [i \in DOMAIN v.frames |->
                        [v.frames[i] EXCEPT !.frame_base = v.frames[i].frame_base + d]]
    BY DEF Rebased
  <1>5. w.try_frames = [i \in DOMAIN v.try_frames |->
                        [v.try_frames[i] EXCEPT !.frame_base = v.try_frames[i].frame_base + d,
                                                !.stack_top = v.try_frames[i].stack_top + d]]
    BY DEF Rebased
  <1>6. d \in Int /\ w.stack = v.stack + d
    BY <1>1, <1>3
  <1>7. \A i \in DOMAIN v.frames : v.frames[i] \in Frames
    BY <1>2
  <1>8. \A i \in DOMAIN v.try_frames : v.try_frames[i] \in Handlers
    BY <1>2
  <1>9. ASSUME NEW i \in DOMAIN v.frames
        PROVE  /\ w.frames[i] \in Frames
               /\ w.frames[i].frame_base = v.frames[i].frame_base + d
               /\ w.frames[i].return_ip = v.frames[i].return_ip
    <2>1. w.frames[i] = [v.frames[i] EXCEPT !.frame_base = v.frames[i].frame_base + d]
      BY <1>4
    <2>2. v.frames[i] \in Frames
      BY <1>7
    <2>3. QED
      BY <2>1, <2>2, <1>6 DEF Frames
  <1>10. ASSUME NEW i \in DOMAIN v.try_frames
         PROVE  /\ w.try_frames[i] \in Handlers
                /\ w.try_frames[i].frame_base = v.try_frames[i].frame_base + d
                /\ w.try_frames[i].stack_top = v.try_frames[i].stack_top + d
                /\ w.try_frames[i].catch_ip = v.try_frames[i].catch_ip
                /\ w.try_frames[i].frame_count = v.try_frames[i].frame_count
                /\ w.try_frames[i].local_count = v.try_frames[i].local_count
    <2>1. w.try_frames[i] = [v.try_frames[i] EXCEPT !.frame_base = v.try_frames[i].frame_base + d,
                                                    !.stack_top = v.try_frames[i].stack_top + d]
      BY <1>5
    <2> DEFINE tf == v.try_frames[i]
    <2>2. tf \in Handlers
      BY <1>8
    <2>3. /\ tf.frame_base + d \in Int /\ tf.stack_top + d \in Int /\ tf.catch_ip \in Places
          /\ tf.frame_count \in Nat /\ tf.local_count \in Nat
      BY <2>2, <1>6 DEF Handlers
    <2>4. tf = [catch_ip |-> tf.catch_ip, frame_count |-> tf.frame_count, frame_base |-> tf.frame_base,
                local_count |-> tf.local_count, stack_top |-> tf.stack_top]
      BY <2>2 DEF Handlers
    <2>5. w.try_frames[i] = [catch_ip |-> tf.catch_ip, frame_count |-> tf.frame_count,
                             frame_base |-> tf.frame_base + d, local_count |-> tf.local_count,
                             stack_top |-> tf.stack_top + d]
      BY <2>1, <2>4
    <2>6. QED
      BY <2>3, <2>5 DEF Handlers
  <1>11. w.frames \in Seq(Frames) /\ DOMAIN w.frames = DOMAIN v.frames /\ Len(w.frames) = Len(v.frames)
    <2>1. DOMAIN v.frames = 1 .. Len(v.frames) /\ Len(v.frames) \in Nat
      BY <1>2
    <2>2. w.frames \in [1 .. Len(v.frames) -> Frames]
      BY <1>4, <1>9, <2>1
    <2>3. QED
      BY <2>1, <2>2, SeqDef, LenProperties
  <1>12. /\ w.try_frames \in Seq(Handlers) /\ DOMAIN w.try_frames = DOMAIN v.try_frames
         /\ Len(w.try_frames) = Len(v.try_frames)
    <2>1. DOMAIN v.try_frames = 1 .. Len(v.try_frames) /\ Len(v.try_frames) \in Nat
      BY <1>2
    <2>2. w.try_frames \in [1 .. Len(v.try_frames) -> Handlers]
      BY <1>5, <1>10, <2>1
    <2>3. QED
      BY <2>1, <2>2, SeqDef, LenProperties
  <1>13. w \in VMs
    <2>1. w = [stack |-> w.stack, capacity |-> w.capacity, stack_top |-> w.stack_top,
               frame_base |-> w.frame_base, frames |-> w.frames, try_frames |-> w.try_frames]
      BY DEF Rebased
    <2>2. w.stack_top \in Int /\ w.frame_base \in Int
      BY <1>1, <1>3, <1>6
    <2>3. QED
      BY <2>1, <2>2, <1>3, <1>11, <1>12 DEF VMs
  <1>14. Moved(v, w, d)
    BY <1>3, <1>6, <1>9, <1>10, <1>11, <1>12 DEF Moved
  <1>15. QED
    BY <1>13, <1>14

(* What the invariant says of a VM does not depend on where its block lies.  *)
LEMMA MovedKeeps ==
  ASSUME NEW v \in VMs, NEW w \in VMs, NEW p \in Places, NEW d \in Int, Moved(v, w, d),
         Inv(v, p)
  PROVE  Inv(w, p) /\ (Tile(v, p) => Tile(w, p))
  <1>1. /\ v.frames \in Seq(Frames) /\ w.frames \in Seq(Frames)
        /\ v.try_frames \in Seq(Handlers) /\ w.try_frames \in Seq(Handlers)
    BY DEF VMs
  <1>0. /\ v.stack \in Int /\ v.stack_top \in Int /\ v.frame_base \in Int
        /\ v.capacity \in Int /\ w.capacity \in Int
    BY VMsAreTyped
  <1>2. /\ \A i \in DOMAIN v.frames : v.frames[i] \in Frames
        /\ \A i \in DOMAIN v.try_frames : v.try_frames[i] \in Handlers
        /\ DOMAIN v.frames = 1 .. Len(v.frames) /\ Len(v.frames) \in Nat
        /\ DOMAIN v.try_frames = 1 .. Len(v.try_frames) /\ Len(v.try_frames) \in Nat
    BY <1>1
  <1>3. \A k \in 1 .. Len(v.frames) + 1 :
            /\ PlaceIn(w, p, k) = PlaceIn(v, p, k)
            /\ BaseIn(w, k) = BaseIn(v, k) + d
            /\ BaseIn(v, k) \in Int
    <2> SUFFICES ASSUME NEW k \in 1 .. Len(v.frames) + 1
                 PROVE  /\ PlaceIn(w, p, k) = PlaceIn(v, p, k)
                        /\ BaseIn(w, k) = BaseIn(v, k) + d
                        /\ BaseIn(v, k) \in Int
      OBVIOUS
    <2>1. Len(w.frames) = Len(v.frames) /\ w.frame_base = v.frame_base + d
      BY DEF Moved
    <2>2. CASE k = Len(v.frames) + 1
      BY <2>1, <2>2, <1>0 DEF PlaceIn, BaseIn
    <2>3. CASE k # Len(v.frames) + 1
      <3>1. k \in DOMAIN v.frames
        BY <2>3, <1>2
      <3>2. /\ w.frames[k].frame_base = v.frames[k].frame_base + d
            /\ w.frames[k].return_ip = v.frames[k].return_ip
        BY <3>1 DEF Moved
      <3>3. v.frames[k].frame_base \in Int
        BY <3>1, <1>2 DEF Frames
      <3>4. QED
        BY <2>1, <2>3, <3>2, <3>3 DEF PlaceIn, BaseIn
    <2>4. QED
      BY <2>2, <2>3
  <1>4. CallersNested(w)
    BY <1>2 DEF Moved, CallersNested, Inv
  <1>5. \A k, n : OpenTry(w, p, k, n) <=> OpenTry(v, p, k, n)
    <2>1. Len(w.frames) = Len(v.frames)
      BY DEF Moved
    <2>2. QED
      BY <2>1, <1>3 DEF OpenTry
  <1>6. \A j \in DOMAIN v.try_frames : Act(w.try_frames[j]) = Act(v.try_frames[j])
                                    /\ Num(w.try_frames[j]) = Num(v.try_frames[j])
    BY DEF Moved, Act, Num
  <1>7. HandlersLead(w, p)
    <2> SUFFICES ASSUME NEW j \in DOMAIN v.try_frames
                 PROVE  /\ OpenTry(w, p, Act(w.try_frames[j]), Num(w.try_frames[j]))
                        /\ Leads(w.try_frames[j], PlaceIn(w, p, Act(w.try_frames[j])),
                                 BaseIn(w, Act(w.try_frames[j])), Num(w.try_frames[j]))
      BY DEF HandlersLead, Moved
    <2> DEFINE k == Act(v.try_frames[j])
               n == Num(v.try_frames[j])
    <2>1. OpenTry(v, p, k, n) /\ Leads(v.try_frames[j], PlaceIn(v, p, k), BaseIn(v, k), n)
      BY DEF Inv, HandlersLead
    <2>2. k \in 1 .. Len(v.frames) + 1
      BY <2>1 DEF OpenTry
    <2>3. PlaceIn(w, p, k) = PlaceIn(v, p, k) /\ BaseIn(w, k) = BaseIn(v, k) + d /\ BaseIn(v, k) \in Int
      BY <2>2, <1>3
    <2>4. v.try_frames[j].stack_top = BaseIn(v, k) + PlaceIn(v, p, k).scopes[n].start + 1
      BY <2>1 DEF Leads
    <2>5. v.try_frames[j].local_count = PlaceIn(v, p, k).scopes[n].start + 1
          /\ v.try_frames[j].local_count \in Nat
      BY <2>1, <1>2 DEF Leads, Handlers
    <2>6. v.try_frames[j].stack_top = BaseIn(v, k) + v.try_frames[j].local_count
          /\ v.try_frames[j].stack_top + d = BaseIn(w, k) + PlaceIn(w, p, k).scopes[n].start + 1
      <3>1. PlaceIn(v, p, k).scopes[n].start \in Int
        <4>1. PlaceIn(v, p, k) \in Places
          BY <2>2, <1>2 DEF PlaceIn, Frames
        <4>2. PlaceIn(v, p, k).scopes \in Seq(Scopes) /\ n \in DOMAIN PlaceIn(v, p, k).scopes
          BY <4>1, <2>1 DEF OpenTry, Places
        <4>3. PlaceIn(v, p, k).scopes[n] \in Scopes
          BY <4>2
        <4>4. QED
          BY <4>3 DEF Scopes
      <3>2. QED
        BY <3>1, <2>3, <2>4, <2>5
    <2>7. Leads(w.try_frames[j], PlaceIn(w, p, k), BaseIn(w, k), n)
      <3>1. /\ w.try_frames[j].frame_base = v.try_frames[j].frame_base + d
            /\ w.try_frames[j].stack_top = v.try_frames[j].stack_top + d
            /\ w.try_frames[j].catch_ip = v.try_frames[j].catch_ip
            /\ w.try_frames[j].local_count = v.try_frames[j].local_count
        BY DEF Moved
      <3>2. QED
        BY <3>1, <2>1, <2>3, <2>6 DEF Leads
    <2>8. QED
      BY <2>1, <2>7, <1>5, <1>6
  <1>8. HandlersOrdered(w)
    <2>1. HandlersOrdered(v) /\ DOMAIN w.try_frames = DOMAIN v.try_frames
      BY DEF Inv, Moved
    <2>2. QED
      BY <2>1, <1>6 DEF HandlersOrdered
  <1>9. TriesHandled(w, p)
    <2>1. TriesHandled(v, p) /\ DOMAIN w.try_frames = DOMAIN v.try_frames
      BY DEF Inv, Moved
    <2>2. QED
      BY <2>1, <1>5, <1>6 DEF TriesHandled
  <1>10. Bounded(w)
    <2>1. \A i \in DOMAIN v.frames : v.frames[i].frame_base \in Int
      BY <1>2 DEF Frames
    <2>2. \A i \in DOMAIN v.try_frames : v.try_frames[i].frame_base \in Int /\ v.try_frames[i].stack_top \in Int
      BY <1>2 DEF Handlers
    <2>3. Bounded(v)
      BY DEF Inv
    <2>4. /\ w.stack <= w.frame_base /\ w.frame_base <= w.stack_top
          /\ w.stack_top <= w.stack + w.capacity
      BY <2>3, <1>0 DEF Bounded, Moved
    <2>5. /\ DOMAIN w.frames = DOMAIN v.frames
          /\ DOMAIN w.try_frames = DOMAIN v.try_frames
          /\ w.stack = v.stack + d /\ w.frame_base = v.frame_base + d /\ w.capacity >= v.capacity
          /\ \A i \in DOMAIN v.frames : w.frames[i].frame_base = v.frames[i].frame_base + d
      BY DEF Moved
    <2>6. ASSUME NEW i \in DOMAIN v.frames
          PROVE  /\ w.stack <= w.frames[i].frame_base /\ w.frames[i].frame_base <= w.frame_base
                 /\ \A j \in DOMAIN w.frames : i < j => w.frames[i].frame_base <= w.frames[j].frame_base
      <3>1. v.stack <= v.frames[i].frame_base /\ v.frames[i].frame_base <= v.frame_base
        BY <2>3 DEF Bounded
      <3>2. \A j \in DOMAIN v.frames : i < j => v.frames[i].frame_base <= v.frames[j].frame_base
        BY <2>3 DEF Bounded
      <3>3. QED
        BY <3>1, <3>2, <2>1, <2>5, <1>0
    <2>8. ASSUME NEW i \in DOMAIN v.try_frames
          PROVE  /\ w.stack <= w.try_frames[i].frame_base
                 /\ w.try_frames[i].frame_base <= w.try_frames[i].stack_top
                 /\ w.try_frames[i].stack_top <= w.stack + w.capacity
      <3>1. /\ v.stack <= v.try_frames[i].frame_base
            /\ v.try_frames[i].frame_base <= v.try_frames[i].stack_top
            /\ v.try_frames[i].stack_top <= v.stack + v.capacity
        BY <2>3 DEF Bounded
      <3>2. /\ w.try_frames[i].frame_base = v.try_frames[i].frame_base + d
            /\ w.try_frames[i].stack_top = v.try_frames[i].stack_top + d
        BY DEF Moved
      <3>3. QED
        BY <3>1, <3>2, <2>2, <2>5, <1>0
    <2>7. QED
      BY <2>4, <2>5, <2>6, <2>8 DEF Bounded
  <1>11. ASSUME Tile(v, p) PROVE Tile(w, p)
    <2>1. p.locals \in Nat /\ p.temps \in Nat
      BY DEF Places
    <2>2. w.stack_top = w.frame_base + p.locals + p.temps
      BY <2>1, <1>0, <1>11 DEF Tile, Moved
    <2>3. BaseIn(w, 1) = w.stack
      BY <1>0, <1>2, <1>3, <1>11 DEF Tile, Moved
    <2>4. ASSUME NEW k \in 1 .. Len(w.frames)
          PROVE  BaseIn(w, k + 1) = BaseIn(w, k) + w.frames[k].return_ip.locals
                                                 + w.frames[k].return_ip.temps - 1
      <3>1. k \in 1 .. Len(v.frames) /\ w.frames[k].return_ip = v.frames[k].return_ip
        BY <1>2 DEF Moved
      <3>2. v.frames[k].return_ip.locals \in Nat /\ v.frames[k].return_ip.temps \in Nat
        <4>1. v.frames[k] \in Frames
          BY <3>1, <1>2
        <4>2. QED
          BY <4>1 DEF Frames, Places
      <3>3. BaseIn(w, k) = BaseIn(v, k) + d /\ BaseIn(w, k + 1) = BaseIn(v, k + 1) + d
            /\ BaseIn(v, k) \in Int /\ BaseIn(v, k + 1) \in Int
        <4>1. k \in 1 .. Len(v.frames) + 1 /\ k + 1 \in 1 .. Len(v.frames) + 1
          BY <3>1, <1>2
        <4>2. QED
          BY <4>1, <1>3
      <3>4. BaseIn(v, k + 1) = BaseIn(v, k) + v.frames[k].return_ip.locals
                                             + v.frames[k].return_ip.temps - 1
        BY <3>1, <1>11 DEF Tile
      <3>5. QED
        <4>1. w.frames[k].return_ip.locals = v.frames[k].return_ip.locals
              /\ w.frames[k].return_ip.temps = v.frames[k].return_ip.temps
          BY <3>1
        <4> DEFINE l == v.frames[k].return_ip.locals
                   t == v.frames[k].return_ip.temps
                   a == BaseIn(v, k)
                   b == BaseIn(v, k + 1)
        <4>2. l \in Int /\ t \in Int /\ a \in Int /\ b \in Int /\ b = a + l + t - 1
          BY <3>2, <3>3, <3>4
        <4>3. /\ BaseIn(w, k + 1) = b + d /\ BaseIn(w, k) = a + d
              /\ w.frames[k].return_ip.locals = l /\ w.frames[k].return_ip.temps = t
          BY <3>3, <4>1
        <4> HIDE DEF l, t, a, b
        <4>4. QED
          BY <4>2, <4>3
    <2>5. QED
      BY <2>2, <2>3, <2>4 DEF Tile
  <1>12. QED
    BY <1>4, <1>7, <1>8, <1>9, <1>10, <1>11 DEF Inv

-----------------------------------------------------------------------------
(* The elementary changes: of stack_top, of the place, and a push.           *)

LEMMA TopKeeps ==
  ASSUME NEW v, NEW p, Inv(v, p), NEW t \in Int, v.frame_base <= t, t <= v.stack + v.capacity,
         NEW w, w = [v EXCEPT !.stack_top = t]
  PROVE  Inv(w, p)
  <1>1. v \in VMs
    BY DEF Inv
  <1>2. /\ w.stack = v.stack /\ w.capacity = v.capacity /\ w.stack_top = t
        /\ w.frame_base = v.frame_base /\ w.frames = v.frames /\ w.try_frames = v.try_frames
    BY <1>1 DEF VMs
  <1>3. w \in VMs
    BY <1>1 DEF VMs
  <1>4. \A k : PlaceIn(w, p, k) = PlaceIn(v, p, k) /\ BaseIn(w, k) = BaseIn(v, k)
    BY <1>2 DEF PlaceIn, BaseIn
  <1>5. \A k, n : OpenTry(w, p, k, n) <=> OpenTry(v, p, k, n)
    BY <1>2, <1>4 DEF OpenTry
  <1>6. HandlersLead(w, p)
    BY <1>2, <1>4, <1>5 DEF Inv, HandlersLead
  <1>7. HandlersOrdered(w) /\ CallersNested(w)
    BY <1>2 DEF Inv, HandlersOrdered, CallersNested
  <1>8. TriesHandled(w, p)
    BY <1>2, <1>5 DEF Inv, TriesHandled
  <1>9. Bounded(w)
    BY <1>2 DEF Inv, Bounded
  <1>10. QED
    BY <1>3, <1>6, <1>7, <1>8, <1>9 DEF Inv

\* The try scopes of p are those of q, around the same scopes.
SameTries(p, q) ==
    /\ \A n \in DOMAIN p.scopes : p.scopes[n].kind = "try" =>
        n \in DOMAIN q.scopes /\ \A i \in 1 .. n : q.scopes[i] = p.scopes[i]
    /\ \A n \in DOMAIN q.scopes : q.scopes[n].kind = "try" =>
        n \in DOMAIN p.scopes /\ p.scopes[n].kind = "try"

LEMMA PlaceKeeps ==
  ASSUME NEW v, NEW p, Inv(v, p), NEW q \in Places, Nested(q), SameTries(p, q)
  PROVE  Inv(v, q)
  <1>1. v \in VMs /\ p \in Places
    BY DEF Inv
  <1>2. Len(v.frames) \in Nat /\ v.frames \in Seq(Frames)
    BY <1>1, VMsAreTyped
  <1>3. \A k : k # Len(v.frames) + 1 => PlaceIn(v, q, k) = PlaceIn(v, p, k)
    BY DEF PlaceIn
  <1>4. \A k : k = Len(v.frames) + 1 => PlaceIn(v, q, k) = q /\ PlaceIn(v, p, k) = p
    BY DEF PlaceIn
  <1>5. ASSUME NEW k, NEW n
        PROVE  OpenTry(v, q, k, n) <=> OpenTry(v, p, k, n)
    <2>1. CASE k # Len(v.frames) + 1
      BY <2>1, <1>3 DEF OpenTry
    <2>2. CASE k = Len(v.frames) + 1
      <3>1. n \in DOMAIN p.scopes /\ p.scopes[n].kind = "try" => n \in 1 .. n
        BY <1>1 DEF Places
      <3>2. n \in DOMAIN q.scopes /\ q.scopes[n].kind = "try"
              <=> n \in DOMAIN p.scopes /\ p.scopes[n].kind = "try"
        BY <3>1 DEF SameTries
      <3>3. QED
        BY <2>2, <3>2, <1>4 DEF OpenTry
    <2>3. QED
      BY <2>1, <2>2
  <1>6. HandlersLead(v, q)
    <2> SUFFICES ASSUME NEW j \in DOMAIN v.try_frames
                 PROVE  /\ OpenTry(v, q, Act(v.try_frames[j]), Num(v.try_frames[j]))
                        /\ Leads(v.try_frames[j], PlaceIn(v, q, Act(v.try_frames[j])),
                                 BaseIn(v, Act(v.try_frames[j])), Num(v.try_frames[j]))
      BY DEF HandlersLead
    <2> DEFINE k == Act(v.try_frames[j])
               n == Num(v.try_frames[j])
    <2>1. OpenTry(v, p, k, n) /\ Leads(v.try_frames[j], PlaceIn(v, p, k), BaseIn(v, k), n)
      BY DEF Inv, HandlersLead
    <2>2. OpenTry(v, q, k, n)
      BY <2>1, <1>5
    <2>3. CASE k # Len(v.frames) + 1
      BY <2>1, <2>2, <2>3, <1>3
    <2>4. CASE k = Len(v.frames) + 1
      <3>1. n \in DOMAIN p.scopes /\ p.scopes[n].kind = "try"
        BY <2>1, <2>4, <1>4 DEF OpenTry
      <3>2. \A i \in 1 .. n : q.scopes[i] = p.scopes[i]
        BY <3>1 DEF SameTries
      <3>3. n \in Nat /\ n >= 1
        BY <3>1, <1>1 DEF Places
      <3>4. n \in 1 .. n /\ \A i \in 1 .. n - 1 : i \in 1 .. n
        BY <3>3
      <3>5. Leads(v.try_frames[j], p, BaseIn(v, k), n)
        BY <2>1, <2>4, <1>4
      <3>6. Leads(v.try_frames[j], q, BaseIn(v, k), n)
        BY <3>2, <3>4, <3>5 DEF Leads
      <3>7. QED
        BY <2>2, <2>4, <3>6, <1>4
    <2>5. QED
      BY <2>3, <2>4
  <1>7. TriesHandled(v, q)
    BY <1>5 DEF Inv, TriesHandled
  <1>8. QED
    BY <1>6, <1>7 DEF Inv

\* A push raises stack_top by one, in a block that may have moved.
LEMMA PushKeeps ==
  ASSUME NEW v, NEW p, Inv(v, p), NEW w \in Push(v)
  PROVE  \E u \in VMs :
            /\ Inv(u, p)
            /\ Tile(v, p) => Tile(u, p)
            /\ w = [u EXCEPT !.stack_top = u.stack_top + 1]
            /\ u.stack_top + 1 <= u.stack + u.capacity
            /\ Len(u.try_frames) = Len(v.try_frames)
  <1>1. v \in VMs /\ p \in Places /\ Bounded(v)
    BY DEF Inv
  <1>2. PICK u \in EnsureCapacity(v) : w = [u EXCEPT !.stack_top = u.stack_top + 1]
    BY DEF Push
  <1>3. v.stack \in Int /\ v.stack_top \in Int /\ v.capacity \in Int /\ v.capacity <= StackMax
        /\ v.stack_top <= v.stack + v.capacity
    BY <1>1, VMsAreTyped DEF Bounded
  <1>4. CASE v.stack_top - v.stack + 1 <= v.capacity
    <2>1. u = v
      BY <1>2, <1>4 DEF EnsureCapacity
    <2>2. v.stack_top + 1 <= v.stack + v.capacity
      BY <1>3, <1>4
    <2>3. QED
      BY <1>1, <1>2, <2>1, <2>2
  <1>5. CASE ~(v.stack_top - v.stack + 1 <= v.capacity)
    <2>1. ~(v.stack_top - v.stack + 1 > StackMax)
      BY <1>2, <1>5 DEF EnsureCapacity
    <2>2. PICK b \in Blocks : u = Rebased(v, b, Doubled(v.capacity))
      BY <1>2, <1>5, <2>1 DEF EnsureCapacity
    <2> DEFINE c == Doubled(v.capacity)
               d == b - v.stack
    <2>3. v.capacity >= InitialCapacity /\ InitialCapacity \in Nat /\ InitialCapacity >= 2
          /\ StackMax \in Nat
      <3>1. v.capacity \in InitialCapacity .. StackMax
        BY <1>1 DEF VMs
      <3>2. QED
        BY <3>1, VmFramesAssumption
    <2>4. /\ c \in InitialCapacity .. StackMax /\ c >= v.capacity + 1
      BY <1>3, <1>5, <2>1, <2>3 DEF Doubled
    <2>5. c >= v.capacity /\ c \in Int
      BY <1>3, <2>3, <2>4
    <2>6. b \in Int /\ d \in Int
      BY <1>3, VmFramesAssumption
    <2> HIDE DEF c
    <2>7. u \in VMs /\ Moved(v, u, d)
      BY <1>1, <2>2, <2>4, <2>5, RebasedMoves DEF c
    <2>8. Inv(u, p) /\ (Tile(v, p) => Tile(u, p))
      BY <1>1, <2>6, <2>7, MovedKeeps
    <2>9. u.stack = v.stack + d /\ u.stack_top = v.stack_top + d
          /\ Len(u.try_frames) = Len(v.try_frames)
      BY <2>7 DEF Moved
    <2>10. u.capacity = c
      BY <2>2 DEF c, Rebased
    <2>11. u.stack_top + 1 <= u.stack + u.capacity
      BY <1>3, <2>4, <2>5, <2>6, <2>9, <2>10
    <2>12. QED
      BY <1>2, <2>7, <2>8, <2>9, <2>11
  <1>6. QED
    BY <1>4, <1>5

-----------------------------------------------------------------------------
(* Sequences without their last element, cut to a length, and with one more. *)

LEMMA CutFacts ==
  ASSUME NEW S, NEW s \in Seq(S), NEW m \in Nat, m <= Len(s)
  PROVE  /\ SubSeq(s, 1, m) \in Seq(S) /\ Len(SubSeq(s, 1, m)) = m
         /\ DOMAIN SubSeq(s, 1, m) = 1 .. m
         /\ \A i \in 1 .. m : SubSeq(s, 1, m)[i] = s[i] /\ i \in DOMAIN s
  OBVIOUS

LEMMA FrontFacts ==
  ASSUME NEW S, NEW s \in Seq(S), s # <<>>
  PROVE  /\ Len(s) \in Nat /\ Len(s) >= 1
         /\ Front(s) \in Seq(S) /\ Len(Front(s)) = Len(s) - 1
         /\ DOMAIN Front(s) = 1 .. Len(s) - 1
         /\ \A i \in 1 .. Len(s) - 1 : Front(s)[i] = s[i] /\ i \in DOMAIN s
         /\ Last(s) = s[Len(s)] /\ Last(s) \in S /\ Len(s) \in DOMAIN s
  <1>1. Len(s) \in Nat /\ Len(s) >= 1 /\ DOMAIN s = 1 .. Len(s)
    BY EmptySeq
  <1>2. Last(s) = s[Len(s)] /\ Len(s) \in DOMAIN s /\ Last(s) \in S
    BY <1>1 DEF Last
  <1>3. Len(s) - 1 \in Nat /\ Len(s) - 1 <= Len(s)
    BY <1>1
  <1>4. Front(s) = SubSeq(s, 1, Len(s) - 1)
    BY DEF Front
  <1>5. QED
    BY <1>1, <1>2, <1>3, <1>4, CutFacts

LEMMA AppendFacts ==
  ASSUME NEW S, NEW s \in Seq(S), NEW e \in S
  PROVE  /\ Append(s, e) \in Seq(S) /\ Len(s) \in Nat /\ Len(Append(s, e)) = Len(s) + 1
         /\ DOMAIN Append(s, e) = 1 .. Len(s) + 1 /\ DOMAIN s = 1 .. Len(s)
         /\ \A i \in 1 .. Len(s) : Append(s, e)[i] = s[i]
         /\ Append(s, e)[Len(s) + 1] = e
  OBVIOUS

-----------------------------------------------------------------------------
(* Errors.                                                                   *)

LEMMA PlacesAreTyped ==
  ASSUME NEW p \in Places
  PROVE  /\ p.locals \in Nat /\ p.temps \in Nat
         /\ p.scopes \in Seq(Scopes) /\ DOMAIN p.scopes = 1 .. Len(p.scopes) /\ Len(p.scopes) \in Nat
         /\ \A n \in DOMAIN p.scopes : /\ p.scopes[n] \in Scopes
                                       /\ p.scopes[n].start \in Nat /\ p.scopes[n].own \in Nat
  <1>1. p.locals \in Nat /\ p.temps \in Nat /\ p.scopes \in Seq(Scopes)
    BY DEF Places
  <1>2. DOMAIN p.scopes = 1 .. Len(p.scopes) /\ Len(p.scopes) \in Nat
    BY <1>1
  <1>3. \A n \in DOMAIN p.scopes : p.scopes[n] \in Scopes
    BY <1>1
  <1>4. QED
    BY <1>1, <1>2, <1>3 DEF Scopes

\* The activations of a VM: each is at a nested place, with a base.
LEMMA ActivationsAreTyped ==
  ASSUME NEW v, NEW p, Inv(v, p)
  PROVE  /\ v \in VMs /\ p \in Places
         /\ v.frames \in Seq(Frames) /\ Len(v.frames) \in Nat /\ DOMAIN v.frames = 1 .. Len(v.frames)
         /\ v.try_frames \in Seq(Handlers) /\ Len(v.try_frames) \in Nat
         /\ DOMAIN v.try_frames = 1 .. Len(v.try_frames)
         /\ \A k \in 1 .. Len(v.frames) + 1 :
                /\ PlaceIn(v, p, k) \in Places /\ Nested(PlaceIn(v, p, k))
                /\ BaseIn(v, k) \in Int
         /\ \A k \in 1 .. Len(v.frames) + 1 :
                v.stack <= BaseIn(v, k) /\ BaseIn(v, k) <= v.frame_base
         /\ \A i, k \in 1 .. Len(v.frames) + 1 : i < k => BaseIn(v, i) <= BaseIn(v, k)
  <1>1. v \in VMs /\ p \in Places /\ Nested(p) /\ CallersNested(v) /\ Bounded(v)
    BY DEF Inv
  <1>2. v.frames \in Seq(Frames) /\ v.try_frames \in Seq(Handlers) /\ v.frame_base \in Int /\ v.stack \in Int
    BY <1>1, VMsAreTyped
  <1>3. /\ Len(v.frames) \in Nat /\ DOMAIN v.frames = 1 .. Len(v.frames)
        /\ Len(v.try_frames) \in Nat /\ DOMAIN v.try_frames = 1 .. Len(v.try_frames)
    BY <1>2
  <1>4. \A k \in 1 .. Len(v.frames) + 1 : k = Len(v.frames) + 1 \/ k \in DOMAIN v.frames
    BY <1>3
  <1>5. \A k \in DOMAIN v.frames : v.frames[k] \in Frames
    BY <1>2
  <1>6. \A k \in DOMAIN v.frames :
            /\ v.frames[k].return_ip \in Places /\ Nested(v.frames[k].return_ip)
            /\ v.frames[k].frame_base \in Int
            /\ v.stack <= v.frames[k].frame_base /\ v.frames[k].frame_base <= v.frame_base
            /\ k # Len(v.frames) + 1
    BY <1>1, <1>3, <1>5 DEF Frames, CallersNested, Bounded
  <1>7. \A k \in 1 .. Len(v.frames) + 1 :
            /\ PlaceIn(v, p, k) \in Places /\ Nested(PlaceIn(v, p, k))
            /\ BaseIn(v, k) \in Int
    BY <1>1, <1>2, <1>4, <1>6 DEF PlaceIn, BaseIn
  <1>8. v.stack <= v.frame_base /\ v.frame_base <= v.frame_base
    BY <1>1, <1>2 DEF Bounded
  <1>9. \A k \in 1 .. Len(v.frames) + 1 : v.stack <= BaseIn(v, k) /\ BaseIn(v, k) <= v.frame_base
    BY <1>4, <1>6, <1>8 DEF BaseIn
  <1>10. ASSUME NEW i \in 1 .. Len(v.frames) + 1, NEW k \in 1 .. Len(v.frames) + 1, i < k
         PROVE  BaseIn(v, i) <= BaseIn(v, k)
    <2>1. i \in DOMAIN v.frames /\ i # Len(v.frames) + 1
      BY <1>3, <1>10
    <2>2. CASE k = Len(v.frames) + 1
      BY <2>1, <2>2, <1>6 DEF BaseIn
    <2>3. CASE k # Len(v.frames) + 1
      <3>1. k \in DOMAIN v.frames
        BY <2>3, <1>4
      <3>2. v.frames[i].frame_base <= v.frames[k].frame_base
        BY <3>1, <2>1, <1>1, <1>10 DEF Bounded
      <3>3. QED
        BY <3>2, <2>1, <2>3 DEF BaseIn
    <2>4. QED
      BY <2>2, <2>3
  <1>11. QED
    BY <1>1, <1>2, <1>3, <1>7, <1>9, <1>10

\* What the newest handler leads to is the state it was installed in.
LEMMA CatchKeeps ==
  ASSUME NEW v, NEW p, Inv(v, p), v.try_frames # <<>>,
         NEW tf, tf = Last(v.try_frames),
         NEW w \in VMs, w.stack = v.stack, w.capacity = v.capacity,
         w.stack_top = tf.stack_top, w.frame_base = tf.frame_base,
         w.frames = SubSeq(v.frames, 1, tf.frame_count),
         w.try_frames = Front(v.try_frames)
  PROVE  /\ Inv(w, tf.catch_ip)
         /\ Tile(v, p) => Tile(w, tf.catch_ip)
  <1> DEFINE m == Len(v.try_frames)
             k == Act(tf)
             n == Num(tf)
             q == PlaceIn(v, p, k)
             c == tf.catch_ip
  <1>1. /\ v \in VMs /\ p \in Places
        /\ v.frames \in Seq(Frames) /\ Len(v.frames) \in Nat /\ DOMAIN v.frames = 1 .. Len(v.frames)
        /\ v.try_frames \in Seq(Handlers) /\ m \in Nat /\ DOMAIN v.try_frames = 1 .. m
    BY ActivationsAreTyped
  <1>2. /\ m >= 1 /\ tf = v.try_frames[m] /\ tf \in Handlers /\ m \in DOMAIN v.try_frames
        /\ DOMAIN w.try_frames = 1 .. m - 1
        /\ \A j \in 1 .. m - 1 : w.try_frames[j] = v.try_frames[j] /\ j \in DOMAIN v.try_frames
    BY <1>1, FrontFacts
  <1>3. c \in Places /\ tf.frame_count \in Nat /\ k = tf.frame_count + 1 /\ n = Len(c.scopes)
    BY <1>2 DEF Handlers, Act, Num
  <1>4. /\ OpenTry(v, p, k, n) /\ Leads(tf, q, BaseIn(v, k), n)
    BY <1>2 DEF Inv, HandlersLead
  <1>5. k \in 1 .. Len(v.frames) + 1 /\ n \in DOMAIN q.scopes /\ q.scopes[n].kind = "try"
    BY <1>4 DEF OpenTry
  <1>6. /\ q \in Places /\ Nested(q) /\ BaseIn(v, k) \in Int
        /\ v.stack <= BaseIn(v, k)
        /\ \A i \in 1 .. Len(v.frames) + 1 : i < k => BaseIn(v, i) <= BaseIn(v, k)
    BY <1>5, ActivationsAreTyped
  <1>7. /\ tf.frame_count <= Len(v.frames)
        /\ Len(w.frames) = tf.frame_count /\ DOMAIN w.frames = 1 .. tf.frame_count
        /\ \A i \in 1 .. tf.frame_count : w.frames[i] = v.frames[i] /\ i \in DOMAIN v.frames
    <2>1. tf.frame_count <= Len(v.frames)
      BY <1>1, <1>3, <1>5
    <2>2. QED
      BY <2>1, <1>1, <1>3, CutFacts
  <1>8. /\ \A i \in 1 .. n - 1 : c.scopes[i] = q.scopes[i]
        /\ c.scopes[n] = Scope("catch", q.scopes[n].start, 1)
        /\ c.locals = q.scopes[n].start + 1 /\ c.temps = 0
        /\ tf.frame_base = BaseIn(v, k)
        /\ tf.stack_top = BaseIn(v, k) + q.scopes[n].start + 1
    BY <1>4 DEF Leads
  <1>9. /\ DOMAIN c.scopes = 1 .. n /\ n \in Nat /\ n >= 1 /\ q.scopes[n].start \in Nat
        /\ DOMAIN q.scopes = 1 .. Len(q.scopes) /\ Len(q.scopes) \in Nat /\ n <= Len(q.scopes)
        /\ \A i \in 1 .. n : i \in DOMAIN q.scopes
    BY <1>3, <1>5, <1>6, PlacesAreTyped
  <1> HIDE DEF m, k, n, q, c
  <1>10. n > 1
    BY <1>5, <1>6, <1>9 DEF Nested
  <1>11. /\ c.scopes[n].kind = "catch" /\ c.scopes[n].start = q.scopes[n].start
         /\ c.scopes[n].own = 1 /\ Floor(c.scopes[n]) = c.locals
    BY <1>8, <1>9 DEF Scope, Floor
  <1>12. Nested(c)
    <2>1. c.scopes # <<>> /\ c.scopes[1].kind = "proc"
      BY <1>6, <1>8, <1>9, <1>10 DEF Nested
    <2>2. ASSUME NEW i \in 1 .. n
          PROVE  /\ Floor(c.scopes[i]) <= c.locals
                 /\ c.scopes[i].kind = "try" => c.scopes[i].own = 1
                 /\ c.scopes[i].kind = "proc" => i = 1
                 /\ \A j \in 1 .. n : i < j => Floor(c.scopes[i]) <= c.scopes[j].start
      <3>1. CASE i = n
        <4>1. \A j \in 1 .. n : ~(i < j)
          BY <3>1, <1>9
        <4>2. Floor(c.scopes[i]) <= c.locals
          BY <3>1, <1>8, <1>9, <1>11
        <4>3. QED
          BY <4>1, <4>2, <3>1, <1>11
      <3>2. CASE i # n
        <4>1. i \in 1 .. n - 1 /\ i < n /\ i \in DOMAIN q.scopes /\ n \in DOMAIN q.scopes
          BY <3>2, <1>9
        <4>2. /\ Floor(q.scopes[i]) <= q.scopes[n].start
              /\ q.scopes[i].kind = "try" => q.scopes[i].own = 1
              /\ q.scopes[i].kind = "proc" => i = 1
              /\ \A j \in DOMAIN q.scopes : i < j => Floor(q.scopes[i]) <= q.scopes[j].start
          BY <4>1, <1>6 DEF Nested
        <4>3. Floor(q.scopes[i]) \in Int
          BY <4>1, <1>6, PlacesAreTyped DEF Floor
        <4>4. \A j \in 1 .. n : c.scopes[j].start = q.scopes[j].start
          BY <1>8, <1>9, <1>11
        <4>5. c.scopes[i] = q.scopes[i]
          BY <4>1, <1>8
        <4>6. Floor(c.scopes[i]) <= c.locals
          BY <4>2, <4>3, <4>5, <1>8, <1>9
        <4>7. QED
          BY <4>2, <4>4, <4>5, <4>6, <1>9
      <3>3. QED
        BY <3>1, <3>2
    <2>3. QED
      BY <2>1, <2>2, <1>9 DEF Nested
  <1>13. CallersNested(w)
    BY <1>7 DEF Inv, CallersNested
  <1>14. ASSUME NEW i \in 1 .. k - 1
         PROVE  /\ PlaceIn(w, c, i) = PlaceIn(v, p, i) /\ BaseIn(w, i) = BaseIn(v, i)
                /\ i \in 1 .. Len(v.frames) /\ i < k
    <2>1. i \in 1 .. tf.frame_count /\ i # tf.frame_count + 1 /\ i # Len(v.frames) + 1
          /\ i \in 1 .. Len(v.frames) /\ i < k
      BY <1>1, <1>3, <1>5, <1>7
    <2>2. w.frames[i] = v.frames[i] /\ Len(w.frames) = tf.frame_count
      BY <2>1, <1>7
    <2>3. QED
      BY <2>1, <2>2 DEF PlaceIn, BaseIn
  <1>15. PlaceIn(w, c, k) = c /\ BaseIn(w, k) = BaseIn(v, k) /\ Len(w.frames) + 1 = k
    BY <1>3, <1>7, <1>8 DEF PlaceIn, BaseIn
  <1>16. HandlersOrdered(w)
    <2>1. HandlersOrdered(v)
      BY DEF Inv
    <2>2. QED
      BY <2>1, <1>2 DEF HandlersOrdered
  \* The other handlers belong to scopes around the try block.
  <1>17. ASSUME NEW j \in 1 .. m - 1
         PROVE  /\ Act(v.try_frames[j]) \in 1 .. k /\ Num(v.try_frames[j]) \in Nat
                /\ Act(v.try_frames[j]) = k => Num(v.try_frames[j]) \in 1 .. n - 1
    <2> DEFINE kj == Act(v.try_frames[j])
               nj == Num(v.try_frames[j])
    <2>1. kj < k \/ (kj = k /\ nj < n)
      <3>1. j \in DOMAIN v.try_frames /\ j < m /\ m \in DOMAIN v.try_frames
        BY <1>1, <1>2
      <3>2. Act(v.try_frames[m]) = k /\ Num(v.try_frames[m]) = n
        BY <1>2 DEF k, n
      <3>3. HandlersOrdered(v)
        BY DEF Inv
      <3>4. QED
        BY <3>1, <3>2, <3>3 DEF HandlersOrdered
    <2>2. OpenTry(v, p, kj, nj)
      BY <1>2 DEF Inv, HandlersLead
    <2>3. kj \in 1 .. Len(v.frames) + 1 /\ nj \in DOMAIN PlaceIn(v, p, kj).scopes
      BY <2>2 DEF OpenTry
    <2>4. PlaceIn(v, p, kj) \in Places
      BY <2>3, ActivationsAreTyped
    <2>5. nj \in Nat /\ nj >= 1
      BY <2>3, <2>4, PlacesAreTyped
    <2>6. QED
      BY <2>1, <2>3, <2>5, <1>1, <1>3, <1>9
  <1>18. ASSUME NEW i \in 1 .. k, NEW l, l \in Nat, i = k => l # n
         PROVE  /\ OpenTry(w, c, i, l) <=> OpenTry(v, p, i, l) /\ (i = k => l <= n - 1)
    <2>1. CASE i = k
      <3>1. OpenTry(w, c, i, l) <=> l \in 1 .. n /\ c.scopes[l].kind = "try"
        BY <2>1, <1>3, <1>5, <1>9, <1>15 DEF OpenTry
      <3>2. l \in 1 .. n => l \in 1 .. n - 1
        BY <2>1, <1>9, <1>18
      <3>3. OpenTry(v, p, i, l) <=> l \in 1 .. Len(q.scopes) /\ q.scopes[l].kind = "try"
        BY <2>1, <1>5, <1>9 DEF OpenTry, q
      <3>4. l \in 1 .. n - 1 => l \in 1 .. Len(q.scopes) /\ l <= n - 1 /\ l \in 1 .. n
        BY <1>9
      <3>5. l <= n - 1 /\ l \in 1 .. Len(q.scopes) => l \in 1 .. n - 1
        BY <1>9
      <3>6. l \in 1 .. n - 1 => c.scopes[l].kind = q.scopes[l].kind /\ l \in 1 .. n
        BY <1>8, <3>4
      <3>7. ASSUME OpenTry(w, c, i, l) PROVE OpenTry(v, p, i, l) /\ l <= n - 1
        BY <3>1, <3>2, <3>3, <3>4, <3>6, <3>7
      <3>8. ASSUME OpenTry(v, p, i, l), l <= n - 1 PROVE OpenTry(w, c, i, l)
        BY <3>1, <3>3, <3>5, <3>6, <3>8
      <3>9. QED
        BY <2>1, <3>7, <3>8
    <2>2. CASE i # k
      <3>1. i \in 1 .. k - 1
        BY <2>2, <1>3
      <3>2. i \in 1 .. Len(w.frames) + 1
        BY <1>15
      <3>4. i \in 1 .. Len(v.frames) + 1
        BY <3>1, <1>1, <1>14
      <3>3. QED
        BY <3>1, <3>2, <3>4, <1>14, <2>2 DEF OpenTry
    <2>3. QED
      BY <2>1, <2>2
  <1>19. HandlersLead(w, c)
    <2> SUFFICES ASSUME NEW j \in 1 .. m - 1
                 PROVE  /\ OpenTry(w, c, Act(v.try_frames[j]), Num(v.try_frames[j]))
                        /\ Leads(v.try_frames[j], PlaceIn(w, c, Act(v.try_frames[j])),
                                 BaseIn(w, Act(v.try_frames[j])), Num(v.try_frames[j]))
      BY <1>2 DEF HandlersLead
    <2> DEFINE kj == Act(v.try_frames[j])
               nj == Num(v.try_frames[j])
    <2>1. /\ OpenTry(v, p, kj, nj) /\ Leads(v.try_frames[j], PlaceIn(v, p, kj), BaseIn(v, kj), nj)
      BY <1>2 DEF Inv, HandlersLead
    <2>2. kj \in 1 .. k /\ nj \in Nat /\ (kj = k => nj \in 1 .. n - 1)
      BY <1>17
    <2>3. kj = k => nj # n /\ nj <= n - 1
      BY <2>2, <1>9
    <2>4. OpenTry(w, c, kj, nj)
      BY <2>1, <2>2, <2>3, <1>18
    <2>5. CASE kj = k
      <3>1. Leads(v.try_frames[j], q, BaseIn(v, k), nj)
        BY <2>1, <2>5 DEF q
      <3>2. \A i \in 1 .. nj : i \in 1 .. n - 1 /\ c.scopes[i] = q.scopes[i]
        BY <2>2, <2>5, <1>8, <1>9
      <3>3. nj \in 1 .. nj /\ \A i \in 1 .. nj - 1 : i \in 1 .. nj
        BY <2>2, <2>5, <1>9
      <3>4. Leads(v.try_frames[j], c, BaseIn(v, k), nj)
        BY <3>1, <3>2, <3>3 DEF Leads
      <3>5. QED
        BY <2>4, <2>5, <3>4, <1>15
    <2>6. CASE kj # k
      <3>1. kj \in 1 .. k - 1
        BY <2>2, <2>6, <1>3
      <3>2. QED
        BY <2>1, <2>4, <3>1, <1>14
    <2>7. QED
      BY <2>5, <2>6
  <1>20. TriesHandled(w, c)
    <2> SUFFICES ASSUME NEW i \in Nat, NEW l \in Nat, OpenTry(w, c, i, l)
                 PROVE  \E j \in 1 .. m - 1 : Act(v.try_frames[j]) = i /\ Num(v.try_frames[j]) = l
      BY <1>2 DEF TriesHandled
    <2>1. i \in 1 .. k
      BY <1>15 DEF OpenTry
    <2>2. i = k => l # n
      BY <1>11, <1>15 DEF OpenTry
    <2>3. OpenTry(v, p, i, l)
      BY <2>1, <2>2, <1>18
    <2>4. PICK j \in DOMAIN v.try_frames : Act(v.try_frames[j]) = i /\ Num(v.try_frames[j]) = l
      BY <2>3 DEF Inv, TriesHandled
    <2>5. j # m
      BY <2>2, <2>4, <1>2 DEF k, n
    <2>6. QED
      BY <2>4, <2>5, <1>1
  <1>21. Bounded(w)
    <2>1. Bounded(v)
      BY DEF Inv
    <2>2. /\ v.stack \in Int /\ v.capacity \in Int
          /\ tf.stack_top <= v.stack + v.capacity /\ tf.frame_base <= tf.stack_top
          /\ v.stack <= tf.frame_base
      BY <2>1, <1>1, <1>2, VMsAreTyped DEF Bounded
    <2>3. /\ w.stack <= w.frame_base /\ w.frame_base <= w.stack_top
          /\ w.stack_top <= w.stack + w.capacity
      BY <2>2
    <2>4. ASSUME NEW i \in 1 .. tf.frame_count
          PROVE  /\ w.stack <= w.frames[i].frame_base /\ w.frames[i].frame_base <= w.frame_base
                 /\ \A j \in 1 .. tf.frame_count :
                        i < j => w.frames[i].frame_base <= w.frames[j].frame_base
      <3>1. i \in 1 .. k - 1 /\ i \in DOMAIN v.frames /\ w.frames[i] = v.frames[i]
        BY <1>3, <1>7
      <3>2. i \in 1 .. Len(v.frames) + 1 /\ i # Len(v.frames) + 1 /\ i < k
        BY <3>1, <1>1, <1>3
      <3>3. BaseIn(v, i) = v.frames[i].frame_base
        BY <3>2 DEF BaseIn
      <3>4. v.frames[i].frame_base <= w.frame_base
        BY <3>2, <3>3, <1>6, <1>8
      <3>5. v.stack <= v.frames[i].frame_base
            /\ \A j \in DOMAIN v.frames : i < j => v.frames[i].frame_base <= v.frames[j].frame_base
        BY <2>1, <3>1 DEF Bounded
      <3>6. QED
        BY <3>1, <3>4, <3>5, <1>7
    <2>5. \A j \in 1 .. m - 1 :
            /\ w.stack <= w.try_frames[j].frame_base
            /\ w.try_frames[j].frame_base <= w.try_frames[j].stack_top
            /\ w.try_frames[j].stack_top <= w.stack + w.capacity
      BY <2>1, <1>2 DEF Bounded
    <2>6. QED
      BY <2>3, <2>4, <2>5, <1>2, <1>7 DEF Bounded
  <1>22. Inv(w, c)
    BY <1>3, <1>12, <1>13, <1>16, <1>19, <1>20, <1>21 DEF Inv
  <1>23. ASSUME Tile(v, p) PROVE Tile(w, c)
    <2>1. BaseIn(w, 1) = w.stack
      <3>1. BaseIn(v, 1) = v.stack
        BY <1>23 DEF Tile
      <3>2. CASE k = 1
        BY <3>1, <3>2, <1>15
      <3>3. CASE k # 1
        <4>1. 1 \in 1 .. k - 1
          BY <3>3, <1>3
        <4>2. QED
          BY <4>1, <3>1, <1>14
      <3>4. QED
        BY <3>2, <3>3
    <2>2. ASSUME NEW i \in 1 .. Len(w.frames)
          PROVE  BaseIn(w, i + 1) = BaseIn(w, i) + w.frames[i].return_ip.locals
                                                 + w.frames[i].return_ip.temps - 1
      <3>1. i \in 1 .. k - 1 /\ i \in 1 .. tf.frame_count
        BY <1>3, <1>7
      <3>2. BaseIn(w, i) = BaseIn(v, i) /\ i \in 1 .. Len(v.frames) /\ w.frames[i] = v.frames[i]
        BY <3>1, <1>7, <1>14
      <3>3. BaseIn(w, i + 1) = BaseIn(v, i + 1)
        <4>1. i + 1 = k \/ i + 1 \in 1 .. k - 1
          BY <3>1, <1>3
        <4>2. QED
          BY <4>1, <1>14, <1>15
      <3>4. QED
        BY <3>2, <3>3, <1>23 DEF Tile
    <2>3. w.stack_top = w.frame_base + c.locals + c.temps
      BY <1>6, <1>8, <1>9
    <2>4. QED
      BY <2>1, <2>2, <2>3 DEF Tile
  <1>24. QED
    BY <1>22, <1>23 DEF c

LEMMA RunsOn ==
  ASSUME status' = "run", Inv(vm', ip'), Tile(vm', ip')
  PROVE  IInv'
  BY DEF IInv, Running

\* A caught error leaves the VM cut back to what the handler recorded.
LEMMA ThrowCuts ==
  ASSUME IInv, Running, Throw, vm.try_frames # <<>>,
         NEW tf, tf = Last(vm.try_frames)
  PROVE  /\ vm' \in VMs /\ vm'.stack = vm.stack /\ vm'.capacity = vm.capacity
         /\ vm'.stack_top = tf.stack_top /\ vm'.frame_base = tf.frame_base
         /\ vm'.frames = SubSeq(vm.frames, 1, tf.frame_count)
         /\ vm'.try_frames = Front(vm.try_frames)
         /\ ip' = tf.catch_ip /\ status' = status
  <1> DEFINE cut == [vm EXCEPT !.try_frames = Front(vm.try_frames),
                               !.stack_top  = tf.frame_base + tf.local_count - 1,
                               !.frame_base = tf.frame_base,
                               !.frames     = SubSeq(vm.frames, 1, tf.frame_count)]
  <1>0. Inv(vm, ip) /\ status = "run" /\ Tile(vm, ip)
    BY DEF IInv, Running
  <1> DEFINE m == Len(vm.try_frames)
  <1>1. /\ vm \in VMs /\ ip \in Places /\ Bounded(vm)
        /\ vm.frames \in Seq(Frames) /\ vm.try_frames \in Seq(Handlers)
        /\ vm.stack \in Int /\ vm.capacity \in Int
    BY <1>0, ActivationsAreTyped, VMsAreTyped DEF Inv
  <1>2. /\ m \in DOMAIN vm.try_frames /\ tf = vm.try_frames[m] /\ tf \in Handlers
        /\ Front(vm.try_frames) \in Seq(Handlers)
    BY <1>1, FrontFacts
  <1>3. OpenTry(vm, ip, Act(tf), Num(tf)) /\ Leads(tf, PlaceIn(vm, ip, Act(tf)), BaseIn(vm, Act(tf)), Num(tf))
    BY <1>0, <1>2 DEF Inv, HandlersLead
  <1>4. Len(vm.frames) \in Nat /\ tf.frame_count \in Nat /\ tf.frame_count <= Len(vm.frames)
        /\ SubSeq(vm.frames, 1, tf.frame_count) \in Seq(Frames)
    <2>1. Len(vm.frames) \in Nat /\ tf.frame_count \in Nat
      BY <1>1, <1>2 DEF Handlers
    <2>2. tf.frame_count <= Len(vm.frames)
      BY <1>3, <2>1 DEF OpenTry, Act
    <2>3. QED
      BY <1>1, <2>1, <2>2, CutFacts
  <1>5. /\ tf.frame_base \in Int /\ tf.local_count \in Nat /\ tf.stack_top \in Int
    BY <1>2 DEF Handlers
  <1>6. tf.stack_top = tf.frame_base + tf.local_count
    <2>1. /\ tf.frame_base = BaseIn(vm, Act(tf))
          /\ tf.stack_top = BaseIn(vm, Act(tf)) + PlaceIn(vm, ip, Act(tf)).scopes[Num(tf)].start + 1
          /\ tf.local_count = PlaceIn(vm, ip, Act(tf)).scopes[Num(tf)].start + 1
      BY <1>3 DEF Leads
    <2>2. Act(tf) \in 1 .. Len(vm.frames) + 1
          /\ Num(tf) \in DOMAIN PlaceIn(vm, ip, Act(tf)).scopes
      BY <1>3 DEF OpenTry
    <2>3. PlaceIn(vm, ip, Act(tf)) \in Places
      BY <2>2, <1>0, ActivationsAreTyped
    <2>4. PlaceIn(vm, ip, Act(tf)).scopes[Num(tf)].start \in Nat
      BY <2>2, <2>3, PlacesAreTyped
    <2>5. QED
      BY <2>1, <2>4, <1>5
  <1> DEFINE w == [cut EXCEPT !.stack_top = cut.stack_top + 1]
  <1>7. /\ cut.stack = vm.stack /\ cut.capacity = vm.capacity
        /\ cut.stack_top = tf.frame_base + tf.local_count - 1
    BY <1>1 DEF VMs
  <1>8. /\ w.stack = vm.stack /\ w.capacity = vm.capacity /\ w.stack_top = cut.stack_top + 1
        /\ w.frame_base = tf.frame_base /\ w.frames = SubSeq(vm.frames, 1, tf.frame_count)
        /\ w.try_frames = Front(vm.try_frames)
    BY <1>1 DEF VMs
  <1>9. w.stack_top = tf.stack_top /\ w.stack_top \in Int
    BY <1>5, <1>6, <1>7, <1>8
  <1>10. w \in VMs
    BY <1>1, <1>2, <1>4, <1>5, <1>9 DEF VMs
  <1>11. cut.stack_top - cut.stack + 1 <= cut.capacity
    <2>1. tf.stack_top <= vm.stack + vm.capacity
      BY <1>1, <1>2 DEF Bounded
    <2>2. QED
      BY <2>1, <1>1, <1>5, <1>6, <1>7
  <1> HIDE DEF cut
  <1>12. Push(cut) = {w}
    BY <1>11 DEF Push, EnsureCapacity
  <1>13. ~(tf.frame_count > Len(vm.frames))
    BY <1>4
  <1>14. vm' = w /\ ip' = tf.catch_ip /\ status' = status
    BY <1>12, <1>13 DEF Throw, VmCatch, cut
  <1> HIDE DEF w
  <1>15. QED
    BY <1>8, <1>9, <1>10, <1>14

LEMMA ThrowKeeps ==
  ASSUME IInv, Running, Throw
  PROVE  IInv'
  <1>1. Inv(vm, ip) /\ status = "run" /\ Tile(vm, ip)
    BY DEF IInv, Running
  <1>2. CASE vm.try_frames = <<>>
    <2>1. status' = "error" /\ vm' = vm /\ ip' = ip
      BY <1>2 DEF Throw
    <2>2. DOMAIN vm.try_frames = {}
      BY <1>2
    <2>3. \A k, n \in Nat : ~OpenTry(vm, ip, k, n)
      BY <1>1, <2>2 DEF Inv, TriesHandled
    <2>4. QED
      BY <1>1, <2>1, <2>3 DEF IInv, Running
  <1>3. CASE vm.try_frames # <<>>
    <2> DEFINE tf == Last(vm.try_frames)
    <2> HIDE DEF tf
    <2>1. /\ vm' \in VMs /\ vm'.stack = vm.stack /\ vm'.capacity = vm.capacity
          /\ vm'.stack_top = tf.stack_top /\ vm'.frame_base = tf.frame_base
          /\ vm'.frames = SubSeq(vm.frames, 1, tf.frame_count)
          /\ vm'.try_frames = Front(vm.try_frames)
          /\ ip' = tf.catch_ip /\ status' = status
      BY <1>3, ThrowCuts DEF tf
    <2>2. Inv(vm', tf.catch_ip) /\ Tile(vm', tf.catch_ip)
      BY <1>1, <1>3, <2>1, CatchKeeps DEF tf
    <2>3. QED
      BY <1>1, <2>1, <2>2, RunsOn
  <1>4. QED
    BY <1>2, <1>3

LEMMA AbortKeeps ==
  ASSUME IInv, Abort
  PROVE  IInv'
  BY DEF IInv, Abort, Running

-----------------------------------------------------------------------------
(* Steps within an activation.                                               *)

\* The place changes, its try scopes do not, and stack_top settles above the
\* locals and operands of the new place.
LEMMA SettleKeeps ==
  ASSUME NEW v, NEW p, Inv(v, p), Tile(v, p),
         NEW q \in Places, Nested(q), SameTries(p, q),
         NEW t, t = v.frame_base + q.locals + q.temps, t <= v.stack + v.capacity,
         NEW w, w = [v EXCEPT !.stack_top = t]
  PROVE  Inv(w, q) /\ Tile(w, q)
  <1>1. v \in VMs /\ Bounded(v) /\ p \in Places
    BY DEF Inv
  <1>2. v.frame_base \in Int /\ q.locals \in Nat /\ q.temps \in Nat
    BY <1>1, VMsAreTyped, PlacesAreTyped
  <1>3. t \in Int /\ v.frame_base <= t
    BY <1>2
  <1>4. Inv(w, p)
    BY <1>3, TopKeeps
  <1>5. Inv(w, q)
    BY <1>4, PlaceKeeps
  <1>6. /\ w.stack = v.stack /\ w.frame_base = v.frame_base /\ w.frames = v.frames
        /\ w.stack_top = t
    BY <1>1 DEF VMs
  <1>7. \A k : BaseIn(w, k) = BaseIn(v, k)
    BY <1>6 DEF BaseIn
  <1>8. Tile(w, q)
    BY <1>6, <1>7 DEF Tile
  <1>9. QED
    BY <1>5, <1>8

\* Scopes with one more inside the innermost.
LEMMA OpenedNests ==
  ASSUME NEW p \in Places, Nested(p),
         NEW kind \in Kinds \ {"proc"}, NEW start \in Nat, NEW own \in Nat,
         kind = "try" => own = 1,
         Floor(Last(p.scopes)) <= start,
         NEW q \in Places, q.scopes = Append(p.scopes, Scope(kind, start, own)),
         q.locals = start + own
  PROVE  /\ Nested(q)
         /\ DOMAIN q.scopes = 1 .. Len(p.scopes) + 1 /\ Len(q.scopes) = Len(p.scopes) + 1
         /\ Len(p.scopes) \in Nat /\ DOMAIN p.scopes = 1 .. Len(p.scopes)
         /\ \A i \in 1 .. Len(p.scopes) : q.scopes[i] = p.scopes[i]
         /\ q.scopes[Len(p.scopes) + 1] = Scope(kind, start, own)
         /\ \A i \in 1 .. Len(p.scopes) : Floor(p.scopes[i]) <= start
  <1> DEFINE s == Scope(kind, start, own)
             m == Len(p.scopes)
  <1>1. s \in Scopes /\ s.kind = kind /\ s.start = start /\ s.own = own /\ Floor(s) = start + own
        /\ start + own \in Nat
    BY DEF Scope, Scopes, Floor
  <1>2. /\ p.scopes \in Seq(Scopes) /\ DOMAIN p.scopes = 1 .. m /\ m \in Nat
        /\ p.temps \in Nat /\ p.locals \in Nat
        /\ \A i \in 1 .. m : p.scopes[i].start \in Nat /\ p.scopes[i].own \in Nat
    BY PlacesAreTyped
  <1>3. m >= 1 /\ m \in 1 .. m /\ Last(p.scopes) = p.scopes[m]
    BY <1>2, FrontFacts DEF Nested
  <1>4. /\ Append(p.scopes, s) \in Seq(Scopes) /\ Len(Append(p.scopes, s)) = m + 1
        /\ DOMAIN Append(p.scopes, s) = 1 .. m + 1
        /\ \A i \in 1 .. m : Append(p.scopes, s)[i] = p.scopes[i]
        /\ Append(p.scopes, s)[m + 1] = s
    BY <1>1, <1>2, AppendFacts
  <1> HIDE DEF s, m
  <1>5. q.scopes = Append(p.scopes, s) /\ q.locals = start + own
    BY <1>1 DEF s
  <1>7. \A i \in 1 .. m : Floor(p.scopes[i]) \in Nat /\ Floor(p.scopes[i]) >= p.scopes[i].start
    BY <1>2 DEF Floor
  <1>8. ASSUME NEW i \in 1 .. m
        PROVE  Floor(p.scopes[i]) <= start
    <2>1. CASE i = m
      BY <2>1, <1>3
    <2>2. CASE i # m
      <3>0. i < m
        BY <2>2, <1>2
      <3>1. Floor(p.scopes[i]) <= p.scopes[m].start
        BY <3>0, <1>2, <1>3 DEF Nested
      <3>2. p.scopes[m].start <= Floor(p.scopes[m]) /\ Floor(p.scopes[m]) <= start
            /\ Floor(p.scopes[i]) \in Nat /\ Floor(p.scopes[m]) \in Nat /\ p.scopes[m].start \in Nat
        BY <1>2, <1>3, <1>7
      <3>3. QED
        BY <3>1, <3>2
    <2>3. QED
      BY <2>1, <2>2
  <1>9. Nested(q)
    <2>1. q.scopes # <<>> /\ q.scopes[1].kind = "proc"
      <3>1. 1 \in 1 .. m /\ 1 \in 1 .. m + 1
        BY <1>2, <1>3
      <3>2. q.scopes[1] = p.scopes[1] /\ 1 \in DOMAIN q.scopes
        BY <3>1, <1>4, <1>5
      <3>3. QED
        BY <3>2 DEF Nested
    <2>2. ASSUME NEW i \in 1 .. m + 1
          PROVE  /\ Floor(q.scopes[i]) <= q.locals
                 /\ q.scopes[i].kind = "try" => q.scopes[i].own = 1
                 /\ q.scopes[i].kind = "proc" => i = 1
                 /\ \A j \in 1 .. m + 1 : i < j => Floor(q.scopes[i]) <= q.scopes[j].start
      <3>1. CASE i = m + 1
        <4>1. q.scopes[i] = s /\ \A j \in 1 .. m + 1 : ~(i < j)
          BY <3>1, <1>2, <1>4, <1>5
        <4>2. kind # "proc" /\ Floor(s) <= q.locals
          BY <1>1, <1>5
        <4>3. QED
          BY <4>1, <4>2, <1>1
      <3>2. CASE i # m + 1
        <4>1. i \in 1 .. m
          BY <3>2, <1>2
        <4>2. q.scopes[i] = p.scopes[i]
          BY <4>1, <1>4, <1>5
        <4>3. /\ p.scopes[i].kind = "try" => p.scopes[i].own = 1
              /\ p.scopes[i].kind = "proc" => i = 1
              /\ \A j \in 1 .. m : i < j => Floor(p.scopes[i]) <= p.scopes[j].start
          BY <4>1, <1>2 DEF Nested
        <4>4. Floor(p.scopes[i]) <= start /\ start <= q.locals
              /\ Floor(p.scopes[i]) \in Nat
          BY <4>1, <1>5, <1>7, <1>8
        <4>5. ASSUME NEW j \in 1 .. m + 1, i < j
              PROVE  Floor(q.scopes[i]) <= q.scopes[j].start
          <5>1. CASE j = m + 1
            BY <5>1, <4>2, <4>4, <1>1, <1>4, <1>5
          <5>2. CASE j # m + 1
            <6>1. j \in 1 .. m
              BY <5>2, <1>2
            <6>2. q.scopes[j] = p.scopes[j]
              BY <6>1, <1>4, <1>5
            <6>3. QED
              BY <6>1, <6>2, <4>2, <4>3, <4>5
          <5>3. QED
            BY <5>1, <5>2
        <4>6. Floor(q.scopes[i]) <= q.locals
          <5>1. q.locals \in Nat
            BY <1>1, <1>5
          <5>2. Floor(p.scopes[i]) <= q.locals
            BY <5>1, <4>4
          <5>3. QED
            BY <5>2, <4>2
        <4>7. QED
          BY <4>2, <4>3, <4>5, <4>6
      <3>3. QED
        BY <3>1, <3>2
    <2>3. QED
      BY <2>1, <2>2, <1>4, <1>5 DEF Nested
  <1>10. QED
    BY <1>2, <1>4, <1>5, <1>8, <1>9 DEF s, m

\* Scopes without those from a number on, when no try scope is among them.
LEMMA CutNests ==
  ASSUME NEW p \in Places, Nested(p), NEW m \in 1 .. Len(p.scopes),
         \A i \in m + 1 .. Len(p.scopes) : p.scopes[i].kind # "try",
         NEW l \in Nat, \A i \in 1 .. m : Floor(p.scopes[i]) <= l,
         NEW q \in Places, q.scopes = SubSeq(p.scopes, 1, m), q.locals = l
  PROVE  Nested(q) /\ SameTries(p, q)
  <1>1. /\ p.scopes \in Seq(Scopes) /\ DOMAIN p.scopes = 1 .. Len(p.scopes)
        /\ Len(p.scopes) \in Nat /\ p.temps \in Nat
    BY PlacesAreTyped
  <1>2. m \in Nat /\ m >= 1 /\ m <= Len(p.scopes)
    BY <1>1
  <1>3. /\ SubSeq(p.scopes, 1, m) \in Seq(Scopes) /\ DOMAIN SubSeq(p.scopes, 1, m) = 1 .. m
        /\ \A i \in 1 .. m : SubSeq(p.scopes, 1, m)[i] = p.scopes[i] /\ i \in DOMAIN p.scopes
    BY <1>1, <1>2, CutFacts
  <1>4. q.locals = l
    OBVIOUS
  <1>5. /\ DOMAIN q.scopes = 1 .. m
        /\ \A i \in 1 .. m : q.scopes[i] = p.scopes[i] /\ i \in DOMAIN p.scopes
    BY <1>3
  <1>6. q.scopes # <<>> /\ q.scopes[1].kind = "proc"
    <2>1. 1 \in 1 .. m
      BY <1>2
    <2>2. QED
      BY <2>1, <1>5 DEF Nested
  <1>7. Nested(q)
    <2>1. ASSUME NEW i \in 1 .. m
          PROVE  /\ Floor(q.scopes[i]) <= q.locals
                 /\ q.scopes[i].kind = "try" => q.scopes[i].own = 1
                 /\ q.scopes[i].kind = "proc" => i = 1
                 /\ \A j \in 1 .. m : i < j => Floor(q.scopes[i]) <= q.scopes[j].start
      <3>1. /\ p.scopes[i].kind = "try" => p.scopes[i].own = 1
            /\ p.scopes[i].kind = "proc" => i = 1
            /\ \A j \in 1 .. m : i < j => Floor(p.scopes[i]) <= p.scopes[j].start
        BY <1>5 DEF Nested
      <3>2. Floor(p.scopes[i]) <= q.locals
        BY <1>4
      <3>3. q.scopes[i] = p.scopes[i] /\ \A j \in 1 .. m : q.scopes[j] = p.scopes[j]
        BY <1>5
      <3>4. QED
        BY <3>1, <3>2, <3>3
    <2>2. QED
      BY <2>1, <1>5, <1>6 DEF Nested
  <1>8. SameTries(p, q)
    <2>1. ASSUME NEW n \in DOMAIN p.scopes, p.scopes[n].kind = "try"
          PROVE  n \in 1 .. m /\ \A i \in 1 .. n : i \in 1 .. m
      <3>1. ~(n \in m + 1 .. Len(p.scopes))
        BY <2>1
      <3>2. n \in 1 .. Len(p.scopes)
        BY <1>1
      <3>3. QED
        BY <3>1, <3>2, <1>1, <1>2
    <2>2. QED
      BY <2>1, <1>5 DEF SameTries
  <1>9. QED
    BY <1>7, <1>8

LEMMA SameScopes ==
  ASSUME NEW p \in Places, Nested(p), NEW q \in Places, q.scopes = p.scopes, p.locals <= q.locals
  PROVE  Nested(q) /\ SameTries(p, q)
  <1>1. p.locals \in Nat /\ q.locals \in Nat /\ DOMAIN p.scopes = 1 .. Len(p.scopes)
        /\ \A n \in DOMAIN p.scopes : p.scopes[n].start \in Nat /\ p.scopes[n].own \in Nat
    BY PlacesAreTyped
  <1>2. \A i \in DOMAIN p.scopes : Floor(p.scopes[i]) \in Nat /\ Floor(p.scopes[i]) <= p.locals
    BY <1>1 DEF Floor, Nested
  <1>3. \A i \in DOMAIN p.scopes : Floor(p.scopes[i]) <= q.locals
    BY <1>1, <1>2
  <1>4. Nested(q)
    BY <1>3 DEF Nested
  <1>5. \A n \in 1 .. Len(p.scopes) : \A i \in 1 .. n : q.scopes[i] = p.scopes[i]
    OBVIOUS
  <1>6. SameTries(p, q)
    BY DEF SameTries
  <1>7. QED
    BY <1>4, <1>6

LEMMA OpenedTries ==
  ASSUME NEW p \in Places, NEW q \in Places,
         Len(p.scopes) \in Nat, DOMAIN p.scopes = 1 .. Len(p.scopes),
         DOMAIN q.scopes = 1 .. Len(p.scopes) + 1,
         \A i \in 1 .. Len(p.scopes) : q.scopes[i] = p.scopes[i],
         q.scopes[Len(p.scopes) + 1].kind # "try"
  PROVE  SameTries(p, q)
  <1> DEFINE m == Len(p.scopes)
  <1>1. \A n \in 1 .. m : n \in 1 .. m + 1 /\ \A i \in 1 .. n : i \in 1 .. m
    OBVIOUS
  <1>2. \A n \in 1 .. m + 1 : n = m + 1 \/ n \in 1 .. m
    OBVIOUS
  <1>3. \A n \in DOMAIN p.scopes : p.scopes[n].kind = "try" =>
            n \in DOMAIN q.scopes /\ \A i \in 1 .. n : q.scopes[i] = p.scopes[i]
    BY <1>1
  <1>4. \A n \in DOMAIN q.scopes : q.scopes[n].kind = "try" =>
            n \in DOMAIN p.scopes /\ p.scopes[n].kind = "try"
    BY <1>2
  <1>5. QED
    BY <1>3, <1>4 DEF SameTries

LEMMA WhileRunning ==
  ASSUME IInv, Running
  PROVE  /\ status = "run" /\ Inv(vm, ip) /\ Tile(vm, ip)
         /\ vm \in VMs /\ ip \in Places /\ Nested(ip) /\ Bounded(vm)
         /\ vm.stack \in Int /\ vm.capacity \in Int /\ vm.frame_base \in Int /\ vm.stack_top \in Int
         /\ ip.locals \in Nat /\ ip.temps \in Nat
         /\ vm.stack_top = vm.frame_base + ip.locals + ip.temps
         /\ vm.stack_top <= vm.stack + vm.capacity
         /\ vm.stack <= vm.frame_base
  <1>1. /\ status = "run" /\ Inv(vm, ip) /\ Tile(vm, ip)
    BY DEF IInv, Running
  <1>2. vm \in VMs /\ ip \in Places /\ Nested(ip) /\ Bounded(vm)
    BY <1>1 DEF Inv
  <1>3. QED
    BY <1>1, <1>2, VMsAreTyped, PlacesAreTyped DEF Bounded, Tile

LEMMA RaiseKeeps ==
  ASSUME IInv, Raise
  PROVE  IInv'
  BY ThrowKeeps DEF Raise

LEMMA PushValueKeeps ==
  ASSUME IInv, PushValue
  PROVE  IInv'
  <1>1. CASE Push(vm) = {}
    BY <1>1, ThrowKeeps, AbortKeeps DEF PushValue
  <1>2. CASE Push(vm) # {}
    <2> DEFINE q == [ip EXCEPT !.temps = ip.temps + 1]
    <2>1. Running /\ vm' \in Push(vm) /\ ip' = q /\ status' = status
      BY <1>2 DEF PushValue
    <2>2. /\ status = "run" /\ Inv(vm, ip) /\ Tile(vm, ip) /\ ip \in Places /\ Nested(ip)
          /\ ip.locals \in Nat /\ ip.temps \in Nat
      BY <2>1, WhileRunning
    <2>3. PICK u \in VMs :
            /\ Inv(u, ip) /\ Tile(u, ip)
            /\ vm' = [u EXCEPT !.stack_top = u.stack_top + 1]
            /\ u.stack_top + 1 <= u.stack + u.capacity
      BY <2>1, <2>2, PushKeeps
    <2>4. q \in Places /\ q.scopes = ip.scopes /\ q.locals = ip.locals /\ q.temps = ip.temps + 1
      BY <2>2 DEF Places
    <2> HIDE DEF q
    <2>5. Nested(q) /\ SameTries(ip, q)
      BY <2>2, <2>4, SameScopes
    <2>6. u.stack_top = u.frame_base + ip.locals + ip.temps /\ u.frame_base \in Int
      BY <2>3, VMsAreTyped DEF Tile
    <2>7. u.stack_top + 1 = u.frame_base + q.locals + q.temps
      BY <2>2, <2>4, <2>6
    <2>8. Inv(vm', q) /\ Tile(vm', q)
      BY <2>3, <2>4, <2>5, <2>7, SettleKeeps
    <2>9. QED
      BY <2>1, <2>2, <2>8, RunsOn
  <1>3. QED
    BY <1>1, <1>2

LEMMA PopValueKeeps ==
  ASSUME IInv, PopValue
  PROVE  IInv'
  <1> DEFINE q == [ip EXCEPT !.temps = ip.temps - 1]
             t == vm.stack_top - 1
  <1>1. /\ Running /\ ip.temps > 0 /\ ip' = q /\ status' = status
        /\ vm' = [vm EXCEPT !.stack_top = t]
    BY DEF PopValue, Popped
  <1>2. /\ status = "run" /\ Inv(vm, ip) /\ Tile(vm, ip)
        /\ vm \in VMs /\ ip \in Places /\ Nested(ip)
        /\ vm.stack \in Int /\ vm.capacity \in Int /\ vm.frame_base \in Int /\ vm.stack_top \in Int
        /\ ip.locals \in Nat /\ ip.temps \in Nat
        /\ vm.stack_top = vm.frame_base + ip.locals + ip.temps
        /\ vm.stack_top <= vm.stack + vm.capacity
    BY <1>1, WhileRunning
  <1>3. /\ q \in Places /\ q.scopes = ip.scopes /\ q.locals = ip.locals /\ q.temps = ip.temps - 1
    <2>1. ip.temps - 1 \in Nat
      BY <1>1, <1>2
    <2>2. ip.scopes \in Seq(Scopes) /\ ip = [scopes |-> ip.scopes, locals |-> ip.locals, temps |-> ip.temps]
      BY <1>2 DEF Places
    <2>3. q = [scopes |-> ip.scopes, locals |-> ip.locals, temps |-> ip.temps - 1]
      BY <2>2
    <2>4. QED
      BY <1>2, <2>1, <2>2, <2>3 DEF Places
  <1> HIDE DEF q
  <1>4. Nested(q) /\ SameTries(ip, q)
    BY <1>2, <1>3, SameScopes
  <1>5. t = vm.frame_base + q.locals + q.temps /\ t <= vm.stack + vm.capacity
    BY <1>2, <1>3
  <1>6. Inv(vm', q) /\ Tile(vm', q)
    BY <1>1, <1>2, <1>3, <1>4, <1>5, SettleKeeps
  <1>7. QED
    BY <1>1, <1>2, <1>6, RunsOn

\* A step that leaves the VM alone.
LEMMA StayKeeps ==
  ASSUME IInv, Running, NEW q \in Places, Nested(q), SameTries(ip, q),
         q.locals + q.temps = ip.locals + ip.temps,
         ip' = q, UNCHANGED <<vm, status>>
  PROVE  IInv'
  <1>1. /\ status = "run" /\ Inv(vm, ip) /\ Tile(vm, ip) /\ vm \in VMs
        /\ vm.stack \in Int /\ vm.capacity \in Int /\ vm.frame_base \in Int /\ vm.stack_top \in Int
        /\ ip.locals \in Nat /\ ip.temps \in Nat
        /\ vm.stack_top = vm.frame_base + ip.locals + ip.temps
        /\ vm.stack_top <= vm.stack + vm.capacity
    BY WhileRunning
  <1>2. q.locals \in Nat /\ q.temps \in Nat
    BY PlacesAreTyped
  <1>3. vm.stack_top = vm.frame_base + q.locals + q.temps
    BY <1>1, <1>2
  <1>4. vm = [vm EXCEPT !.stack_top = vm.stack_top]
    BY <1>1 DEF VMs
  <1>5. Inv(vm, q) /\ Tile(vm, q)
    BY <1>1, <1>3, <1>4, SettleKeeps
  <1>6. QED
    BY <1>1, <1>5, RunsOn

LEMMA DeclareKeeps ==
  ASSUME IInv, Declare
  PROVE  IInv'
  <1> DEFINE q == [ip EXCEPT !.temps = 0, !.locals = ip.locals + 1]
  <1>1. Running /\ ip.temps = 1 /\ ip' = q /\ UNCHANGED <<vm, status>>
    BY DEF Declare
  <1>2. ip \in Places /\ Nested(ip) /\ ip.locals \in Nat
    BY <1>1, WhileRunning
  <1>3. q \in Places /\ q.scopes = ip.scopes /\ q.locals = ip.locals + 1 /\ q.temps = 0
    <2>1. ip.locals + 1 \in Nat
      BY <1>2
    <2>2. ip.scopes \in Seq(Scopes) /\ ip = [scopes |-> ip.scopes, locals |-> ip.locals, temps |-> ip.temps]
      BY <1>2 DEF Places
    <2> DEFINE r == [ip EXCEPT !.temps = 0]
    <2>5. r = [scopes |-> ip.scopes, locals |-> ip.locals, temps |-> 0]
      BY <2>2
    <2> HIDE DEF r
    <2>6. [r EXCEPT !.locals = ip.locals + 1] = [scopes |-> ip.scopes, locals |-> ip.locals + 1, temps |-> 0]
      BY <2>5
    <2>3. q = [scopes |-> ip.scopes, locals |-> ip.locals + 1, temps |-> 0]
      BY <2>6 DEF r
    <2> HIDE DEF q
    <2>4. QED
      BY <2>1, <2>2, <2>3 DEF Places
  <1> HIDE DEF q
  <1>4. ip.locals <= q.locals /\ q.locals + q.temps = ip.locals + ip.temps
    BY <1>1, <1>2, <1>3
  <1>5. Nested(q) /\ SameTries(ip, q)
    BY <1>2, <1>3, <1>4, SameScopes
  <1>6. QED
    BY <1>1, <1>3, <1>4, <1>5, StayKeeps

\* Blocks and loops open a scope around the last n locals, n >= 0.
LEMMA EnterKeeps ==
  ASSUME IInv, NEW kind \in {"block", "loop"}, NEW n \in Nat, Enter(kind, n)
  PROVE  IInv'
  <1> DEFINE s == Scope(kind, ip.locals - n, n)
             q == [ip EXCEPT !.scopes = Append(ip.scopes, s), !.locals = Floor(s)]
  <1>1. /\ Running /\ ip.temps = 0 /\ ip.locals - n >= Floor(Last(ip.scopes))
        /\ ip' = q /\ UNCHANGED <<vm, status>>
    BY DEF Enter, Statement, Inner, Opened
  <1>2. ip \in Places /\ Nested(ip) /\ ip.locals \in Nat /\ ip.scopes # <<>>
    BY <1>1, WhileRunning DEF Nested
  <1>3. Last(ip.scopes) \in Scopes
    BY <1>2, PlacesAreTyped, FrontFacts
  <1>4. Floor(Last(ip.scopes)) \in Nat
    BY <1>3 DEF Scopes, Floor
  <1>5. ip.locals - n \in Nat /\ ip.locals - n + n = ip.locals
    BY <1>1, <1>2, <1>4
  <1>6. Floor(Last(ip.scopes)) <= ip.locals - n
    BY <1>1, <1>2, <1>4
  <1>7. kind \in Kinds \ {"proc"} /\ kind # "try"
    BY DEF Kinds
  <1> DEFINE m == Len(ip.scopes)
             start == ip.locals - n
  <1>13. q = [ip EXCEPT !.scopes = Append(ip.scopes, Scope(kind, start, n)),
                        !.locals = Floor(Scope(kind, start, n))]
    OBVIOUS
  <1>14. start \in Nat /\ Floor(Last(ip.scopes)) <= start
    BY <1>5, <1>6
  <1> HIDE DEF q, start
  <1>15. /\ Append(ip.scopes, Scope(kind, start, n)) \in Seq(Scopes)
         /\ Floor(Scope(kind, start, n)) = start + n /\ start + n \in Nat
    <2>1. Scope(kind, start, n) \in Scopes /\ Floor(Scope(kind, start, n)) = start + n
      BY <1>7, <1>14 DEF Scope, Scopes, Floor
    <2>2. QED
      BY <1>2, <1>14, <2>1, PlacesAreTyped, AppendFacts
  <1>16. /\ q \in Places /\ q.scopes = Append(ip.scopes, Scope(kind, start, n))
         /\ q.locals = start + n /\ q.temps = ip.temps
    BY <1>2, <1>13, <1>15 DEF Places
  <1>8. /\ Nested(q)
        /\ DOMAIN q.scopes = 1 .. m + 1 /\ m \in Nat /\ DOMAIN ip.scopes = 1 .. m
        /\ \A i \in 1 .. m : q.scopes[i] = ip.scopes[i]
        /\ q.scopes[m + 1] = Scope(kind, start, n)
    BY <1>2, <1>7, <1>14, <1>16, OpenedNests
  <1>9. q.scopes[m + 1].kind = kind
    BY <1>8 DEF Scope
  <1> HIDE DEF s
  <1>10. SameTries(ip, q)
    BY <1>2, <1>7, <1>8, <1>9, <1>16, OpenedTries
  <1>11. q.locals + q.temps = ip.locals + ip.temps
    BY <1>5, <1>16 DEF start
  <1>12. QED
    BY <1>1, <1>8, <1>10, <1>11, <1>16, StayKeeps

\* A jump to an enclosing scope pops the locals declared since.
LEMMA JumpKeeps ==
  ASSUME IInv, Running, ip.temps = 0,
         NEW m \in 1 .. Len(ip.scopes),
         \A i \in m + 1 .. Len(ip.scopes) : ip.scopes[i].kind # "try",
         NEW l \in Nat, l <= ip.locals, \A i \in 1 .. m : Floor(ip.scopes[i]) <= l,
         ip' = [ip EXCEPT !.scopes = SubSeq(ip.scopes, 1, m), !.locals = l],
         vm' = Popped(ip.locals - l), status' = status
  PROVE  IInv'
  <1> DEFINE t == vm.stack_top - (ip.locals - l)
             q == [ip EXCEPT !.scopes = SubSeq(ip.scopes, 1, m), !.locals = l]
  <1>1. /\ status = "run" /\ Inv(vm, ip) /\ Tile(vm, ip)
        /\ ip \in Places /\ Nested(ip)
        /\ vm.stack \in Int /\ vm.capacity \in Int /\ vm.frame_base \in Int /\ vm.stack_top \in Int
        /\ ip.locals \in Nat /\ ip.temps \in Nat
        /\ vm.stack_top = vm.frame_base + ip.locals + ip.temps
        /\ vm.stack_top <= vm.stack + vm.capacity
    BY WhileRunning
  <1>3. vm' = [vm EXCEPT !.stack_top = t] /\ ip' = q
    BY DEF Popped
  <1>7. q = [ip EXCEPT !.scopes = SubSeq(ip.scopes, 1, m), !.locals = l]
    OBVIOUS
  <1> HIDE DEF q
  <1>8. SubSeq(ip.scopes, 1, m) \in Seq(Scopes)
    <2>1. ip.scopes \in Seq(Scopes) /\ Len(ip.scopes) \in Nat
      BY <1>1, PlacesAreTyped
    <2>2. m \in Nat /\ m <= Len(ip.scopes)
      BY <2>1
    <2>3. QED
      BY <2>1, <2>2, CutFacts
  <1>9. q \in Places /\ q.scopes = SubSeq(ip.scopes, 1, m) /\ q.locals = l /\ q.temps = ip.temps
    BY <1>1, <1>7, <1>8 DEF Places
  <1>2. q \in Places /\ Nested(q) /\ SameTries(ip, q) /\ q.temps = ip.temps /\ q.locals = l
    BY <1>1, <1>9, CutNests
  <1>4. t = vm.frame_base + q.locals + q.temps /\ t <= vm.stack + vm.capacity
    BY <1>1, <1>2
  <1>5. Inv(vm', q) /\ Tile(vm', q)
    BY <1>1, <1>2, <1>3, <1>4, SettleKeeps
  <1>6. QED
    BY <1>1, <1>3, <1>5, RunsOn

\* The scopes of the place execution is at, and what lies below each.
LEMMA ScopesHere ==
  ASSUME IInv, Running
  PROVE  /\ ip \in Places /\ Nested(ip)
         /\ ip.scopes \in Seq(Scopes) /\ Len(ip.scopes) \in Nat /\ Len(ip.scopes) >= 1
         /\ DOMAIN ip.scopes = 1 .. Len(ip.scopes)
         /\ Inner = ip.scopes[Len(ip.scopes)]
         /\ \A n \in 1 .. Len(ip.scopes) :
                /\ ip.scopes[n].start \in Nat /\ Floor(ip.scopes[n]) \in Nat
                /\ ip.scopes[n].start <= Floor(ip.scopes[n])
                /\ Floor(ip.scopes[n]) <= ip.locals
                /\ ip.scopes[n].start <= ip.locals
                /\ \A i \in 1 .. n - 1 : Floor(ip.scopes[i]) <= ip.scopes[n].start
                /\ \A i \in 1 .. n : Floor(ip.scopes[i]) <= Floor(ip.scopes[n])
  <1> DEFINE m == Len(ip.scopes)
  <1>1. ip \in Places /\ Nested(ip) /\ ip.scopes # <<>> /\ ip.locals \in Nat
    BY WhileRunning DEF Nested
  <1>2. /\ ip.scopes \in Seq(Scopes) /\ m \in Nat /\ DOMAIN ip.scopes = 1 .. m
        /\ \A n \in 1 .. m : ip.scopes[n].start \in Nat /\ ip.scopes[n].own \in Nat
    BY <1>1, PlacesAreTyped
  <1>3. m >= 1 /\ Inner = ip.scopes[m]
    BY <1>1, <1>2, FrontFacts DEF Inner
  <1>4. \A n \in 1 .. m : Floor(ip.scopes[n]) \in Nat /\ ip.scopes[n].start <= Floor(ip.scopes[n])
    BY <1>2 DEF Floor
  <1>5. \A n \in 1 .. m : Floor(ip.scopes[n]) <= ip.locals
    BY <1>1, <1>2 DEF Nested
  <1>6. \A n \in 1 .. m : ip.scopes[n].start <= ip.locals
    BY <1>1, <1>2, <1>4, <1>5
  <1>7. ASSUME NEW n \in 1 .. m, NEW i \in 1 .. n - 1
        PROVE  Floor(ip.scopes[i]) <= ip.scopes[n].start
    <2>1. i \in 1 .. m /\ i < n
      BY <1>2
    <2>2. QED
      BY <2>1, <1>1, <1>2 DEF Nested
  <1>8. ASSUME NEW n \in 1 .. m, NEW i \in 1 .. n
        PROVE  Floor(ip.scopes[i]) <= Floor(ip.scopes[n])
    <2>0. i \in 1 .. m /\ (i = n \/ i \in 1 .. n - 1)
      BY <1>2
    <2>1. CASE i = n
      BY <2>1, <1>4
    <2>2. CASE i # n
      <3>1. Floor(ip.scopes[i]) <= ip.scopes[n].start /\ ip.scopes[n].start <= Floor(ip.scopes[n])
        BY <2>0, <2>2, <1>4, <1>7
      <3>2. Floor(ip.scopes[i]) \in Nat /\ Floor(ip.scopes[n]) \in Nat /\ ip.scopes[n].start \in Nat
        BY <2>0, <1>2, <1>4
      <3>3. QED
        BY <3>1, <3>2
    <2>3. QED
      BY <2>1, <2>2
  <1>9. QED
    BY <1>1, <1>2, <1>3, <1>4, <1>5, <1>6, <1>7, <1>8

\* Out of the scope number n, which is no procedure's and no try block's.
LEMMA AfterKeeps ==
  ASSUME IInv, Running, ip.temps = 0, NEW n \in 1 .. Len(ip.scopes), ip.scopes[n].kind # "proc",
         \A i \in n .. Len(ip.scopes) : ip.scopes[i].kind # "try",
         ip' = [ip EXCEPT !.scopes = SubSeq(ip.scopes, 1, n - 1), !.locals = ip.scopes[n].start],
         vm' = Popped(ip.locals - ip.scopes[n].start), status' = status
  PROVE  IInv'
  <1>1. /\ Nested(ip) /\ Len(ip.scopes) \in Nat
        /\ ip.scopes[n].start \in Nat /\ ip.scopes[n].start <= ip.locals
        /\ \A i \in 1 .. n - 1 : Floor(ip.scopes[i]) <= ip.scopes[n].start
    BY ScopesHere
  <1>2. n # 1
    BY <1>1 DEF Nested
  <1> DEFINE m == n - 1
             l == ip.scopes[n].start
  <1>3. m \in 1 .. Len(ip.scopes) /\ m + 1 = n
    BY <1>1, <1>2
  <1>4. \A i \in m + 1 .. Len(ip.scopes) : ip.scopes[i].kind # "try"
    BY <1>3
  <1>5. /\ l \in Nat /\ l <= ip.locals /\ \A i \in 1 .. m : Floor(ip.scopes[i]) <= l
        /\ ip' = [ip EXCEPT !.scopes = SubSeq(ip.scopes, 1, m), !.locals = l]
        /\ vm' = Popped(ip.locals - l)
    BY <1>1
  <1> HIDE DEF m, l
  <1>6. QED
    BY <1>3, <1>4, <1>5, JumpKeeps

\* To the head of the scope number n.
LEMMA HeadKeeps ==
  ASSUME IInv, Running, ip.temps = 0, NEW n \in 1 .. Len(ip.scopes),
         \A i \in n + 1 .. Len(ip.scopes) : ip.scopes[i].kind # "try",
         ip' = HeadOf(n), vm' = Popped(ip.locals - Floor(ip.scopes[n])), status' = status
  PROVE  IInv'
  <1> DEFINE l == Floor(ip.scopes[n])
  <1>1. /\ l \in Nat /\ l <= ip.locals /\ \A i \in 1 .. n : Floor(ip.scopes[i]) <= l
        /\ ip' = [ip EXCEPT !.scopes = SubSeq(ip.scopes, 1, n), !.locals = l]
        /\ vm' = Popped(ip.locals - l)
    BY ScopesHere DEF HeadOf
  <1> HIDE DEF l
  <1>2. QED
    BY <1>1, JumpKeeps

LEMMA CloseKeeps ==
  ASSUME IInv, Running, ip.temps = 0, Inner.kind \notin {"proc", "try"},
         Jump(Len(ip.scopes), Closed)
  PROVE  IInv'
  <1> DEFINE n == Len(ip.scopes)
  <1>1. /\ ip \in Places /\ ip.scopes \in Seq(Scopes) /\ n \in Nat /\ n >= 1
        /\ Inner = ip.scopes[n]
    BY ScopesHere
  <1>2. n \in 1 .. n /\ \A i \in n .. n : i = n
    BY <1>1
  <1>3. Front(ip.scopes) = SubSeq(ip.scopes, 1, n - 1)
    BY DEF Front
  <1>4. Closed.locals = Inner.start
    BY <1>1 DEF Closed, Places
  <1>5. /\ ip' = [ip EXCEPT !.scopes = SubSeq(ip.scopes, 1, n - 1), !.locals = ip.scopes[n].start]
        /\ vm' = Popped(ip.locals - ip.scopes[n].start) /\ status' = status
    BY <1>1, <1>3, <1>4 DEF Jump, Closed
  <1>6. ip.scopes[n].kind # "proc" /\ \A i \in n .. n : ip.scopes[i].kind # "try"
    BY <1>1, <1>2
  <1>7. QED
    BY <1>2, <1>5, <1>6, AfterKeeps

LEMMA LeaveBlockKeeps ==
  ASSUME IInv, LeaveBlock
  PROVE  IInv'
  BY CloseKeeps DEF LeaveBlock, Statement

LEMMA LoopExitKeeps ==
  ASSUME IInv, LoopExit
  PROVE  IInv'
  BY CloseKeeps DEF LoopExit, Statement

LEMMA EndCatchKeeps ==
  ASSUME IInv, EndCatch
  PROVE  IInv'
  BY CloseKeeps DEF EndCatch, Statement

LEMMA HeadLocals ==
  ASSUME IInv, Running, NEW n \in 1 .. Len(ip.scopes)
  PROVE  /\ HeadOf(n).locals = Floor(ip.scopes[n])
         /\ After(n).locals = ip.scopes[n].start
  BY ScopesHere DEF HeadOf, After, Places

LEMMA LoopAgainKeeps ==
  ASSUME IInv, LoopAgain
  PROVE  IInv'
  <1> DEFINE n == Len(ip.scopes)
  <1>1. /\ Running /\ ip.temps = 0 /\ status' = status
        /\ vm' = Popped(ip.locals - HeadOf(n).locals) /\ ip' = HeadOf(n)
    BY DEF LoopAgain, Statement, Jump
  <1>2. n \in Nat /\ n >= 1
    BY <1>1, ScopesHere
  <1>3. n \in 1 .. n /\ \A i \in n + 1 .. n : ip.scopes[i].kind # "try"
    BY <1>2
  <1>4. HeadOf(n).locals = Floor(ip.scopes[n])
    BY <1>1, <1>3, HeadLocals
  <1>5. QED
    BY <1>1, <1>3, <1>4, HeadKeeps

LEMMA BreakKeeps ==
  ASSUME Orderly, IInv, Break
  PROVE  IInv'
  <1>1. PICK n \in DOMAIN ip.scopes : InnermostLoop(n) /\ Jump(n, After(n))
    BY DEF Break
  <1>2. Running /\ ip.temps = 0
    BY DEF Break, Statement
  <1>3. n \in 1 .. Len(ip.scopes) /\ Len(ip.scopes) \in Nat
    BY <1>1, <1>2, ScopesHere
  <1>4. ip.scopes[n].kind = "loop" /\ After(n).locals = ip.scopes[n].start
    BY <1>1, <1>2, <1>3, HeadLocals DEF InnermostLoop
  <1>5. \A i \in n + 1 .. Len(ip.scopes) : ip.scopes[i].kind # "try"
    BY <1>1 DEF Jump, MayLeave, LeavesTry, Orderly
  <1>6. \A i \in n .. Len(ip.scopes) : i = n \/ i \in n + 1 .. Len(ip.scopes)
    BY <1>3
  <1>7. /\ ip' = [ip EXCEPT !.scopes = SubSeq(ip.scopes, 1, n - 1), !.locals = ip.scopes[n].start]
        /\ vm' = Popped(ip.locals - ip.scopes[n].start) /\ status' = status
    BY <1>1, <1>4 DEF Jump, After
  <1>8. ip.scopes[n].kind # "proc" /\ \A i \in n .. Len(ip.scopes) : ip.scopes[i].kind # "try"
    BY <1>4, <1>5, <1>6
  <1>9. QED
    BY <1>2, <1>3, <1>7, <1>8, AfterKeeps

LEMMA ContinueKeeps ==
  ASSUME Orderly, IInv, Continue
  PROVE  IInv'
  <1>1. PICK n \in DOMAIN ip.scopes : InnermostLoop(n) /\ Jump(n, HeadOf(n))
    BY DEF Continue
  <1>2. Running /\ ip.temps = 0
    BY DEF Continue, Statement
  <1>3. n \in 1 .. Len(ip.scopes)
    BY <1>1, <1>2, ScopesHere
  <1>4. HeadOf(n).locals = Floor(ip.scopes[n])
    BY <1>2, <1>3, HeadLocals
  <1>5. \A i \in n + 1 .. Len(ip.scopes) : ip.scopes[i].kind # "try"
    BY <1>1 DEF Jump, MayLeave, LeavesTry, Orderly
  <1>6. QED
    BY <1>1, <1>2, <1>3, <1>4, <1>5, HeadKeeps DEF Jump

-----------------------------------------------------------------------------
(* Handlers.                                                                 *)

\* A handler installed on entering a try block.
LEMMA InstallKeeps ==
  ASSUME NEW v, NEW p, Inv(v, p), Tile(v, p), p.temps = 0,
         NEW q \in Places, q.scopes = Append(p.scopes, Scope("try", p.locals, 1)),
         q.locals = p.locals + 1, q.temps = 0,
         NEW c \in Places, c.scopes = Append(p.scopes, Scope("catch", p.locals, 1)),
         c.locals = p.locals + 1, c.temps = 0,
         NEW h \in Handlers, h.catch_ip = c, h.frame_count = Len(v.frames),
         h.frame_base = v.frame_base, h.local_count = p.locals + 1, h.stack_top = v.stack_top + 1,
         v.stack_top + 1 <= v.stack + v.capacity,
         NEW w \in VMs, w.stack = v.stack, w.capacity = v.capacity, w.stack_top = v.stack_top + 1,
         w.frame_base = v.frame_base, w.frames = v.frames,
         w.try_frames = Append(v.try_frames, h)
  PROVE  Inv(w, q) /\ Tile(w, q)
  <1> DEFINE m == Len(v.try_frames)
             d == Len(v.frames) + 1
             n == Len(p.scopes)
  <1>1. /\ v \in VMs /\ p \in Places /\ Nested(p) /\ Bounded(v) /\ CallersNested(v)
        /\ v.frames \in Seq(Frames) /\ Len(v.frames) \in Nat /\ DOMAIN v.frames = 1 .. Len(v.frames)
        /\ v.try_frames \in Seq(Handlers) /\ m \in Nat /\ DOMAIN v.try_frames = 1 .. m
    BY ActivationsAreTyped DEF Inv
  <1>2. /\ v.stack \in Int /\ v.capacity \in Int /\ v.frame_base \in Int /\ v.stack_top \in Int
        /\ p.locals \in Nat /\ p.temps \in Nat /\ p.scopes \in Seq(Scopes) /\ n \in Nat
        /\ DOMAIN p.scopes = 1 .. n
    BY <1>1, VMsAreTyped, PlacesAreTyped
  <1>3. /\ DOMAIN w.try_frames = 1 .. m + 1 /\ w.try_frames[m + 1] = h
        /\ \A j \in 1 .. m : w.try_frames[j] = v.try_frames[j]
    BY <1>1, AppendFacts
  <1>4. v.stack_top = v.frame_base + p.locals
    BY <1>2 DEF Tile
  <1>5. Floor(Last(p.scopes)) <= p.locals
    <2>1. n \in DOMAIN p.scopes /\ Last(p.scopes) = p.scopes[n]
      BY <1>1, <1>2, FrontFacts DEF Nested
    <2>2. QED
      BY <2>1, <1>1 DEF Nested
  <1>6. /\ Nested(q) /\ DOMAIN q.scopes = 1 .. n + 1
        /\ \A i \in 1 .. n : q.scopes[i] = p.scopes[i]
        /\ q.scopes[n + 1] = Scope("try", p.locals, 1)
    <2> DEFINE try == "try"
               one == 1
               l == p.locals
    <2>1. try \in Kinds \ {"proc"} /\ one \in Nat /\ (try = "try" => one = 1)
      BY DEF Kinds
    <2>2. l \in Nat /\ Floor(Last(p.scopes)) <= l
      BY <1>2, <1>5
    <2>3. q.scopes = Append(p.scopes, Scope(try, l, one)) /\ q.locals = l + one
      OBVIOUS
    <2> HIDE DEF try, one, l
    <2>4. /\ Nested(q) /\ DOMAIN q.scopes = 1 .. n + 1
          /\ \A i \in 1 .. n : q.scopes[i] = p.scopes[i]
          /\ q.scopes[n + 1] = Scope(try, l, one)
      BY <2>1, <2>2, <2>3, <1>1, OpenedNests
    <2>5. QED
      BY <2>4 DEF try, one, l
  <1>7. /\ Len(c.scopes) = n + 1
        /\ \A i \in 1 .. n : c.scopes[i] = p.scopes[i]
        /\ c.scopes[n + 1] = Scope("catch", p.locals, 1)
    <2>1. Scope("catch", p.locals, 1) \in Scopes
      BY <1>2 DEF Scope, Scopes, Kinds
    <2>2. QED
      BY <2>1, <1>2, AppendFacts
  <1>8. q.scopes[n + 1].start = p.locals /\ q.scopes[n + 1].kind = "try"
    BY <1>6 DEF Scope
  <1>9. Act(h) = d /\ Num(h) = n + 1
    BY <1>7 DEF Act, Num
  <1> HIDE DEF m, n, d
  <1>10. /\ \A k : k # d => PlaceIn(w, q, k) = PlaceIn(v, p, k)
         /\ PlaceIn(w, q, d) = q /\ PlaceIn(v, p, d) = p
         /\ \A k : BaseIn(w, k) = BaseIn(v, k)
         /\ BaseIn(v, d) = v.frame_base
         /\ d \in 1 .. Len(v.frames) + 1
    BY <1>1 DEF PlaceIn, BaseIn, d
  <1>11. ASSUME NEW k, NEW i
         PROVE  OpenTry(w, q, k, i) <=> OpenTry(v, p, k, i) \/ (k = d /\ i = n + 1)
    <2>1. CASE k # d
      BY <2>1, <1>10 DEF OpenTry
    <2>2. CASE k = d
      <3>1. OpenTry(w, q, k, i) <=> i \in 1 .. n + 1 /\ q.scopes[i].kind = "try"
        BY <2>2, <1>6, <1>10 DEF OpenTry
      <3>2. OpenTry(v, p, k, i) <=> i \in 1 .. n /\ p.scopes[i].kind = "try"
        BY <2>2, <1>2, <1>10 DEF OpenTry, n
      <3>3. i \in 1 .. n + 1 <=> i \in 1 .. n \/ i = n + 1
        BY <1>2
      <3>4. i \in 1 .. n => q.scopes[i].kind = p.scopes[i].kind
        BY <1>6
      <3>5. QED
        BY <2>2, <3>1, <3>2, <3>3, <3>4, <1>8
    <2>3. QED
      BY <2>1, <2>2
  <1>12. ASSUME NEW j \in 1 .. m
         PROVE  /\ OpenTry(v, p, Act(v.try_frames[j]), Num(v.try_frames[j]))
                /\ Leads(v.try_frames[j], PlaceIn(v, p, Act(v.try_frames[j])),
                         BaseIn(v, Act(v.try_frames[j])), Num(v.try_frames[j]))
                /\ Act(v.try_frames[j]) \in 1 .. d
                /\ Act(v.try_frames[j]) = d => Num(v.try_frames[j]) \in 1 .. n
    <2>1. /\ OpenTry(v, p, Act(v.try_frames[j]), Num(v.try_frames[j]))
          /\ Leads(v.try_frames[j], PlaceIn(v, p, Act(v.try_frames[j])),
                   BaseIn(v, Act(v.try_frames[j])), Num(v.try_frames[j]))
      BY <1>1 DEF Inv, HandlersLead
    <2>2. QED
      BY <2>1, <1>2, <1>10 DEF OpenTry, d
  <1>13. HandlersLead(w, q)
    <2> SUFFICES ASSUME NEW j \in 1 .. m + 1
                 PROVE  /\ OpenTry(w, q, Act(w.try_frames[j]), Num(w.try_frames[j]))
                        /\ Leads(w.try_frames[j], PlaceIn(w, q, Act(w.try_frames[j])),
                                 BaseIn(w, Act(w.try_frames[j])), Num(w.try_frames[j]))
      BY <1>3 DEF HandlersLead
    <2>1. CASE j = m + 1
      <3>1. OpenTry(w, q, d, n + 1)
        BY <1>11
      <3>2. \A i \in 1 .. (n + 1) - 1 : c.scopes[i] = q.scopes[i]
        BY <1>2, <1>6, <1>7
      <3>3. h.stack_top = v.frame_base + p.locals + 1
        BY <1>2, <1>4
      <3>4. Leads(h, q, v.frame_base, n + 1)
        BY <3>2, <3>3, <1>7, <1>8 DEF Leads
      <3>5. QED
        BY <2>1, <3>1, <3>4, <1>3, <1>9, <1>10
    <2>2. CASE j # m + 1
      <3> DEFINE kj == Act(v.try_frames[j])
                 nj == Num(v.try_frames[j])
      <3>1. j \in 1 .. m /\ w.try_frames[j] = v.try_frames[j]
        BY <2>2, <1>1, <1>3 DEF m
      <3>2. OpenTry(v, p, kj, nj) /\ Leads(v.try_frames[j], PlaceIn(v, p, kj), BaseIn(v, kj), nj)
            /\ (kj = d => nj \in 1 .. n)
        BY <3>1, <1>12
      <3>3. OpenTry(w, q, kj, nj)
        BY <3>2, <1>11
      <3>4. CASE kj # d
        BY <3>1, <3>2, <3>3, <3>4, <1>10
      <3>5. CASE kj = d
        <4>1. \A i \in 1 .. nj : i \in 1 .. n /\ q.scopes[i] = p.scopes[i]
          BY <3>2, <3>5, <1>2, <1>6
        <4>2. nj \in 1 .. nj /\ \A i \in 1 .. nj - 1 : i \in 1 .. nj
          BY <3>2, <3>5, <1>2
        <4>3. Leads(v.try_frames[j], p, BaseIn(v, kj), nj)
          BY <3>2, <3>5, <1>10
        <4>4. Leads(v.try_frames[j], q, BaseIn(v, kj), nj)
          BY <4>1, <4>2, <4>3 DEF Leads
        <4>5. QED
          BY <3>1, <3>3, <3>5, <4>4, <1>10
      <3>6. QED
        BY <3>4, <3>5
    <2>3. QED
      BY <2>1, <2>2
  <1>14. HandlersOrdered(w)
    <2>1. HandlersOrdered(v)
      BY DEF Inv
    <2> SUFFICES ASSUME NEW i \in 1 .. m + 1, NEW j \in 1 .. m + 1, i < j
                 PROVE  \/ Act(w.try_frames[i]) < Act(w.try_frames[j])
                        \/ /\ Act(w.try_frames[i]) = Act(w.try_frames[j])
                           /\ Num(w.try_frames[i]) < Num(w.try_frames[j])
      BY <1>3 DEF HandlersOrdered
    <2>2. i \in 1 .. m /\ (j = m + 1 \/ j \in 1 .. m)
      BY <1>1 DEF m
    <2>3. w.try_frames[i] = v.try_frames[i]
      BY <2>2, <1>3
    <2>4. CASE j = m + 1
      <3>1. Act(v.try_frames[i]) \in 1 .. d /\ (Act(v.try_frames[i]) = d => Num(v.try_frames[i]) \in 1 .. n)
        BY <2>2, <1>12
      <3>2. Act(v.try_frames[i]) < d \/ (Act(v.try_frames[i]) = d /\ Num(v.try_frames[i]) < n + 1)
        BY <3>1, <1>1, <1>2 DEF d
      <3>3. QED
        BY <2>3, <2>4, <3>2, <1>3, <1>9
    <2>5. CASE j \in 1 .. m
      BY <2>1, <2>2, <2>3, <2>5, <1>1, <1>3 DEF HandlersOrdered
    <2>6. QED
      BY <2>2, <2>4, <2>5
  <1>15. TriesHandled(w, q)
    <2> SUFFICES ASSUME NEW k \in Nat, NEW i \in Nat, OpenTry(w, q, k, i)
                 PROVE  \E j \in 1 .. m + 1 : Act(w.try_frames[j]) = k /\ Num(w.try_frames[j]) = i
      BY <1>3 DEF TriesHandled
    <2>1. m + 1 \in 1 .. m + 1 /\ \A j \in 1 .. m : j \in 1 .. m + 1
      BY <1>1 DEF m
    <2>2. CASE k = d /\ i = n + 1
      BY <2>1, <2>2, <1>3, <1>9
    <2>3. CASE OpenTry(v, p, k, i)
      <3>1. PICK j \in 1 .. m : Act(v.try_frames[j]) = k /\ Num(v.try_frames[j]) = i
        BY <2>3, <1>1 DEF Inv, TriesHandled
      <3>2. QED
        BY <3>1, <2>1, <1>3
    <2>4. QED
      BY <2>2, <2>3, <1>11
  <1>16. Bounded(w)
    <2>1. /\ v.stack <= v.frame_base /\ v.frame_base <= v.stack_top
          /\ v.stack_top <= v.stack + v.capacity
      BY <1>1 DEF Bounded
    <2>2. /\ w.stack <= w.frame_base /\ w.frame_base <= w.stack_top
          /\ w.stack_top <= w.stack + w.capacity
          /\ w.stack <= h.frame_base /\ h.frame_base <= h.stack_top
          /\ h.stack_top <= w.stack + w.capacity
      BY <2>1, <1>2
    <2>3. ASSUME NEW j \in 1 .. m + 1
          PROVE  /\ w.stack <= w.try_frames[j].frame_base
                 /\ w.try_frames[j].frame_base <= w.try_frames[j].stack_top
                 /\ w.try_frames[j].stack_top <= w.stack + w.capacity
      <3>1. j = m + 1 \/ j \in 1 .. m
        BY <1>1 DEF m
      <3>2. CASE j = m + 1
        BY <3>2, <2>2, <1>3
      <3>3. CASE j \in 1 .. m
        <4>1. w.try_frames[j] = v.try_frames[j] /\ j \in DOMAIN v.try_frames
          BY <3>3, <1>1, <1>3 DEF m
        <4>2. QED
          BY <4>1, <1>1 DEF Bounded
      <3>4. QED
        BY <3>1, <3>2, <3>3
    <2>4. \A i \in DOMAIN w.frames :
            /\ w.stack <= w.frames[i].frame_base /\ w.frames[i].frame_base <= w.frame_base
            /\ \A j \in DOMAIN w.frames : i < j => w.frames[i].frame_base <= w.frames[j].frame_base
      BY <1>1 DEF Bounded
    <2>5. QED
      BY <2>2, <2>3, <2>4, <1>3 DEF Bounded
  <1>17. CallersNested(w)
    BY <1>1 DEF CallersNested
  <1>18. Tile(w, q)
    <2>1. w.stack_top = w.frame_base + q.locals + q.temps
      BY <1>2, <1>4
    <2>2. QED
      BY <2>1, <1>10 DEF Tile
  <1>19. QED
    BY <1>6, <1>13, <1>14, <1>15, <1>16, <1>17, <1>18 DEF Inv

LEMMA EnterTryKeeps ==
  ASSUME IInv, EnterTry
  PROVE  IInv'
  <1>1. Running /\ ip.temps = 0
    BY DEF EnterTry, Statement
  <1>2. CASE Len(vm.try_frames) >= TryMax \/ Push(vm) = {}
    BY <1>1, <1>2, ThrowKeeps DEF EnterTry
  <1>3. CASE ~(Len(vm.try_frames) >= TryMax \/ Push(vm) = {})
    <2> DEFINE q == Opened(Scope("try", ip.locals, 1))
               c == Opened(Scope("catch", ip.locals, 1))
    <2>1. PICK v \in Push(vm) :
            /\ vm' = [v EXCEPT !.try_frames = Append(@,
                         [catch_ip    |-> c,
                          frame_count |-> Len(v.frames),
                          frame_base  |-> v.frame_base,
                          local_count |-> ip.locals + 1,
                          stack_top   |-> v.stack_top])]
            /\ ip' = q
            /\ status' = status
      BY <1>3 DEF EnterTry
    <2>2. /\ status = "run" /\ Inv(vm, ip) /\ Tile(vm, ip) /\ ip \in Places /\ Nested(ip)
          /\ ip.locals \in Nat /\ ip.temps \in Nat
      BY <1>1, WhileRunning
    <2>3. PICK u \in VMs :
            /\ Inv(u, ip) /\ Tile(u, ip)
            /\ v = [u EXCEPT !.stack_top = u.stack_top + 1]
            /\ u.stack_top + 1 <= u.stack + u.capacity
      BY <2>2, PushKeeps
    <2>4. /\ u.stack_top \in Int /\ u.frame_base \in Int /\ u.frames \in Seq(Frames)
          /\ u.try_frames \in Seq(Handlers) /\ u.stack_top + 1 \in Int /\ Len(u.frames) \in Nat
          /\ ip.locals + 1 \in Nat
      BY <2>2, <2>3, VMsAreTyped
    <2>5. /\ v \in VMs /\ v.stack = u.stack /\ v.capacity = u.capacity
          /\ v.stack_top = u.stack_top + 1 /\ v.frame_base = u.frame_base
          /\ v.frames = u.frames /\ v.try_frames = u.try_frames
      BY <2>3, <2>4 DEF VMs
    <2>6. /\ q \in Places /\ q.scopes = Append(ip.scopes, Scope("try", ip.locals, 1))
          /\ q.locals = ip.locals + 1 /\ q.temps = 0
          /\ c \in Places /\ c.scopes = Append(ip.scopes, Scope("catch", ip.locals, 1))
          /\ c.locals = ip.locals + 1 /\ c.temps = 0
      <3> DEFINE s == Scope("try", ip.locals, 1)
                 r == Scope("catch", ip.locals, 1)
      <3>1. s \in Scopes /\ r \in Scopes /\ Floor(s) = ip.locals + 1 /\ Floor(r) = ip.locals + 1
        BY <2>2 DEF Scope, Scopes, Kinds, Floor
      <3>2. Append(ip.scopes, s) \in Seq(Scopes) /\ Append(ip.scopes, r) \in Seq(Scopes)
        BY <2>2, <3>1, PlacesAreTyped, AppendFacts
      <3>3. q = [ip EXCEPT !.scopes = Append(ip.scopes, s), !.locals = ip.locals + 1]
            /\ c = [ip EXCEPT !.scopes = Append(ip.scopes, r), !.locals = ip.locals + 1]
        BY <3>1 DEF Opened
      <3> HIDE DEF s, r, q, c
      <3>4. /\ q \in Places /\ q.scopes = Append(ip.scopes, s)
            /\ q.locals = ip.locals + 1 /\ q.temps = ip.temps
        BY <2>2, <2>4, <3>2, <3>3 DEF Places
      <3>5. /\ c \in Places /\ c.scopes = Append(ip.scopes, r)
            /\ c.locals = ip.locals + 1 /\ c.temps = ip.temps
        BY <2>2, <2>4, <3>2, <3>3 DEF Places
      <3>6. QED
        BY <1>1, <3>4, <3>5 DEF s, r
    <2> DEFINE h == [catch_ip    |-> c,
                     frame_count |-> Len(v.frames),
                     frame_base  |-> v.frame_base,
                     local_count |-> ip.locals + 1,
                     stack_top   |-> v.stack_top]
               w == [v EXCEPT !.try_frames = Append(v.try_frames, h)]
    <2> HIDE DEF q, c
    <2>7. /\ h \in Handlers /\ h.catch_ip = c /\ h.frame_count = Len(u.frames)
          /\ h.frame_base = u.frame_base /\ h.local_count = ip.locals + 1
          /\ h.stack_top = u.stack_top + 1
      BY <2>4, <2>5, <2>6 DEF Handlers
    <2>8. vm' = w
      BY <2>1
    <2> HIDE DEF h
    <2>9. Append(v.try_frames, h) \in Seq(Handlers)
      BY <2>4, <2>5, <2>7, AppendFacts
    <2>10. /\ w \in VMs /\ w.stack = u.stack /\ w.capacity = u.capacity
           /\ w.stack_top = u.stack_top + 1 /\ w.frame_base = u.frame_base
           /\ w.frames = u.frames /\ w.try_frames = Append(u.try_frames, h)
      BY <2>5, <2>9 DEF VMs
    <2> HIDE DEF w
    <2>11. Inv(w, q) /\ Tile(w, q)
      BY <1>1, <2>3, <2>6, <2>7, <2>10, InstallKeeps
    <2>12. QED
      BY <2>1, <2>2, <2>8, <2>11, RunsOn
  <1>4. QED
    BY <1>2, <1>3

\* s is t without its last element.
Shorter(s, t) ==
    DOMAIN s = 1 .. Len(t) - 1 /\ \A i \in 1 .. Len(t) - 1 : s[i] = t[i]

LEMMA OneBefore ==
  ASSUME NEW n \in Nat, n >= 1, n # 1
  PROVE  1 \in 1 .. n - 1
  OBVIOUS

\* The newest handler dropped on leaving its try block.
LEMMA DropKeeps ==
  ASSUME NEW v, NEW p, Inv(v, p), Tile(v, p), p.temps = 0,
         p.scopes[Len(p.scopes)].kind = "try",
         NEW q \in Places, Shorter(q.scopes, p.scopes),
         q.locals = p.scopes[Len(p.scopes)].start, q.temps = 0,
         NEW w \in VMs, w.stack = v.stack, w.capacity = v.capacity,
         w.stack_top = v.stack_top - (p.locals - p.scopes[Len(p.scopes)].start),
         w.frame_base = v.frame_base, w.frames = v.frames,
         Shorter(w.try_frames, v.try_frames)
  PROVE  Inv(w, q) /\ Tile(w, q)
  <1> DEFINE m == Len(v.try_frames)
             d == Len(v.frames) + 1
             n == Len(p.scopes)
             start == p.scopes[n].start
  <1>1. /\ v \in VMs /\ p \in Places /\ Nested(p) /\ Bounded(v) /\ CallersNested(v)
        /\ v.frames \in Seq(Frames) /\ Len(v.frames) \in Nat /\ DOMAIN v.frames = 1 .. Len(v.frames)
        /\ v.try_frames \in Seq(Handlers) /\ m \in Nat /\ DOMAIN v.try_frames = 1 .. m
    BY ActivationsAreTyped DEF Inv
  <1>2. /\ v.stack \in Int /\ v.capacity \in Int /\ v.frame_base \in Int /\ v.stack_top \in Int
        /\ p.locals \in Nat /\ p.temps \in Nat /\ p.scopes \in Seq(Scopes) /\ n \in Nat
        /\ DOMAIN p.scopes = 1 .. n
        /\ \A i \in 1 .. n : p.scopes[i].start \in Nat /\ p.scopes[i].own \in Nat
    BY <1>1, VMsAreTyped, PlacesAreTyped
  <1>3. n >= 1 /\ n \in 1 .. n /\ n # 1
    <2>1. n >= 1 /\ n \in 1 .. n
      BY <1>1, <1>2, FrontFacts DEF Nested
    <2>2. QED
      BY <2>1, <1>1, <1>2 DEF Nested
  <1>4. start \in Nat /\ start <= p.locals
    <2>1. Floor(p.scopes[n]) <= p.locals /\ start \in Nat /\ p.scopes[n].own \in Nat
      BY <1>1, <1>2, <1>3 DEF Nested
    <2>2. QED
      BY <2>1, <1>2 DEF Floor
  <1>5. \A i \in 1 .. n - 1 : Floor(p.scopes[i]) <= start
    <2>1. \A i \in 1 .. n - 1 : i \in 1 .. n /\ i < n
      BY <1>2
    <2>2. QED
      BY <2>1, <1>1, <1>2, <1>3 DEF Nested
  <1>6. /\ DOMAIN q.scopes = 1 .. n - 1
        /\ \A i \in 1 .. n - 1 : q.scopes[i] = p.scopes[i] /\ i \in 1 .. n
    BY <1>2 DEF Shorter
  <1>7. Nested(q)
    <2>1. q.scopes # <<>> /\ q.scopes[1].kind = "proc"
      <3>1. n \in Nat /\ n >= 1 /\ n # 1
        BY <1>2, <1>3
      <3>2. 1 \in 1 .. n - 1
        BY <3>1, OneBefore
      <3>3. q.scopes[1] = p.scopes[1] /\ 1 \in DOMAIN q.scopes
        BY <3>2, <1>6
      <3>4. QED
        BY <3>3, <1>1 DEF Nested
    <2>2. ASSUME NEW i \in 1 .. n - 1
          PROVE  /\ Floor(q.scopes[i]) <= q.locals
                 /\ q.scopes[i].kind = "try" => q.scopes[i].own = 1
                 /\ q.scopes[i].kind = "proc" => i = 1
                 /\ \A j \in 1 .. n - 1 : i < j => Floor(q.scopes[i]) <= q.scopes[j].start
      <3>1. /\ p.scopes[i].kind = "try" => p.scopes[i].own = 1
            /\ p.scopes[i].kind = "proc" => i = 1
            /\ \A j \in 1 .. n : i < j => Floor(p.scopes[i]) <= p.scopes[j].start
        BY <1>1, <1>2, <1>6 DEF Nested
      <3>2. Floor(p.scopes[i]) <= q.locals
        BY <1>5
      <3>3. q.scopes[i] = p.scopes[i] /\ \A j \in 1 .. n - 1 : q.scopes[j] = p.scopes[j] /\ j \in 1 .. n
        BY <1>6
      <3>4. QED
        BY <3>1, <3>2, <3>3
    <2>3. QED
      BY <2>1, <2>2, <1>6 DEF Nested
  <1>8. d \in Nat /\ d \in 1 .. Len(v.frames) + 1
    BY <1>1
  <1> HIDE DEF m, n, d, start
  <1>9. /\ \A k : k # d => PlaceIn(w, q, k) = PlaceIn(v, p, k)
        /\ PlaceIn(w, q, d) = q /\ PlaceIn(v, p, d) = p
        /\ \A k : BaseIn(w, k) = BaseIn(v, k)
        /\ BaseIn(v, d) = v.frame_base
    BY DEF PlaceIn, BaseIn, d
  \* The newest handler is that of the innermost scope.
  <1>10. PICK j0 \in 1 .. m : Act(v.try_frames[j0]) = d /\ Num(v.try_frames[j0]) = n
    <2>1. OpenTry(v, p, d, n)
      BY <1>2, <1>3, <1>8, <1>9 DEF OpenTry, n
    <2>2. TriesHandled(v, p)
      BY DEF Inv
    <2>3. n \in Nat
      BY <1>2
    <2>4. QED
      BY <2>1, <2>2, <2>3, <1>1, <1>8 DEF TriesHandled
  <1>11. ASSUME NEW j \in 1 .. m
         PROVE  /\ OpenTry(v, p, Act(v.try_frames[j]), Num(v.try_frames[j]))
                /\ Leads(v.try_frames[j], PlaceIn(v, p, Act(v.try_frames[j])),
                         BaseIn(v, Act(v.try_frames[j])), Num(v.try_frames[j]))
                /\ Act(v.try_frames[j]) \in 1 .. d
                /\ Act(v.try_frames[j]) = d => Num(v.try_frames[j]) \in 1 .. n
    <2>1. /\ OpenTry(v, p, Act(v.try_frames[j]), Num(v.try_frames[j]))
          /\ Leads(v.try_frames[j], PlaceIn(v, p, Act(v.try_frames[j])),
                   BaseIn(v, Act(v.try_frames[j])), Num(v.try_frames[j]))
      BY <1>1 DEF Inv, HandlersLead
    <2>2. QED
      BY <2>1, <1>2, <1>9 DEF OpenTry, d
  <1>12. m \in Nat
    BY <1>1 DEF m
  <1>13. HandlersOrdered(v)
    BY DEF Inv
  <1>14. m \in 1 .. m /\ j0 = m
    <2>1. m \in 1 .. m
      BY <1>10, <1>12
    <2>2. ASSUME j0 # m PROVE FALSE
      <3>1. j0 < m
        BY <2>2, <1>12
      <3>2. d < Act(v.try_frames[m]) \/ (d = Act(v.try_frames[m]) /\ n < Num(v.try_frames[m]))
        BY <3>1, <2>1, <1>1, <1>10, <1>13 DEF HandlersOrdered
      <3>3. QED
        BY <3>2, <2>1, <1>2, <1>8, <1>11
    <2>3. QED
      BY <2>1, <2>2
  <1>16. /\ DOMAIN w.try_frames = 1 .. m - 1
         /\ \A j \in 1 .. m - 1 : w.try_frames[j] = v.try_frames[j] /\ j \in 1 .. m /\ j < m
    <2>1. /\ DOMAIN w.try_frames = 1 .. m - 1
          /\ \A j \in 1 .. m - 1 : w.try_frames[j] = v.try_frames[j]
      BY DEF m, Shorter
    <2>2. QED
      BY <2>1, <1>12
  <1>17. ASSUME NEW k, NEW i
         PROVE  OpenTry(w, q, k, i) <=> OpenTry(v, p, k, i) /\ ~(k = d /\ i = n)
    <2>1. CASE k # d
      BY <2>1, <1>9 DEF OpenTry
    <2>2. CASE k = d
      <3>1. OpenTry(w, q, k, i) <=> i \in 1 .. n - 1 /\ q.scopes[i].kind = "try"
        BY <2>2, <1>6, <1>8, <1>9 DEF OpenTry
      <3>2. OpenTry(v, p, k, i) <=> i \in 1 .. n /\ p.scopes[i].kind = "try"
        BY <2>2, <1>2, <1>8, <1>9 DEF OpenTry
      <3>3. i \in 1 .. n - 1 <=> i \in 1 .. n /\ i # n
        BY <1>2
      <3>4. i \in 1 .. n - 1 => q.scopes[i].kind = p.scopes[i].kind
        BY <1>6
      <3>5. QED
        BY <2>2, <3>1, <3>2, <3>3, <3>4
    <2>3. QED
      BY <2>1, <2>2
  <1>18. ASSUME NEW j \in 1 .. m - 1
         PROVE  Act(v.try_frames[j]) = d => Num(v.try_frames[j]) \in 1 .. n - 1
    <2>1. j \in 1 .. m /\ j < m
      BY <1>16
    <2>2. Act(v.try_frames[j]) < d \/ (Act(v.try_frames[j]) = d /\ Num(v.try_frames[j]) < n)
      BY <2>1, <1>1, <1>10, <1>13, <1>14 DEF HandlersOrdered, m
    <2>3. QED
      BY <2>1, <2>2, <1>2, <1>8, <1>11
  <1>19. HandlersLead(w, q)
    <2> SUFFICES ASSUME NEW j \in 1 .. m - 1
                 PROVE  /\ OpenTry(w, q, Act(v.try_frames[j]), Num(v.try_frames[j]))
                        /\ Leads(v.try_frames[j], PlaceIn(w, q, Act(v.try_frames[j])),
                                 BaseIn(w, Act(v.try_frames[j])), Num(v.try_frames[j]))
      BY <1>16 DEF HandlersLead
    <2> DEFINE kj == Act(v.try_frames[j])
               nj == Num(v.try_frames[j])
    <2>1. OpenTry(v, p, kj, nj) /\ Leads(v.try_frames[j], PlaceIn(v, p, kj), BaseIn(v, kj), nj)
          /\ (kj = d => nj \in 1 .. n - 1)
      BY <1>11, <1>16, <1>18
    <2>2. kj = d => nj # n
      BY <2>1, <1>2
    <2>3. OpenTry(w, q, kj, nj)
      BY <2>1, <2>2, <1>17
    <2>4. CASE kj # d
      BY <2>1, <2>3, <2>4, <1>9
    <2>5. CASE kj = d
      <3>1. \A i \in 1 .. nj : i \in 1 .. n - 1 /\ q.scopes[i] = p.scopes[i]
        BY <2>1, <2>5, <1>2, <1>6
      <3>2. nj \in 1 .. nj /\ \A i \in 1 .. nj - 1 : i \in 1 .. nj
        BY <2>1, <2>5, <1>2
      <3>3. Leads(v.try_frames[j], p, BaseIn(v, kj), nj)
        BY <2>1, <2>5, <1>9
      <3>4. Leads(v.try_frames[j], q, BaseIn(v, kj), nj)
        BY <3>1, <3>2, <3>3 DEF Leads
      <3>5. QED
        BY <2>3, <2>5, <3>4, <1>9
    <2>6. QED
      BY <2>4, <2>5
  <1>20. HandlersOrdered(w)
    BY <1>1, <1>13, <1>16 DEF HandlersOrdered, m
  <1>21. TriesHandled(w, q)
    <2> SUFFICES ASSUME NEW k \in Nat, NEW i \in Nat, OpenTry(w, q, k, i)
                 PROVE  \E j \in DOMAIN w.try_frames : Act(w.try_frames[j]) = k /\ Num(w.try_frames[j]) = i
      BY DEF TriesHandled
    <2>1. OpenTry(v, p, k, i) /\ ~(k = d /\ i = n)
      BY <1>17
    <2>2. PICK j \in 1 .. m : Act(v.try_frames[j]) = k /\ Num(v.try_frames[j]) = i
      BY <2>1, <1>1 DEF Inv, TriesHandled, m
    <2>3. j # m
      BY <2>1, <2>2, <1>10, <1>14
    <2>4. j \in 1 .. m - 1
      BY <2>2, <2>3, <1>12
    <2>5. QED
      BY <2>2, <2>4, <1>16
  <1>22. w.stack_top = w.frame_base + q.locals + q.temps /\ v.frame_base <= w.stack_top
         /\ w.stack_top <= v.stack_top
    <2>1. v.stack_top = v.frame_base + p.locals
      BY <1>2 DEF Tile
    <2>2. w.stack_top = v.stack_top - (p.locals - start) /\ q.locals = start
      BY DEF start, n
    <2>3. v.frame_base \in Int /\ p.locals \in Nat /\ start \in Nat /\ start <= p.locals
      BY <1>2, <1>4
    <2>4. /\ w.stack_top = v.frame_base + start /\ v.frame_base <= v.frame_base + start
          /\ v.frame_base + start <= v.stack_top /\ v.frame_base + start + 0 = v.frame_base + start
      BY <2>1, <2>2, <2>3
    <2>5. QED
      BY <2>2, <2>4
  <1>23. Bounded(w)
    <2>1. /\ v.stack <= v.frame_base /\ v.stack_top <= v.stack + v.capacity
      BY <1>1 DEF Bounded
    <2>2. w.stack_top \in Int
      BY <1>2, <1>4 DEF start, n
    <2>3. /\ w.stack <= w.frame_base /\ w.frame_base <= w.stack_top
          /\ w.stack_top <= w.stack + w.capacity
      BY <2>1, <2>2, <1>2, <1>22
    <2>4. \A j \in 1 .. m - 1 :
            /\ w.stack <= w.try_frames[j].frame_base
            /\ w.try_frames[j].frame_base <= w.try_frames[j].stack_top
            /\ w.try_frames[j].stack_top <= w.stack + w.capacity
      BY <1>1, <1>16 DEF Bounded, m
    <2>5. QED
      BY <2>3, <2>4, <1>1, <1>16 DEF Bounded
  <1>24. CallersNested(w)
    BY <1>1 DEF CallersNested
  <1>25. Tile(w, q)
    BY <1>9, <1>22 DEF Tile
  <1>26. QED
    BY <1>7, <1>19, <1>20, <1>21, <1>23, <1>24, <1>25 DEF Inv

LEMMA EndTryKeeps ==
  ASSUME IInv, EndTry
  PROVE  IInv'
  <1>1. Running /\ ip.temps = 0 /\ Inner.kind = "try"
    BY DEF EndTry, Statement
  <1>2. CASE vm.try_frames = <<>>
    BY <1>1, <1>2, ThrowKeeps DEF EndTry
  <1>3. CASE vm.try_frames # <<>>
    <2> DEFINE n == Len(ip.scopes)
               t == vm.stack_top - (ip.locals - Inner.start)
               q == [ip EXCEPT !.scopes = Front(ip.scopes), !.locals = Inner.start]
               v == [vm EXCEPT !.stack_top = t]
               w == [v EXCEPT !.try_frames = Front(v.try_frames)]
    <2>1. vm' = w /\ ip' = q /\ status' = status
      BY <1>3 DEF EndTry, Popped, Closed
    <2>2. /\ status = "run" /\ Inv(vm, ip) /\ Tile(vm, ip) /\ vm \in VMs
          /\ vm.stack_top \in Int /\ vm.frame_base \in Int /\ ip.locals \in Nat
          /\ vm.try_frames \in Seq(Handlers)
      BY <1>1, WhileRunning, VMsAreTyped
    <2>3. /\ ip \in Places /\ ip.scopes \in Seq(Scopes) /\ ip.scopes # <<>> /\ n \in Nat
          /\ Inner = ip.scopes[n] /\ Inner.start \in Nat
      <3>1. /\ ip \in Places /\ ip.scopes \in Seq(Scopes) /\ Nested(ip) /\ n \in Nat /\ n >= 1
            /\ Inner = ip.scopes[n]
        BY <1>1, ScopesHere
      <3>2. n \in 1 .. n
        BY <3>1
      <3>3. Inner.start \in Nat
        BY <1>1, <3>1, <3>2, ScopesHere
      <3>4. QED
        BY <3>1, <3>3 DEF Nested
    <2>4. t \in Int
      BY <2>2, <2>3
    <2> HIDE DEF t
    <2>5. /\ v \in VMs /\ v.stack = vm.stack /\ v.capacity = vm.capacity /\ v.stack_top = t
          /\ v.frame_base = vm.frame_base /\ v.frames = vm.frames /\ v.try_frames = vm.try_frames
      BY <2>2, <2>4 DEF VMs
    <2>6. /\ Front(vm.try_frames) \in Seq(Handlers)
          /\ Shorter(Front(vm.try_frames), vm.try_frames)
      BY <1>3, <2>2, FrontFacts DEF Shorter
    <2>7. Front(ip.scopes) \in Seq(Scopes) /\ Shorter(Front(ip.scopes), ip.scopes)
      BY <2>3, FrontFacts DEF Shorter
    <2> HIDE DEF v
    <2>8. /\ w \in VMs /\ w.stack = vm.stack /\ w.capacity = vm.capacity /\ w.stack_top = t
          /\ w.frame_base = vm.frame_base /\ w.frames = vm.frames
          /\ w.try_frames = Front(vm.try_frames)
      BY <2>5, <2>6 DEF VMs
    <2>9. /\ q \in Places /\ q.scopes = Front(ip.scopes) /\ q.locals = ip.scopes[n].start
          /\ q.temps = 0
      BY <1>1, <2>3, <2>7 DEF Places
    <2> HIDE DEF w, q
    <2>10. w.stack_top = vm.stack_top - (ip.locals - ip.scopes[n].start)
      BY <2>3, <2>8 DEF t
    <2>11. ip.scopes[Len(ip.scopes)].kind = "try"
      BY <1>1, <2>3
    <2>12. Inv(w, q) /\ Tile(w, q)
      BY <1>1, <2>2, <2>6, <2>7, <2>8, <2>9, <2>10, <2>11, DropKeeps
    <2>13. QED
      BY <2>1, <2>2, <2>12, RunsOn
  <1>4. QED
    BY <1>2, <1>3

-----------------------------------------------------------------------------
(* Calls.                                                                    *)

LEMMA EntryNests ==
  ASSUME NEW a \in Nat
  PROVE  /\ Entry(a) \in Places /\ Nested(Entry(a))
         /\ Entry(a).locals = a /\ Entry(a).temps = 0
         /\ DOMAIN Entry(a).scopes = {1} /\ Entry(a).scopes[1].kind = "proc"
  <1> DEFINE s == Scope("proc", 0, a)
  <1>1. s \in Scopes /\ s.kind = "proc" /\ s.start = 0 /\ s.own = a
    BY DEF Scope, Scopes, Kinds
  <1>2. Floor(s) = a
    BY <1>1 DEF Floor
  <1> HIDE DEF s
  <1>3. <<s>> \in Seq(Scopes) /\ DOMAIN <<s>> = {1} /\ <<s>>[1] = s /\ <<s>> # <<>>
    BY <1>1
  <1>4. Entry(a) = [scopes |-> <<s>>, locals |-> a, temps |-> 0]
    BY DEF Entry, s
  <1>5. Entry(a) \in Places /\ Entry(a).scopes = <<s>> /\ Entry(a).locals = a /\ Entry(a).temps = 0
    BY <1>3, <1>4 DEF Places
  <1>6. Nested(Entry(a))
    BY <1>1, <1>2, <1>3, <1>5 DEF Nested
  <1>7. QED
    BY <1>1, <1>3, <1>5, <1>6

\* A new activation, whose frame holds the a topmost operands.
LEMMA ActivateKeeps ==
  ASSUME NEW v, NEW p, Inv(v, p), Tile(v, p), NEW a \in Nat, a <= p.temps,
         NEW fr \in Frames, fr.frame_base = v.frame_base,
         fr.return_ip.scopes = p.scopes, fr.return_ip.locals = p.locals,
         fr.return_ip.temps = p.temps - a + 1,
         NEW w \in VMs, w.stack = v.stack, w.capacity = v.capacity, w.stack_top = v.stack_top,
         w.frame_base = v.stack_top - a, w.frames = Append(v.frames, fr),
         w.try_frames = v.try_frames
  PROVE  Inv(w, Entry(a)) /\ Tile(w, Entry(a))
  <1> DEFINE l == Len(v.frames)
             r == fr.return_ip
             q == Entry(a)
  <1>1. /\ v \in VMs /\ p \in Places /\ Nested(p) /\ Bounded(v) /\ CallersNested(v)
        /\ v.frames \in Seq(Frames) /\ l \in Nat /\ DOMAIN v.frames = 1 .. l
    BY ActivationsAreTyped DEF Inv
  <1>2. /\ v.stack \in Int /\ v.capacity \in Int /\ v.frame_base \in Int /\ v.stack_top \in Int
        /\ p.locals \in Nat /\ p.temps \in Nat
    BY <1>1, VMsAreTyped, PlacesAreTyped
  <1>3. /\ Len(w.frames) = l + 1 /\ DOMAIN w.frames = 1 .. l + 1 /\ w.frames[l + 1] = fr
        /\ \A k \in 1 .. l : w.frames[k] = v.frames[k]
    BY <1>1, AppendFacts
  <1>4. r \in Places /\ r.temps >= 1
    BY <1>2 DEF Frames
  <1>5. Nested(r)
    BY <1>1, <1>2, <1>4, SameScopes
  <1>6. /\ q \in Places /\ Nested(q) /\ q.locals = a /\ q.temps = 0
        /\ DOMAIN q.scopes = {1} /\ q.scopes[1].kind = "proc"
    BY EntryNests
  <1> HIDE DEF l, r, q
  <1>7. /\ \A k \in 1 .. l : PlaceIn(w, q, k) = PlaceIn(v, p, k) /\ BaseIn(w, k) = BaseIn(v, k)
        /\ PlaceIn(w, q, l + 1) = r /\ PlaceIn(v, p, l + 1) = p
        /\ BaseIn(w, l + 1) = v.frame_base /\ BaseIn(v, l + 1) = v.frame_base
        /\ PlaceIn(w, q, l + 2) = q /\ BaseIn(w, l + 2) = w.frame_base
    <2>1. l + 1 # l + 2 /\ Len(w.frames) + 1 = l + 2 /\ Len(v.frames) + 1 = l + 1
          /\ \A k \in 1 .. l : k # l + 1 /\ k # l + 2
      BY <1>1, <1>3 DEF l
    <2>2. QED
      BY <2>1, <1>3 DEF PlaceIn, BaseIn, r
  <1>8. /\ \A k \in 1 .. l + 2 : k \in 1 .. l \/ k = l + 1 \/ k = l + 2
        /\ \A k \in 1 .. l + 1 : k \in 1 .. l \/ k = l + 1
        /\ \A k \in 1 .. l + 1 : k \in 1 .. l + 2
        /\ l + 2 \notin 1 .. l + 1 /\ l + 1 \in 1 .. l + 1
        /\ Len(w.frames) + 1 = l + 2 /\ Len(v.frames) + 1 = l + 1
    BY <1>1, <1>3 DEF l
  <1>9. ASSUME NEW k, NEW i
        PROVE  OpenTry(w, q, k, i) <=> OpenTry(v, p, k, i)
    <2>1. CASE k \in 1 .. l
      BY <2>1, <1>1, <1>7, <1>8 DEF OpenTry
    <2>2. CASE k = l + 1
      <3>1. PlaceIn(w, q, k).scopes = PlaceIn(v, p, k).scopes
        BY <2>2, <1>7 DEF r
      <3>2. k \in 1 .. l + 1 /\ k \in 1 .. l + 2
        BY <2>2, <1>8
      <3>3. QED
        BY <3>1, <3>2, <1>8 DEF OpenTry
    <2>3. CASE k = l + 2
      <3>1. ~OpenTry(v, p, k, i)
        BY <2>3, <1>8 DEF OpenTry
      <3>2. ~OpenTry(w, q, k, i)
        BY <2>3, <1>6, <1>7 DEF OpenTry
      <3>3. QED
        BY <3>1, <3>2
    <2>4. CASE k \notin 1 .. l + 2
      BY <2>4, <1>8 DEF OpenTry
    <2>5. QED
      BY <2>1, <2>2, <2>3, <2>4, <1>8
  <1>10. HandlersLead(w, q)
    <2> SUFFICES ASSUME NEW j \in DOMAIN v.try_frames
                 PROVE  /\ OpenTry(w, q, Act(v.try_frames[j]), Num(v.try_frames[j]))
                        /\ Leads(v.try_frames[j], PlaceIn(w, q, Act(v.try_frames[j])),
                                 BaseIn(w, Act(v.try_frames[j])), Num(v.try_frames[j]))
      BY DEF HandlersLead
    <2> DEFINE kj == Act(v.try_frames[j])
               nj == Num(v.try_frames[j])
    <2>1. OpenTry(v, p, kj, nj) /\ Leads(v.try_frames[j], PlaceIn(v, p, kj), BaseIn(v, kj), nj)
      BY DEF Inv, HandlersLead
    <2>2. OpenTry(w, q, kj, nj)
      BY <2>1, <1>9
    <2>3. kj \in 1 .. l \/ kj = l + 1
      BY <2>1, <1>8 DEF OpenTry
    <2>4. PlaceIn(w, q, kj).scopes = PlaceIn(v, p, kj).scopes /\ BaseIn(w, kj) = BaseIn(v, kj)
      BY <2>3, <1>7 DEF r
    <2>5. Leads(v.try_frames[j], PlaceIn(w, q, kj), BaseIn(w, kj), nj)
      BY <2>1, <2>4 DEF Leads
    <2>6. QED
      BY <2>2, <2>5
  <1>11. HandlersOrdered(w)
    BY DEF Inv, HandlersOrdered
  <1>12. TriesHandled(w, q)
    BY <1>9 DEF Inv, TriesHandled
  <1>13. CallersNested(w)
    <2>1. ASSUME NEW i \in 1 .. l + 1
          PROVE  Nested(w.frames[i].return_ip) /\ w.frames[i].return_ip.temps >= 1
      <3>1. CASE i = l + 1
        BY <3>1, <1>3, <1>4, <1>5 DEF r
      <3>2. CASE i \in 1 .. l
        BY <3>2, <1>1, <1>3 DEF CallersNested
      <3>3. QED
        BY <3>1, <3>2, <1>8
    <2>2. QED
      BY <2>1, <1>3 DEF CallersNested
  <1>14. v.stack_top = v.frame_base + p.locals + p.temps
    BY DEF Tile
  <1>15. v.frame_base <= w.frame_base /\ w.frame_base <= w.stack_top /\ w.frame_base \in Int
    <2> DEFINE base == v.frame_base
               locals == p.locals
               temps == p.temps
               top == v.stack_top
    <2>1. base \in Int /\ locals \in Nat /\ temps \in Nat /\ a <= temps /\ top = base + locals + temps
      BY <1>2, <1>14
    <2> HIDE DEF base, locals, temps, top
    <2>2. base <= top - a /\ top - a <= top /\ top - a \in Int
      BY <2>1
    <2>3. QED
      BY <2>2 DEF base, top
  <1>16. Bounded(w)
    <2>1. /\ v.stack <= v.frame_base /\ v.stack_top <= v.stack + v.capacity
      BY <1>1 DEF Bounded
    <2>2. /\ w.stack <= w.frame_base /\ w.frame_base <= w.stack_top
          /\ w.stack_top <= w.stack + w.capacity
      BY <2>1, <1>2, <1>15
    <2>3. \A i \in 1 .. l : v.frames[i].frame_base \in Int
      <3>1. \A i \in 1 .. l : v.frames[i] \in Frames
        BY <1>1
      <3>2. QED
        BY <3>1 DEF Frames
    <2>4. ASSUME NEW i \in 1 .. l + 1
          PROVE  /\ w.stack <= w.frames[i].frame_base /\ w.frames[i].frame_base <= w.frame_base
                 /\ \A j \in 1 .. l + 1 : i < j => w.frames[i].frame_base <= w.frames[j].frame_base
      <3>1. CASE i = l + 1
        <4>1. \A j \in 1 .. l + 1 : ~(i < j)
          BY <3>1, <1>1 DEF l
        <4>2. QED
          BY <3>1, <4>1, <2>1, <1>3, <1>15
      <3>2. CASE i \in 1 .. l
        <4>1. /\ v.stack <= v.frames[i].frame_base /\ v.frames[i].frame_base <= v.frame_base
              /\ \A j \in 1 .. l : i < j => v.frames[i].frame_base <= v.frames[j].frame_base
          BY <3>2, <1>1 DEF Bounded
        <4>2. v.frames[i].frame_base <= w.frame_base
          BY <4>1, <3>2, <2>3, <1>2, <1>15
        <4>3. w.frames[i] = v.frames[i] /\ w.frames[l + 1].frame_base = v.frame_base
          BY <3>2, <1>3
        <4>4. QED
          BY <4>1, <4>2, <4>3, <1>3, <1>8
      <3>3. QED
        BY <3>1, <3>2, <1>8
    <2>5. \A j \in DOMAIN w.try_frames :
            /\ w.stack <= w.try_frames[j].frame_base
            /\ w.try_frames[j].frame_base <= w.try_frames[j].stack_top
            /\ w.try_frames[j].stack_top <= w.stack + w.capacity
      BY <1>1 DEF Bounded
    <2>6. QED
      BY <2>2, <2>4, <2>5, <1>3 DEF Bounded
  <1>17. Tile(w, q)
    <2>1. BaseIn(w, 1) = w.stack
      <3>1. BaseIn(v, 1) = v.stack
        BY DEF Tile
      <3>2. 1 \in 1 .. l \/ 1 = l + 1
        BY <1>1 DEF l
      <3>3. BaseIn(w, 1) = BaseIn(v, 1)
        BY <3>2, <1>7
      <3>4. QED
        BY <3>1, <3>3
    <2>2. ASSUME NEW k \in 1 .. l + 1
          PROVE  BaseIn(w, k + 1) = BaseIn(w, k) + w.frames[k].return_ip.locals
                                                 + w.frames[k].return_ip.temps - 1
      <3>1. CASE k = l + 1
        <4>1. /\ BaseIn(w, k) = v.frame_base /\ w.frames[k].return_ip.locals = p.locals
              /\ w.frames[k].return_ip.temps = p.temps - a + 1
          BY <3>1, <1>3, <1>7
        <4>2. k + 1 = l + 2
          BY <3>1, <1>1 DEF l
        <4>3. BaseIn(w, k + 1) = v.stack_top - a
          BY <4>2, <1>7
        <4>4. v.stack_top - a = v.frame_base + p.locals + (p.temps - a + 1) - 1
          BY <1>2, <1>14
        <4>5. QED
          BY <4>1, <4>3, <4>4
      <3>2. CASE k \in 1 .. l
        <4>1. BaseIn(v, k + 1) = BaseIn(v, k) + v.frames[k].return_ip.locals
                                              + v.frames[k].return_ip.temps - 1
          BY <3>2 DEF Tile, l
        <4>2. k + 1 \in 1 .. l \/ k + 1 = l + 1
          BY <3>2, <1>1 DEF l
        <4>3. BaseIn(w, k + 1) = BaseIn(v, k + 1) /\ BaseIn(w, k) = BaseIn(v, k)
              /\ w.frames[k] = v.frames[k]
          BY <3>2, <4>2, <1>3, <1>7
        <4>4. QED
          BY <4>1, <4>3
      <3>3. QED
        BY <3>1, <3>2, <1>8
    <2>3. w.stack_top = w.frame_base + q.locals + q.temps
      BY <1>2, <1>6
    <2>4. QED
      BY <2>1, <2>2, <2>3, <1>3 DEF Tile
  <1>18. QED
    BY <1>6, <1>10, <1>11, <1>12, <1>13, <1>16, <1>17 DEF Inv, q

LEMMA CallKeeps ==
  ASSUME IInv, NEW args \in Nat, NEW outs \in SUBSET (Nat \X Nat), Call(args, outs)
  PROVE  IInv'
  <1>1. Running /\ args <= ip.temps
    BY DEF Call
  <1>2. CASE Len(vm.frames) >= FramesMax
    BY <1>2, AbortKeeps DEF Call
  <1>3. CASE ~(Len(vm.frames) >= FramesMax)
    <2> DEFINE t == ip.temps - args + 1
               r == [ip EXCEPT !.temps = t]
               fr == [frame_base |-> vm.frame_base, return_ip |-> r, outs |-> outs]
               b == vm.stack_top - args
               u == [vm EXCEPT !.frames = Append(vm.frames, fr)]
               w == [u EXCEPT !.frame_base = b]
    <2>1. vm' = w /\ ip' = Entry(args) /\ status' = status
      BY <1>3 DEF Call
    <2>2. /\ status = "run" /\ Inv(vm, ip) /\ Tile(vm, ip) /\ vm \in VMs /\ ip \in Places
          /\ vm.stack_top \in Int /\ vm.frame_base \in Int /\ ip.temps \in Nat
          /\ vm.frames \in Seq(Frames)
      BY <1>1, WhileRunning, VMsAreTyped
    <2>3. t \in Nat /\ b \in Int
      BY <1>1, <2>2
    <2> HIDE DEF t, b
    <2>4. /\ r \in Places /\ r.scopes = ip.scopes /\ r.locals = ip.locals /\ r.temps = t
      BY <2>2, <2>3 DEF Places
    <2> HIDE DEF r
    <2>5. /\ fr \in Frames /\ fr.frame_base = vm.frame_base /\ fr.return_ip = r
      BY <2>2, <2>4 DEF Frames
    <2> HIDE DEF fr
    <2>6. Append(vm.frames, fr) \in Seq(Frames)
      BY <2>2, <2>5, AppendFacts
    <2>7. /\ u \in VMs /\ u.stack = vm.stack /\ u.capacity = vm.capacity
          /\ u.stack_top = vm.stack_top /\ u.try_frames = vm.try_frames
          /\ u.frames = Append(vm.frames, fr)
      BY <2>2, <2>6 DEF VMs
    <2> HIDE DEF u
    <2>8. /\ w \in VMs /\ w.stack = vm.stack /\ w.capacity = vm.capacity
          /\ w.stack_top = vm.stack_top /\ w.try_frames = vm.try_frames
          /\ w.frames = Append(vm.frames, fr) /\ w.frame_base = b
      BY <2>3, <2>7 DEF VMs
    <2> HIDE DEF w
    <2>9. Inv(w, Entry(args)) /\ Tile(w, Entry(args))
      BY <1>1, <2>2, <2>4, <2>5, <2>8, ActivateKeeps DEF t, b
    <2>10. QED
      BY <2>1, <2>2, <2>9, RunsOn
  <1>4. QED
    BY <1>2, <1>3

LEMMA CallProcKeeps ==
  ASSUME IInv, CallProc
  PROVE  IInv'
  <1>1. PICK args \in 0 .. ArgsMax :
            Call(args, {}) \/ \E o \in OutPairs(args) : Call(args, {o})
    BY DEF CallProc
  <1>2. args \in Nat
    BY VmFramesAssumption
  <1>3. CASE Call(args, {})
    BY <1>2, <1>3, CallKeeps
  <1>4. CASE \E o \in OutPairs(args) : Call(args, {o})
    <2>1. PICK o \in OutPairs(args) : Call(args, {o})
      BY <1>4
    <2>2. {o} \in SUBSET (Nat \X Nat)
      <3>1. Running
        BY <2>1 DEF Call
      <3>2. ip.locals \in Nat
        BY <3>1, WhileRunning
      <3>3. QED
        BY <1>2, <2>1, <3>2 DEF OutPairs
    <2>3. QED
      BY <1>2, <2>1, <2>2, CallKeeps
  <1>5. QED
    BY <1>1, <1>3, <1>4

\* Back to the caller; no try block of the activation that ends is open.
LEMMA DeactivateKeeps ==
  ASSUME NEW v, NEW p, Inv(v, p), Tile(v, p), v.frames # <<>>,
         \A i \in DOMAIN p.scopes : p.scopes[i].kind # "try",
         v.frame_base + 1 <= v.stack + v.capacity,
         NEW fr, fr = Last(v.frames), NEW q, q = fr.return_ip,
         NEW w \in VMs, w.stack = v.stack, w.capacity = v.capacity,
         w.stack_top = v.frame_base + 1, w.frame_base = fr.frame_base,
         w.frames = Front(v.frames), w.try_frames = v.try_frames
  PROVE  Inv(w, q) /\ Tile(w, q)
  <1> DEFINE l == Len(v.frames)
  <1>1. /\ v \in VMs /\ p \in Places /\ Bounded(v) /\ CallersNested(v)
        /\ v.frames \in Seq(Frames) /\ l \in Nat /\ DOMAIN v.frames = 1 .. l
    BY ActivationsAreTyped DEF Inv
  <1>2. /\ v.stack \in Int /\ v.capacity \in Int /\ v.frame_base \in Int
    BY <1>1, VMsAreTyped
  <1>3. /\ l >= 1 /\ l \in 1 .. l /\ fr = v.frames[l]
        /\ DOMAIN w.frames = 1 .. l - 1 /\ Len(w.frames) = l - 1
        /\ \A k \in 1 .. l - 1 : w.frames[k] = v.frames[k] /\ k \in 1 .. l
    BY <1>1, FrontFacts
  <1>4. fr \in Frames
    BY <1>1, <1>3
  <1>5. q \in Places /\ fr.frame_base \in Int /\ q.locals \in Nat /\ q.temps \in Nat
    BY <1>4 DEF Frames, Places
  <1>6. Nested(q)
    BY <1>1, <1>3 DEF CallersNested
  <1> HIDE DEF l
  <1>7. /\ \A k \in 1 .. l - 1 : PlaceIn(w, q, k) = PlaceIn(v, p, k) /\ BaseIn(w, k) = BaseIn(v, k)
        /\ PlaceIn(w, q, l) = q /\ PlaceIn(v, p, l) = q
        /\ BaseIn(w, l) = fr.frame_base /\ BaseIn(v, l) = fr.frame_base
        /\ PlaceIn(v, p, l + 1) = p /\ BaseIn(v, l + 1) = v.frame_base
    <2>1. Len(w.frames) + 1 = l /\ Len(v.frames) + 1 = l + 1 /\ l # l + 1
          /\ \A k \in 1 .. l - 1 : k # l /\ k # l + 1
      BY <1>1, <1>3 DEF l
    <2>2. QED
      BY <2>1, <1>3 DEF PlaceIn, BaseIn
  <1>8. /\ \A k \in 1 .. l : k \in 1 .. l - 1 \/ k = l
        /\ \A k \in 1 .. l + 1 : k \in 1 .. l \/ k = l + 1
        /\ \A k \in 1 .. l : k \in 1 .. l + 1
        /\ l + 1 \notin 1 .. l
        /\ Len(w.frames) + 1 = l /\ Len(v.frames) + 1 = l + 1
    <2>1. l \in Nat /\ l >= 1
      BY <1>1, <1>3 DEF l
    <2>2. /\ \A k \in 1 .. l : k \in 1 .. l - 1 \/ k = l
          /\ \A k \in 1 .. l + 1 : k \in 1 .. l \/ k = l + 1
          /\ \A k \in 1 .. l : k \in 1 .. l + 1
          /\ l + 1 \notin 1 .. l
      BY <2>1
    <2>3. Len(w.frames) + 1 = l /\ Len(v.frames) + 1 = l + 1
      BY <2>1, <1>3 DEF l
    <2>4. QED
      BY <2>2, <2>3
  <1>9. \A k \in 1 .. l : PlaceIn(w, q, k) = PlaceIn(v, p, k) /\ BaseIn(w, k) = BaseIn(v, k)
    BY <1>7, <1>8
  <1>10. ASSUME NEW k, NEW i
         PROVE  OpenTry(w, q, k, i) <=> OpenTry(v, p, k, i)
    <2>1. CASE k \in 1 .. l
      BY <2>1, <1>8, <1>9 DEF OpenTry
    <2>2. CASE k = l + 1
      BY <2>2, <1>7, <1>8 DEF OpenTry
    <2>3. CASE k \notin 1 .. l + 1
      BY <2>3, <1>8 DEF OpenTry
    <2>4. QED
      BY <2>1, <2>2, <2>3, <1>8
  <1>11. HandlersLead(w, q)
    <2> SUFFICES ASSUME NEW j \in DOMAIN v.try_frames
                 PROVE  /\ OpenTry(w, q, Act(v.try_frames[j]), Num(v.try_frames[j]))
                        /\ Leads(v.try_frames[j], PlaceIn(w, q, Act(v.try_frames[j])),
                                 BaseIn(w, Act(v.try_frames[j])), Num(v.try_frames[j]))
      BY DEF HandlersLead
    <2> DEFINE kj == Act(v.try_frames[j])
               nj == Num(v.try_frames[j])
    <2>1. OpenTry(v, p, kj, nj) /\ Leads(v.try_frames[j], PlaceIn(v, p, kj), BaseIn(v, kj), nj)
      BY DEF Inv, HandlersLead
    <2>2. OpenTry(w, q, kj, nj)
      BY <2>1, <1>10
    <2>3. kj \in 1 .. l
      BY <2>2, <1>8 DEF OpenTry
    <2>4. QED
      BY <2>1, <2>2, <2>3, <1>9
  <1>12. HandlersOrdered(w)
    BY DEF Inv, HandlersOrdered
  <1>13. TriesHandled(w, q)
    BY <1>10 DEF Inv, TriesHandled
  <1>14. CallersNested(w)
    BY <1>1, <1>3 DEF CallersNested
  <1>15. Bounded(w)
    <2>1. v.stack <= fr.frame_base /\ fr.frame_base <= v.frame_base
      BY <1>1, <1>3 DEF Bounded
    <2>2. /\ w.stack <= w.frame_base /\ w.frame_base <= w.stack_top
          /\ w.stack_top <= w.stack + w.capacity
      BY <2>1, <1>2, <1>5
    <2>3. ASSUME NEW i \in 1 .. l - 1
          PROVE  /\ w.stack <= w.frames[i].frame_base /\ w.frames[i].frame_base <= w.frame_base
                 /\ \A j \in 1 .. l - 1 : i < j => w.frames[i].frame_base <= w.frames[j].frame_base
      <3>1. i < l /\ i \in 1 .. l
        BY <1>1, <1>3
      <3>2. /\ v.stack <= v.frames[i].frame_base
            /\ \A j \in 1 .. l : i < j => v.frames[i].frame_base <= v.frames[j].frame_base
        BY <3>1, <1>1 DEF Bounded
      <3>3. v.frames[i].frame_base <= fr.frame_base
        BY <3>1, <3>2, <1>3
      <3>4. QED
        BY <3>2, <3>3, <1>3
    <2>4. \A j \in DOMAIN w.try_frames :
            /\ w.stack <= w.try_frames[j].frame_base
            /\ w.try_frames[j].frame_base <= w.try_frames[j].stack_top
            /\ w.try_frames[j].stack_top <= w.stack + w.capacity
      BY <1>1 DEF Bounded
    <2>5. QED
      BY <2>2, <2>3, <2>4, <1>3 DEF Bounded
  <1>16. Tile(w, q)
    <2>1. BaseIn(w, 1) = w.stack
      <3>1. 1 \in 1 .. l /\ BaseIn(v, 1) = v.stack
        BY <1>1, <1>3 DEF Tile
      <3>2. QED
        BY <3>1, <1>9
    <2>2. \A k \in 1 .. l : BaseIn(v, k + 1) = BaseIn(v, k) + v.frames[k].return_ip.locals
                                                           + v.frames[k].return_ip.temps - 1
      BY DEF Tile, l
    <2>3. ASSUME NEW k \in 1 .. l - 1
          PROVE  BaseIn(w, k + 1) = BaseIn(w, k) + w.frames[k].return_ip.locals
                                                 + w.frames[k].return_ip.temps - 1
      <3>1. k \in 1 .. l /\ k + 1 \in 1 .. l
        BY <1>1, <1>3
      <3>2. QED
        BY <3>1, <2>2, <1>3, <1>9
    <2>4. w.stack_top = w.frame_base + q.locals + q.temps
      <3>1. v.frame_base = fr.frame_base + q.locals + q.temps - 1
        BY <2>2, <1>3, <1>7
      <3> DEFINE base == fr.frame_base
                 locals == q.locals
                 temps == q.temps
                 old == v.frame_base
      <3>2. base \in Int /\ locals \in Nat /\ temps \in Nat /\ old = base + locals + temps - 1
        BY <3>1, <1>5
      <3>3. w.stack_top = old + 1 /\ w.frame_base = base
        OBVIOUS
      <3> HIDE DEF base, locals, temps, old
      <3>4. old + 1 = base + locals + temps
        BY <3>2
      <3>5. QED
        BY <3>3, <3>4 DEF locals, temps
    <2>5. QED
      BY <2>1, <2>3, <2>4, <1>3 DEF Tile
  <1>17. QED
    BY <1>5, <1>6, <1>11, <1>12, <1>13, <1>14, <1>15, <1>16 DEF Inv

LEMMA ReturnFromKeeps ==
  ASSUME IInv, Running, NEW v, Inv(v, ip), NEW q, Inv(v, q), Tile(v, q),
         v.frame_base + 1 <= v.stack_top,
         \A i \in DOMAIN q.scopes : q.scopes[i].kind # "try",
         ReturnFrom(v)
  PROVE  IInv'
  <1> DEFINE fr == Last(v.frames)
             t == v.frame_base + 1
             bad == \E o \in fr.outs : o[1] >= v.stack_top - v.frame_base
                                       \/ o[2] >= v.frame_base - fr.frame_base
             u1 == [v EXCEPT !.frames = Front(v.frames)]
             u2 == [u1 EXCEPT !.frame_base = fr.frame_base]
             w == [u2 EXCEPT !.stack_top = t]
  <1>1. CASE v.frames = <<>>
    <2>1. vm' = v /\ status' = "ok" /\ ip' = ip
      BY <1>1 DEF ReturnFrom
    <2>2. QED
      BY <2>1 DEF IInv, Running
  <1>2. CASE v.frames # <<>> /\ bad
    <2>1. Throw
      BY <1>2 DEF ReturnFrom
    <2>2. QED
      BY <2>1, ThrowKeeps
  <1>3. CASE v.frames # <<>> /\ ~bad
    <2>1. vm' = w /\ ip' = fr.return_ip /\ status' = status
      BY <1>3 DEF ReturnFrom
    <2> HIDE DEF bad
    <2>2. v \in VMs /\ Bounded(v)
      BY DEF Inv
    <2>3. /\ v.frame_base \in Int /\ v.stack_top \in Int /\ v.stack \in Int /\ v.capacity \in Int
          /\ v.frames \in Seq(Frames) /\ v.stack_top <= v.stack + v.capacity
      BY <2>2, VMsAreTyped DEF Bounded
    <2>4. t \in Int /\ t <= v.stack + v.capacity
      BY <2>3
    <2>5. fr \in Frames /\ Front(v.frames) \in Seq(Frames)
      BY <1>3, <2>3, FrontFacts
    <2>6. fr.frame_base \in Int
      BY <2>5 DEF Frames
    <2> HIDE DEF t
    <2>7. /\ u1 \in VMs /\ u1.stack = v.stack /\ u1.capacity = v.capacity
          /\ u1.try_frames = v.try_frames /\ u1.frames = Front(v.frames)
      BY <2>2, <2>5 DEF VMs
    <2> HIDE DEF u1
    <2>8. /\ u2 \in VMs /\ u2.stack = v.stack /\ u2.capacity = v.capacity
          /\ u2.try_frames = v.try_frames /\ u2.frames = Front(v.frames)
          /\ u2.frame_base = fr.frame_base
      BY <2>6, <2>7 DEF VMs
    <2> HIDE DEF u2
    <2>9. /\ w \in VMs /\ w.stack = v.stack /\ w.capacity = v.capacity
          /\ w.try_frames = v.try_frames /\ w.frames = Front(v.frames)
          /\ w.frame_base = fr.frame_base /\ w.stack_top = v.frame_base + 1
      BY <2>4, <2>8 DEF VMs, t
    <2> HIDE DEF w
    <2>10. v.frame_base + 1 <= v.stack + v.capacity
      BY <2>4 DEF t
    <2> DEFINE r == fr.return_ip
    <2> HIDE DEF r, fr
    <2>11. Inv(w, r) /\ Tile(w, r)
      BY <1>3, <2>9, <2>10, DeactivateKeeps DEF r, fr
    <2>12. QED
      BY <2>1, <2>11, WhileRunning, RunsOn DEF r
  <1>4. QED
    BY <1>1, <1>2, <1>3

LEMMA ReturnKeeps ==
  ASSUME Orderly, IInv, Return
  PROVE  IInv'
  <1>1. Running /\ ip.temps = 1 /\ MayLeave(1) /\ ReturnFrom(vm)
    BY DEF Return
  <1>2. /\ Inv(vm, ip) /\ Tile(vm, ip) /\ vm.frame_base \in Int /\ ip.locals \in Nat
        /\ vm.stack_top = vm.frame_base + ip.locals + ip.temps
    BY <1>1, WhileRunning
  <1>3. vm.frame_base + 1 <= vm.stack_top
    BY <1>1, <1>2
  <1>4. \A i \in DOMAIN ip.scopes : ip.scopes[i].kind # "try"
    <2>1. \A i \in 1 .. Len(ip.scopes) : ip.scopes[i].kind # "try"
      BY <1>1 DEF MayLeave, LeavesTry, Orderly
    <2>2. QED
      BY <2>1, <1>1, ScopesHere
  <1>5. QED
    BY <1>1, <1>2, <1>3, <1>4, ReturnFromKeeps

LEMMA FallOffKeeps ==
  ASSUME Orderly, IInv, FallOff
  PROVE  IInv'
  <1> DEFINE l == Floor(Inner)
             t == vm.stack_top - (ip.locals - l)
             v == [vm EXCEPT !.stack_top = t]
             q == [ip EXCEPT !.scopes = SubSeq(ip.scopes, 1, 1), !.locals = l]
  <1>1. /\ Running /\ ip.temps = 0 /\ Inner.kind = "proc"
        /\ l # 0 /\ ReturnFrom(v)
    BY DEF FallOff, Statement, Popped, Orderly
  <1>2. /\ Inv(vm, ip) /\ Tile(vm, ip) /\ vm \in VMs /\ ip \in Places /\ Nested(ip)
        /\ vm.stack \in Int /\ vm.capacity \in Int /\ vm.frame_base \in Int /\ vm.stack_top \in Int
        /\ ip.locals \in Nat
        /\ vm.stack_top = vm.frame_base + ip.locals + ip.temps
        /\ vm.stack_top <= vm.stack + vm.capacity
    BY <1>1, WhileRunning
  <1>3. /\ ip.scopes \in Seq(Scopes) /\ Len(ip.scopes) = 1 /\ DOMAIN ip.scopes = 1 .. 1
        /\ Inner = ip.scopes[1] /\ l \in Nat /\ l <= ip.locals
    <2>1. /\ ip.scopes \in Seq(Scopes) /\ Len(ip.scopes) \in Nat /\ Len(ip.scopes) >= 1
          /\ DOMAIN ip.scopes = 1 .. Len(ip.scopes) /\ Inner = ip.scopes[Len(ip.scopes)]
      BY <1>1, ScopesHere
    <2>2. Len(ip.scopes) \in DOMAIN ip.scopes /\ Len(ip.scopes) \in 1 .. Len(ip.scopes)
      BY <2>1
    <2>3. Len(ip.scopes) = 1
      BY <1>1, <1>2, <2>1, <2>2 DEF Nested
    <2>4. l \in Nat /\ l <= ip.locals
      BY <1>1, <2>1, <2>2, ScopesHere
    <2>5. QED
      BY <2>1, <2>3, <2>4
  <1> HIDE DEF l
  <1>4. /\ SubSeq(ip.scopes, 1, 1) \in Seq(Scopes)
        /\ DOMAIN SubSeq(ip.scopes, 1, 1) = 1 .. 1
        /\ SubSeq(ip.scopes, 1, 1)[1] = ip.scopes[1]
    BY <1>3, CutFacts
  <1>5. /\ q \in Places /\ q.scopes = SubSeq(ip.scopes, 1, 1) /\ q.locals = l /\ q.temps = 0
    BY <1>1, <1>2, <1>3, <1>4 DEF Places
  <1> HIDE DEF q
  <1>6. Nested(q) /\ SameTries(ip, q)
    <2>1. 1 \in 1 .. Len(ip.scopes) /\ \A i \in 1 + 1 .. Len(ip.scopes) : ip.scopes[i].kind # "try"
      BY <1>3
    <2>2. \A i \in 1 .. 1 : Floor(ip.scopes[i]) <= l
      BY <1>3 DEF l
    <2>3. QED
      BY <2>1, <2>2, <1>2, <1>3, <1>5, CutNests
  <1>7. /\ t \in Int /\ vm.frame_base <= t /\ t <= vm.stack + vm.capacity
        /\ t = vm.frame_base + q.locals + q.temps /\ vm.frame_base + 1 <= t
    BY <1>1, <1>2, <1>3, <1>5
  <1> HIDE DEF t
  <1>8. v = [vm EXCEPT !.stack_top = t]
    OBVIOUS
  <1>9. v.stack_top = t /\ v.frame_base = vm.frame_base
    BY <1>2 DEF VMs
  <1> HIDE DEF v
  <1>10. Inv(v, ip)
    BY <1>2, <1>7, <1>8, TopKeeps
  <1>11. Inv(v, q) /\ Tile(v, q)
    BY <1>2, <1>5, <1>6, <1>7, <1>8, SettleKeeps
  <1>12. \A i \in DOMAIN q.scopes : q.scopes[i].kind # "try"
    BY <1>1, <1>3, <1>4, <1>5
  <1>13. QED
    BY <1>1, <1>7, <1>9, <1>10, <1>11, <1>12, ReturnFromKeeps

-----------------------------------------------------------------------------
(* The invariant.                                                            *)

LEMMA InitHolds ==
  ASSUME Init
  PROVE  IInv
  <1>1. PICK b \in Blocks :
            vm = [stack |-> b, capacity |-> InitialCapacity, stack_top |-> b,
                  frame_base |-> b, frames |-> <<>>, try_frames |-> <<>>]
    BY DEF Init
  <1>2. ip = Entry(0) /\ status = "run"
    BY DEF Init
  <1>3. b \in Int /\ InitialCapacity \in Nat /\ StackMax \in Nat /\ StackMax >= InitialCapacity
    BY VmFramesAssumption
  <1>4. /\ vm.stack = b /\ vm.capacity = InitialCapacity /\ vm.stack_top = b
        /\ vm.frame_base = b /\ vm.frames = <<>> /\ vm.try_frames = <<>>
    BY <1>1
  <1>5. /\ ip \in Places /\ Nested(ip) /\ ip.locals = 0 /\ ip.temps = 0
        /\ DOMAIN ip.scopes = {1} /\ ip.scopes[1].kind = "proc"
    BY <1>2, EntryNests
  <1>6. vm \in VMs
    <2>1. InitialCapacity \in InitialCapacity .. StackMax
      BY <1>3
    <2>2. <<>> \in Seq(Frames) /\ <<>> \in Seq(Handlers)
      OBVIOUS
    <2>3. QED
      BY <2>1, <2>2, <1>1, <1>3 DEF VMs
  <1>7. DOMAIN vm.frames = {} /\ DOMAIN vm.try_frames = {} /\ Len(vm.frames) = 0
    BY <1>4
  <1>8. CallersNested(vm) /\ HandlersLead(vm, ip) /\ HandlersOrdered(vm)
    BY <1>7 DEF CallersNested, HandlersLead, HandlersOrdered
  <1>9. ASSUME NEW k \in Nat, NEW n \in Nat
        PROVE  ~OpenTry(vm, ip, k, n)
    <2>1. k \in 1 .. 0 + 1 => k = 0 + 1
      OBVIOUS
    <2>2. PlaceIn(vm, ip, 0 + 1) = ip
      BY <1>7 DEF PlaceIn
    <2>3. QED
      BY <2>1, <2>2, <1>5, <1>7 DEF OpenTry
  <1>10. TriesHandled(vm, ip)
    BY <1>9 DEF TriesHandled
  <1>11. Bounded(vm)
    BY <1>3, <1>4, <1>7 DEF Bounded
  <1>12. Tile(vm, ip)
    <2>1. BaseIn(vm, 1) = b
      BY <1>4, <1>7 DEF BaseIn
    <2>2. \A k : k \notin 1 .. 0
      OBVIOUS
    <2>3. QED
      BY <2>1, <2>2, <1>3, <1>4, <1>5, <1>7 DEF Tile
  <1>13. QED
    BY <1>2, <1>5, <1>6, <1>8, <1>10, <1>11, <1>12 DEF IInv, Inv, Running

LEMMA StepHolds ==
  ASSUME Orderly, IInv, [Next]_vars
  PROVE  IInv'
  <1>1. CASE Raise
    BY <1>1, RaiseKeeps
  <1>2. CASE PushValue
    BY <1>2, PushValueKeeps
  <1>3. CASE PopValue
    BY <1>3, PopValueKeeps
  <1>4. CASE Declare
    BY <1>4, DeclareKeeps
  <1>5. CASE Enter("block", 0)
    BY <1>5, EnterKeeps
  <1>6. ASSUME NEW n \in 0 .. HiddenMax, Enter("loop", n) PROVE IInv'
    <2>1. n \in Nat
      BY VmFramesAssumption
    <2>2. QED
      BY <2>1, <1>6, EnterKeeps
  <1>7. CASE LeaveBlock
    BY <1>7, LeaveBlockKeeps
  <1>8. CASE LoopAgain
    BY <1>8, LoopAgainKeeps
  <1>9. CASE LoopExit
    BY <1>9, LoopExitKeeps
  <1>10. CASE Break
    BY <1>10, BreakKeeps
  <1>11. CASE Continue
    BY <1>11, ContinueKeeps
  <1>12. CASE EnterTry
    BY <1>12, EnterTryKeeps
  <1>13. CASE EndTry
    BY <1>13, EndTryKeeps
  <1>14. CASE EndCatch
    BY <1>14, EndCatchKeeps
  <1>15. CASE CallProc
    BY <1>15, CallProcKeeps
  <1>16. CASE Return
    BY <1>16, ReturnKeeps
  <1>17. CASE FallOff
    BY <1>17, FallOffKeeps
  <1>18. CASE UNCHANGED vars
    BY <1>18 DEF vars, IInv, Running
  <1>19. QED
    BY <1>1, <1>2, <1>3, <1>4, <1>5, <1>6, <1>7, <1>8, <1>9, <1>10, <1>11, <1>12, <1>13, <1>14,
       <1>15, <1>16, <1>17, <1>18 DEF Next

LEMMA IInvHolds ==
  ASSUME Orderly
  PROVE  Spec => []IInv
  <1>1. Init => IInv
    BY InitHolds
  <1>2. IInv /\ [Next]_vars => IInv'
    BY StepHolds
  <1>3. QED
    BY <1>1, <1>2, PTL DEF Spec

-----------------------------------------------------------------------------
(* What the invariant says in the terms of VmFrames.                         *)

LEMMA SameActivations ==
  ASSUME NEW k
  PROVE  /\ PlaceOf(k) = PlaceIn(vm, ip, k) /\ BaseOf(k) = BaseIn(vm, k)
         /\ \A n : IsOpenTry(k, n) <=> OpenTry(vm, ip, k, n)
  <1>1. PlaceOf(k) = PlaceIn(vm, ip, k) /\ BaseOf(k) = BaseIn(vm, k)
    BY DEF PlaceOf, BaseOf, PlaceIn, BaseIn, Depth
  <1>2. Depth = Len(vm.frames) + 1
    BY DEF Depth
  <1>3. QED
    BY <1>1, <1>2 DEF IsOpenTry, OpenTry

LEMMA InvIsTyped ==
  ASSUME IInv
  PROVE  TypeOK
  BY DEF IInv, Inv, VMs, TypeOK

LEMMA InvTiles ==
  ASSUME IInv
  PROVE  FramesTile
  <1> SUFFICES ASSUME Running
               PROVE  /\ BaseOf(1) = vm.stack
                      /\ \A k \in 1 .. Depth - 1 :
                            BaseOf(k + 1) = BaseOf(k) + PlaceOf(k).locals + PlaceOf(k).temps - 1
                      /\ vm.stack_top = vm.frame_base + ip.locals + ip.temps
    BY DEF FramesTile
  <1>1. Tile(vm, ip) /\ Inv(vm, ip)
    BY WhileRunning
  <1>2. Depth - 1 = Len(vm.frames) /\ Len(vm.frames) \in Nat
    BY <1>1, ActivationsAreTyped DEF Depth
  <1>3. ASSUME NEW k \in 1 .. Len(vm.frames)
        PROVE  BaseOf(k + 1) = BaseOf(k) + PlaceOf(k).locals + PlaceOf(k).temps - 1
    <2>1. k # Len(vm.frames) + 1
      BY <1>2
    <2>2. PlaceOf(k) = vm.frames[k].return_ip
      BY <2>1, SameActivations DEF PlaceIn
    <2>3. BaseOf(k + 1) = BaseIn(vm, k + 1) /\ BaseOf(k) = BaseIn(vm, k)
      BY SameActivations
    <2>4. QED
      BY <2>2, <2>3, <1>1 DEF Tile
  <1>4. BaseOf(1) = vm.stack
    BY <1>1, SameActivations DEF Tile
  <1>5. QED
    BY <1>1, <1>2, <1>3, <1>4 DEF Tile

LEMMA InvBounds ==
  ASSUME IInv
  PROVE  PointersInBlock
  <1>1. /\ vm \in VMs /\ Bounded(vm)
        /\ vm.frames \in Seq(Frames) /\ vm.try_frames \in Seq(Handlers)
        /\ vm.stack \in Int /\ vm.capacity \in Int /\ vm.stack_top \in Int /\ vm.frame_base \in Int
    BY VMsAreTyped DEF IInv, Inv
  <1> DEFINE Block == vm.stack .. vm.stack + vm.capacity
  <1>2. vm.stack_top \in Block /\ vm.frame_base \in Block
    BY <1>1 DEF Bounded
  <1>3. ASSUME NEW i \in DOMAIN vm.frames
        PROVE  vm.frames[i].frame_base \in Block
    <2>1. vm.frames[i] \in Frames
      BY <1>1
    <2>2. vm.frames[i].frame_base \in Int
      BY <2>1 DEF Frames
    <2>3. vm.stack <= vm.frames[i].frame_base /\ vm.frames[i].frame_base <= vm.frame_base
          /\ vm.frame_base <= vm.stack_top /\ vm.stack_top <= vm.stack + vm.capacity
      BY <1>1 DEF Bounded
    <2>4. QED
      BY <2>2, <2>3, <1>1
  <1>4. ASSUME NEW i \in DOMAIN vm.try_frames
        PROVE  vm.try_frames[i].frame_base \in Block /\ vm.try_frames[i].stack_top \in Block
    <2>1. vm.try_frames[i] \in Handlers
      BY <1>1
    <2>2. vm.try_frames[i].frame_base \in Int /\ vm.try_frames[i].stack_top \in Int
      BY <2>1 DEF Handlers
    <2>3. /\ vm.stack <= vm.try_frames[i].frame_base
          /\ vm.try_frames[i].frame_base <= vm.try_frames[i].stack_top
          /\ vm.try_frames[i].stack_top <= vm.stack + vm.capacity
      BY <1>1 DEF Bounded
    <2>4. QED
      BY <2>2, <2>3, <1>1
  <1> HIDE DEF Block
  <1>5. QED
    BY <1>2, <1>3, <1>4 DEF PointersInBlock, Block

LEMMA InvReaches ==
  ASSUME IInv, status = "error"
  PROVE  NoTryOpen
  <1> SUFFICES ASSUME NEW k \in 1 .. Depth, NEW n \in DOMAIN PlaceOf(k).scopes
               PROVE  ~IsOpenTry(k, n)
    BY DEF NoTryOpen
  <1>1. Inv(vm, ip) /\ \A i, j \in Nat : ~OpenTry(vm, ip, i, j)
    BY DEF IInv
  <1>2. k \in Nat /\ k \in 1 .. Len(vm.frames) + 1
    BY <1>1, ActivationsAreTyped DEF Depth
  <1>3. PlaceIn(vm, ip, k) \in Places
    BY <1>1, <1>2, ActivationsAreTyped
  <1>4. n \in Nat
    BY <1>3, SameActivations, PlacesAreTyped
  <1>5. QED
    BY <1>1, <1>2, <1>4, SameActivations

LEMMA InvHandlers ==
  ASSUME IInv
  PROVE  HandlersAreOpen
  <1>1. Inv(vm, ip)
    BY DEF IInv
  <1>2. /\ Len(vm.frames) \in Nat /\ vm.try_frames \in Seq(Handlers)
        /\ \A k \in 1 .. Len(vm.frames) + 1 : PlaceIn(vm, ip, k) \in Places
    BY <1>1, ActivationsAreTyped
  <1>3. \A j \in DOMAIN vm.try_frames :
            /\ ScopeOf(vm.try_frames[j]) = <<Act(vm.try_frames[j]), Num(vm.try_frames[j])>>
            /\ ScopeOf(vm.try_frames[j])[1] = Act(vm.try_frames[j])
            /\ ScopeOf(vm.try_frames[j])[2] = Num(vm.try_frames[j])
    BY DEF ScopeOf, Act, Num
  <1>4. ASSUME NEW j \in DOMAIN vm.try_frames
        PROVE  LET tf == vm.try_frames[j]
                   k  == ScopeOf(tf)[1]
                   n  == ScopeOf(tf)[2]
               IN  /\ IsOpenTry(k, n)
                   /\ tf.frame_base = BaseOf(k)
                   /\ tf.local_count = PlaceOf(k).scopes[n].start + 1
                   /\ Front(tf.catch_ip.scopes) = SubSeq(PlaceOf(k).scopes, 1, n - 1)
    <2> DEFINE tf == vm.try_frames[j]
               k  == Act(tf)
               n  == Num(tf)
               q  == PlaceIn(vm, ip, k)
               c  == tf.catch_ip.scopes
    <2>1. OpenTry(vm, ip, k, n) /\ Leads(tf, q, BaseIn(vm, k), n)
      BY <1>1 DEF Inv, HandlersLead
    <2>2. k \in 1 .. Len(vm.frames) + 1 /\ n \in DOMAIN q.scopes
      BY <2>1 DEF OpenTry
    <2>3. q \in Places
      BY <2>2, <1>2
    <2>4. tf \in Handlers
      BY <1>2
    <2>5. c \in Seq(Scopes) /\ n = Len(c)
      BY <2>4 DEF Handlers, Places, Num
    <2>6. /\ q.scopes \in Seq(Scopes) /\ DOMAIN q.scopes = 1 .. Len(q.scopes)
          /\ Len(q.scopes) \in Nat
      BY <2>3, PlacesAreTyped
    <2>7. n \in Nat /\ n >= 1 /\ n <= Len(q.scopes)
      BY <2>2, <2>6
    <2>8. \A i \in 1 .. n - 1 : c[i] = q.scopes[i]
      BY <2>1 DEF Leads
    <2> HIDE DEF tf, k, n, q, c
    <2>9. Front(c) = SubSeq(q.scopes, 1, n - 1)
      <3>1. n - 1 \in Nat /\ n - 1 <= Len(q.scopes) /\ n - 1 <= Len(c)
        BY <2>5, <2>7
      <3>2. /\ SubSeq(q.scopes, 1, n - 1) \in Seq(Scopes)
            /\ Len(SubSeq(q.scopes, 1, n - 1)) = n - 1
            /\ \A i \in 1 .. n - 1 : SubSeq(q.scopes, 1, n - 1)[i] = q.scopes[i]
        BY <2>6, <3>1, CutFacts
      <3>3. /\ SubSeq(c, 1, n - 1) \in Seq(Scopes)
            /\ Len(SubSeq(c, 1, n - 1)) = n - 1
            /\ \A i \in 1 .. n - 1 : SubSeq(c, 1, n - 1)[i] = c[i]
        BY <2>5, <3>1, CutFacts
      <3>4. Front(c) = SubSeq(c, 1, n - 1)
        BY <2>5 DEF Front
      <3> DEFINE s == SubSeq(c, 1, n - 1)
                 r == SubSeq(q.scopes, 1, n - 1)
      <3>5. s \in Seq(Scopes) /\ r \in Seq(Scopes) /\ Len(s) = Len(r)
            /\ \A i \in 1 .. Len(s) : s[i] = r[i]
        BY <3>2, <3>3, <2>8
      <3> HIDE DEF s, r
      <3>6. s = r
        BY <3>5, SeqEqual
      <3>7. QED
        BY <3>4, <3>6 DEF s, r
    <2>10. IsOpenTry(k, n) /\ BaseOf(k) = BaseIn(vm, k) /\ PlaceOf(k) = q
      BY <2>1, SameActivations DEF q
    <2>11. tf.frame_base = BaseIn(vm, k) /\ tf.local_count = q.scopes[n].start + 1
      BY <2>1 DEF Leads
    <2>12. QED
      BY <2>9, <2>10, <2>11, <1>3 DEF tf, k, n, c
  <1>5. ASSUME NEW i \in DOMAIN vm.try_frames, NEW j \in DOMAIN vm.try_frames, i < j
        PROVE  Before(ScopeOf(vm.try_frames[i]), ScopeOf(vm.try_frames[j]))
    <2>1. HandlersOrdered(vm)
      BY <1>1 DEF Inv
    <2>2. QED
      BY <2>1, <1>3, <1>5 DEF HandlersOrdered, Before
  <1>6. ASSUME NEW k \in 1 .. Depth, NEW n \in DOMAIN PlaceOf(k).scopes, IsOpenTry(k, n)
        PROVE  \E j \in DOMAIN vm.try_frames : ScopeOf(vm.try_frames[j]) = <<k, n>>
    <2>1. OpenTry(vm, ip, k, n) /\ k \in Nat
      BY <1>2, <1>6, SameActivations DEF Depth
    <2>2. PlaceIn(vm, ip, k) \in Places
      BY <2>1, <1>2 DEF OpenTry
    <2>3. n \in Nat
      BY <2>2, SameActivations, PlacesAreTyped
    <2>4. QED
      BY <2>1, <2>3, <1>1, <1>3 DEF Inv, TriesHandled
  <1>7. QED
    BY <1>4, <1>5, <1>6 DEF HandlersAreOpen

-----------------------------------------------------------------------------
(* What ends the run past the handlers.                                      *)

Overflows == status = "stack overflow" => AtCap

\* A push fails on a full stack only: realloc may return some block.
LEMMA PushFailsWhenFull ==
  ASSUME IInv, Push(vm) = {}
  PROVE  AtCap
  <1>1. vm \in VMs
    BY DEF IInv, Inv
  <1>2. vm.stack \in Int /\ vm.stack_top \in Int /\ StackMax \in Nat
    BY <1>1, VMsAreTyped, VmFramesAssumption
  <1>3. EnsureCapacity(vm) = {}
    BY DEF Push
  <1>4. vm.stack_top - vm.stack + 1 > StackMax
    <2>1. PICK b \in Blocks : TRUE
      BY VmFramesAssumption
    <2>2. Rebased(vm, b, Doubled(vm.capacity)) \in
            {Rebased(vm, c, Doubled(vm.capacity)) : c \in Blocks}
      BY <2>1
    <2>3. QED
      BY <1>3, <2>2 DEF EnsureCapacity
  <1> DEFINE height == vm.stack_top - vm.stack
  <1>5. height \in Int /\ height + 1 > StackMax
    BY <1>2, <1>4
  <1> HIDE DEF height
  <1>6. height >= StackMax
    BY <1>2, <1>5
  <1>7. QED
    BY <1>6 DEF AtCap, height

LEMMA AbortAtCap ==
  ASSUME Abort, AtCap
  PROVE  Overflows'
  <1>1. vm' = vm
    BY DEF Abort
  <1>2. QED
    BY <1>1 DEF Overflows, AtCap

LEMMA NoAbort ==
  ASSUME status' \in {status, "run", "ok", "error", "stale frames"}, Running
  PROVE  Overflows'
  BY DEF Running, Overflows

LEMMA ThrowNoAbort ==
  ASSUME Throw, Running
  PROVE  Overflows'
  <1>1. status' \in {status, "error", "stale frames"}
    BY DEF Throw, VmCatch
  <1>2. QED
    BY <1>1, NoAbort

LEMMA ReturnNoAbort ==
  ASSUME Running, NEW v, ReturnFrom(v)
  PROVE  Overflows'
  <1>1. Throw \/ status' \in {status, "ok"}
    BY DEF ReturnFrom
  <1>2. QED
    BY <1>1, NoAbort, ThrowNoAbort

LEMMA StepOverflows ==
  ASSUME IInv, Overflows, [Next]_vars
  PROVE  Overflows'
  <1>1. CASE Raise
    BY <1>1, ThrowNoAbort DEF Raise
  <1>2. CASE PushValue
    <2>1. Running
      BY <1>2 DEF PushValue
    <2>2. CASE Push(vm) = {}
      <3>1. Throw \/ Abort
        BY <1>2, <2>2 DEF PushValue
      <3>2. QED
        BY <2>1, <2>2, <3>1, ThrowNoAbort, PushFailsWhenFull, AbortAtCap
    <2>3. CASE Push(vm) # {}
      <3>1. status' = status
        BY <1>2, <2>3 DEF PushValue
      <3>2. QED
        BY <2>1, <3>1, NoAbort
    <2>4. QED
      BY <2>2, <2>3
  <1>3. CASE EnterTry
    <2>1. Running /\ (Throw \/ status' = status)
      BY <1>3 DEF EnterTry, Statement
    <2>2. QED
      BY <2>1, NoAbort, ThrowNoAbort
  <1>4. CASE EndTry
    <2>1. Running /\ (Throw \/ status' = status)
      BY <1>4 DEF EndTry, Statement
    <2>2. QED
      BY <2>1, NoAbort, ThrowNoAbort
  <1>5. CASE CallProc
    <2>1. PICK args, outs : Call(args, outs)
      BY <1>5 DEF CallProc
    <2>2. Running
      BY <2>1 DEF Call
    <2>3. CASE Len(vm.frames) >= FramesMax
      <3>1. Abort /\ AtCap
        BY <2>1, <2>3 DEF Call, AtCap
      <3>2. QED
        BY <3>1, AbortAtCap
    <2>4. CASE ~(Len(vm.frames) >= FramesMax)
      <3>1. status' = status
        BY <2>1, <2>4 DEF Call
      <3>2. QED
        BY <2>2, <3>1, NoAbort
    <2>5. QED
      BY <2>3, <2>4
  <1>6. CASE Return
    BY <1>6, ReturnNoAbort DEF Return
  <1>7. CASE FallOff
    <2>1. Running /\ ReturnFrom(Popped(ip.locals - Floor(Inner)))
      BY <1>7 DEF FallOff, Statement
    <2>2. QED
      BY <2>1, ReturnNoAbort
  <1>8. CASE PopValue \/ LeaveBlock \/ LoopAgain \/ LoopExit \/ Break \/ Continue \/ EndCatch
    <2>1. Running /\ status' = status
      BY <1>8 DEF PopValue, LeaveBlock, LoopAgain, LoopExit, Break, Continue, EndCatch, Jump,
                  Statement
    <2>2. QED
      BY <2>1, NoAbort
  <1>9. CASE Declare \/ Enter("block", 0) \/ \E n \in 0 .. HiddenMax : Enter("loop", n)
    <2>1. Running /\ status' = status
      BY <1>9 DEF Declare, Enter, Statement
    <2>2. QED
      BY <2>1, NoAbort
  <1>10. CASE UNCHANGED vars
    BY <1>10 DEF vars, Overflows, AtCap
  <1>11. QED
    BY <1>1, <1>2, <1>3, <1>4, <1>5, <1>6, <1>7, <1>8, <1>9, <1>10 DEF Next

-----------------------------------------------------------------------------
(* Catching only cuts the stack.                                             *)

\* What a handler keeps lies below stack_top.
LEMMA HandlersBelowTop ==
  ASSUME NEW v, NEW p, Inv(v, p), Tile(v, p), NEW j \in DOMAIN v.try_frames
  PROVE  v.try_frames[j].stack_top <= v.stack_top
  <1> DEFINE tf == v.try_frames[j]
             k == Act(tf)
             n == Num(tf)
             q == PlaceIn(v, p, k)
  <1>1. OpenTry(v, p, k, n) /\ Leads(tf, q, BaseIn(v, k), n)
    BY DEF Inv, HandlersLead
  <1>2. k \in 1 .. Len(v.frames) + 1 /\ n \in DOMAIN q.scopes /\ q.scopes[n].kind = "try"
    BY <1>1 DEF OpenTry
  <1>3. /\ q \in Places /\ Nested(q) /\ BaseIn(v, k) \in Int /\ Len(v.frames) \in Nat
        /\ DOMAIN v.frames = 1 .. Len(v.frames) /\ v \in VMs /\ p \in Places
    BY <1>2, ActivationsAreTyped
  <1>4. /\ v.frame_base \in Int /\ v.stack_top \in Int /\ p.locals \in Nat /\ p.temps \in Nat
        /\ q.locals \in Nat /\ q.temps \in Nat /\ q.scopes[n].start \in Nat
    BY <1>2, <1>3, VMsAreTyped, PlacesAreTyped
  <1>5. tf.stack_top = BaseIn(v, k) + q.scopes[n].start + 1
    BY <1>1 DEF Leads
  <1>6. q.scopes[n].start + 1 <= q.locals
    <2>1. Floor(q.scopes[n]) <= q.locals /\ q.scopes[n].own = 1
      BY <1>2, <1>3 DEF Nested
    <2>2. QED
      BY <2>1 DEF Floor
  <1>7. v.stack_top = v.frame_base + p.locals + p.temps /\ v.frame_base <= v.stack_top
    BY DEF Tile, Inv, Bounded
  <1> DEFINE base == BaseIn(v, k)
             start == q.scopes[n].start
  <1>8. CASE k = Len(v.frames) + 1
    <2>1. q = p /\ base = v.frame_base
      BY <1>8 DEF PlaceIn, BaseIn
    <2>2. tf.stack_top = v.frame_base + start + 1 /\ start + 1 <= p.locals /\ start \in Nat
      BY <2>1, <1>4, <1>5, <1>6
    <2> HIDE DEF tf, start
    <2>3. v.frame_base + start + 1 <= v.frame_base + p.locals + p.temps
      BY <2>2, <1>4
    <2>4. tf.stack_top <= v.stack_top
      BY <2>2, <2>3, <1>7
    <2>5. QED
      BY <2>4 DEF tf
  <1>9. CASE k # Len(v.frames) + 1
    <2>1. k \in 1 .. Len(v.frames) /\ k + 1 \in 1 .. Len(v.frames) + 1
      BY <1>2, <1>3, <1>9
    <2>2. q = v.frames[k].return_ip
      BY <1>9 DEF PlaceIn
    <2>3. q.temps >= 1
      BY <2>1, <2>2, <1>3 DEF Inv, CallersNested
    <2> DEFINE next == BaseIn(v, k + 1)
    <2>4. next = base + q.locals + q.temps - 1
      BY <2>1, <2>2 DEF Tile
    <2>5. next <= v.frame_base /\ next \in Int
      BY <2>1, ActivationsAreTyped
    <2>6. tf.stack_top = base + start + 1 /\ start + 1 <= q.locals /\ start \in Nat /\ base \in Int
      BY <1>3, <1>4, <1>5, <1>6
    <2> HIDE DEF tf, start, next, base, q
    <2>7. base + start + 1 <= next
      BY <2>3, <2>4, <2>6, <1>4
    <2>8. tf.stack_top \in Int /\ tf.stack_top <= next
      BY <2>6, <2>7
    <2>9. tf.stack_top <= v.stack_top
      BY <2>5, <2>8, <1>4, <1>7
    <2>10. QED
      BY <2>9 DEF tf
  <1>10. QED
    BY <1>8, <1>9

Cuts == vm'.stack_top - vm'.stack <= vm.stack_top - vm.stack

LEMMA StayCuts ==
  ASSUME IInv, vm' = vm
  PROVE  Cuts
  <1>1. vm \in VMs
    BY DEF IInv, Inv
  <1>2. vm.stack_top - vm.stack \in Int
    BY <1>1, VMsAreTyped
  <1>3. vm'.stack_top - vm'.stack = vm.stack_top - vm.stack
    OBVIOUS
  <1> DEFINE before == vm.stack_top - vm.stack
             after == vm'.stack_top - vm'.stack
  <1>4. before \in Int /\ after = before
    BY <1>2, <1>3
  <1> HIDE DEF before, after
  <1>5. after <= before
    BY <1>4
  <1>6. QED
    BY <1>5 DEF Cuts, before, after

LEMMA ThrowOnlyCuts ==
  ASSUME IInv, Running, Throw
  PROVE  Cuts
  <1>1. CASE vm.try_frames = <<>>
    BY <1>1, StayCuts DEF Throw
  <1>2. CASE vm.try_frames # <<>>
    <2> DEFINE tf == Last(vm.try_frames)
    <2>1. /\ Inv(vm, ip) /\ Tile(vm, ip) /\ vm.stack \in Int /\ vm.stack_top \in Int
          /\ vm.try_frames \in Seq(Handlers)
      BY WhileRunning, VMsAreTyped
    <2>2. vm'.stack_top = tf.stack_top /\ vm'.stack = vm.stack
      BY <1>2, ThrowCuts
    <2>3. Len(vm.try_frames) \in DOMAIN vm.try_frames /\ tf = vm.try_frames[Len(vm.try_frames)]
          /\ tf \in Handlers
      BY <1>2, <2>1, FrontFacts
    <2>4. tf.stack_top <= vm.stack_top /\ tf.stack_top \in Int
      BY <2>1, <2>3, HandlersBelowTop DEF Handlers
    <2>5. QED
      BY <2>1, <2>2, <2>4 DEF Cuts
  <1>3. QED
    BY <1>1, <1>2

\* A step that drops no handler has caught nothing.
LEMMA KeepsHandlers ==
  ASSUME IInv, Len(vm'.try_frames) \in Nat, Len(vm'.try_frames) >= Len(vm.try_frames)
  PROVE  ~Caught
  <1>1. Len(vm.try_frames) \in Nat
    BY ActivationsAreTyped DEF IInv
  <1>2. QED
    BY <1>1 DEF Caught

LEMMA SameHandlers ==
  ASSUME IInv, vm'.try_frames = vm.try_frames
  PROVE  ~Caught
  <1>1. Len(vm.try_frames) \in Nat
    BY ActivationsAreTyped DEF IInv
  <1>2. QED
    BY <1>1 DEF Caught

LEMMA PoppedHandlers ==
  ASSUME IInv, NEW n
  PROVE  Popped(n).try_frames = vm.try_frames /\ Popped(n).stack = vm.stack
         /\ Popped(n).stack_top = vm.stack_top - n /\ Popped(n).frames = vm.frames
         /\ DOMAIN Popped(n) = DOMAIN vm
  BY DEF IInv, Inv, VMs, Popped

LEMMA PushValueCuts ==
  ASSUME IInv, PushValue, Caught
  PROVE  Cuts
  <1>1. Running
    BY DEF PushValue
  <1>2. CASE Push(vm) = {}
    <2>1. Throw \/ vm' = vm
      BY <1>2 DEF PushValue, Abort
    <2>2. QED
      BY <1>1, <2>1, ThrowOnlyCuts, StayCuts
  <1>3. CASE Push(vm) # {}
    <2>1. vm' \in Push(vm)
      BY <1>3 DEF PushValue
    <2>2. Inv(vm, ip)
      BY DEF IInv
    <2>3. PICK u \in VMs : /\ vm' = [u EXCEPT !.stack_top = u.stack_top + 1]
                           /\ Len(u.try_frames) = Len(vm.try_frames)
      BY <2>1, <2>2, PushKeeps
    <2>4. vm'.try_frames = u.try_frames /\ Len(u.try_frames) \in Nat
      BY <2>3, VMsAreTyped DEF VMs
    <2>5. ~Caught
      BY <2>3, <2>4 DEF Caught
    <2>6. QED
      BY <2>5
  <1>4. QED
    BY <1>2, <1>3

LEMMA EnterTryCuts ==
  ASSUME IInv, EnterTry, Caught
  PROVE  Cuts
  <1>1. Running
    BY DEF EnterTry, Statement
  <1>2. CASE Throw
    BY <1>1, <1>2, ThrowOnlyCuts
  <1>3. CASE ~Throw
    <2>0. PICK v \in Push(vm) :
            \E h : vm' = [v EXCEPT !.try_frames = Append(v.try_frames, h)]
      BY <1>3 DEF EnterTry
    <2>1. PICK h : vm' = [v EXCEPT !.try_frames = Append(v.try_frames, h)]
      BY <2>0
    <2>2. Inv(vm, ip)
      BY DEF IInv
    <2>3. PICK u \in VMs : /\ v = [u EXCEPT !.stack_top = u.stack_top + 1]
                           /\ Len(u.try_frames) = Len(vm.try_frames)
      BY <2>0, <2>2, PushKeeps
    <2>4. u.try_frames \in Seq(Handlers) /\ u.stack_top \in Int
      BY <2>3, VMsAreTyped
    <2>5. v \in VMs /\ v.try_frames = u.try_frames
      BY <2>3, <2>4 DEF VMs
    <2>6. vm'.try_frames = Append(u.try_frames, h)
      BY <2>1, <2>5 DEF VMs
    <2>7. u.try_frames \in Seq(Handlers \cup {h}) /\ h \in Handlers \cup {h}
      BY <2>4
    <2>8. Len(u.try_frames) \in Nat /\ Len(vm'.try_frames) = Len(u.try_frames) + 1
      BY <2>6, <2>7, AppendFacts
    <2>9. ~Caught
      BY <2>3, <2>8, KeepsHandlers
    <2>10. QED
      BY <2>9
  <1>4. QED
    BY <1>2, <1>3

LEMMA EndTryCuts ==
  ASSUME IInv, EndTry
  PROVE  Cuts
  <1>1. Running
    BY DEF EndTry, Statement
  <1>2. CASE Throw
    BY <1>1, <1>2, ThrowOnlyCuts
  <1>3. CASE ~Throw
    <2> DEFINE v == Popped(ip.locals - Inner.start)
    <2>1. vm' = [v EXCEPT !.try_frames = Front(v.try_frames)]
      BY <1>3 DEF EndTry
    <2>2. /\ v.stack = vm.stack /\ v.stack_top = vm.stack_top - (ip.locals - Inner.start)
          /\ DOMAIN v = DOMAIN vm
      BY PoppedHandlers
    <2>3. /\ vm \in VMs /\ vm.stack \in Int /\ vm.stack_top \in Int /\ ip.locals \in Nat
      BY <1>1, WhileRunning
    <2> HIDE DEF v
    <2>4. vm'.stack = v.stack /\ vm'.stack_top = v.stack_top
      BY <2>1, <2>2, <2>3 DEF VMs
    <2>5. Inner.start \in Nat /\ Inner.start <= ip.locals
      <3>1. Len(ip.scopes) \in 1 .. Len(ip.scopes) /\ Inner = ip.scopes[Len(ip.scopes)]
        BY <1>1, ScopesHere
      <3>2. QED
        BY <1>1, <3>1, ScopesHere
    <2>6. QED
      BY <2>2, <2>3, <2>4, <2>5 DEF Cuts
  <1>4. QED
    BY <1>2, <1>3

LEMMA CallCuts ==
  ASSUME IInv, CallProc, Caught
  PROVE  Cuts
  <1>1. PICK args, outs : Call(args, outs)
    BY DEF CallProc
  <1>2. CASE Abort
    BY <1>2, StayCuts DEF Abort
  <1>3. CASE ~Abort
    <2>1. PICK s, b : vm' = [[vm EXCEPT !.frames = s] EXCEPT !.frame_base = b]
      BY <1>1, <1>3 DEF Call
    <2>2. vm \in VMs
      BY DEF IInv, Inv
    <2>3. vm'.try_frames = vm.try_frames
      BY <2>1, <2>2 DEF VMs
    <2>4. QED
      BY <2>3, SameHandlers
  <1>4. QED
    BY <1>2, <1>3

LEMMA ReturnFromCuts ==
  ASSUME IInv, Running, Caught, NEW v, v.try_frames = vm.try_frames, DOMAIN v = DOMAIN vm,
         ReturnFrom(v)
  PROVE  Cuts
  <1>1. CASE Throw
    BY <1>1, ThrowOnlyCuts
  <1>2. CASE ~Throw
    <2>1. \/ vm' = v
          \/ vm' = [v EXCEPT !.frames     = Front(v.frames),
                            !.frame_base = Last(v.frames).frame_base,
                            !.stack_top  = v.frame_base + 1]
      BY <1>2 DEF ReturnFrom
    <2>2. "try_frames" \in DOMAIN v
      BY DEF IInv, Inv, VMs
    <2>3. vm'.try_frames = vm.try_frames
      BY <2>1, <2>2
    <2>4. QED
      BY <2>3, SameHandlers
  <1>3. QED
    BY <1>1, <1>2

LEMMA StepCuts ==
  ASSUME IInv, Next, Caught
  PROVE  Cuts
  <1>1. CASE Raise
    BY <1>1, ThrowOnlyCuts DEF Raise
  <1>2. CASE PushValue
    BY <1>2, PushValueCuts
  <1>3. CASE \E n : vm' = Popped(n)
    BY <1>3, PoppedHandlers, SameHandlers
  <1>4. CASE vm' = vm
    BY <1>4, StayCuts
  <1>5. CASE EnterTry
    BY <1>5, EnterTryCuts
  <1>6. CASE EndTry
    BY <1>6, EndTryCuts
  <1>7. CASE CallProc
    BY <1>7, CallCuts
  <1>8. CASE Return
    BY <1>8, ReturnFromCuts DEF Return
  <1>9. CASE FallOff
    <2>1. Running /\ ReturnFrom(Popped(ip.locals - Floor(Inner)))
      BY <1>9 DEF FallOff, Statement
    <2>2. QED
      BY <2>1, PoppedHandlers, ReturnFromCuts
  <1>10. CASE PopValue \/ LeaveBlock \/ LoopAgain \/ LoopExit \/ Break \/ Continue \/ EndCatch
    <2>1. \E n : vm' = Popped(n)
      BY <1>10 DEF PopValue, LeaveBlock, LoopAgain, LoopExit, Break, Continue, EndCatch, Jump
    <2>2. QED
      BY <2>1, <1>3
  <1>11. CASE Declare \/ Enter("block", 0) \/ \E n \in 0 .. HiddenMax : Enter("loop", n)
    <2>1. vm' = vm
      BY <1>11 DEF Declare, Enter
    <2>2. QED
      BY <2>1, <1>4
  <1>12. QED
    BY <1>1, <1>2, <1>5, <1>6, <1>7, <1>8, <1>9, <1>10, <1>11 DEF Next

-----------------------------------------------------------------------------
(* The theorems.                                                             *)

(* vm_grow keeps the capacity between its initial value and STACK_MAX and    *)
(* the block where realloc put it, whatever the program does.                *)
THEOREM VmIsTyped ==
  ASSUME Orderly
  PROVE  Spec => []TypeOK
  <1>1. IInv => TypeOK
    BY InvIsTyped
  <1>2. QED
    BY <1>1, IInvHolds, PTL

(* A slot number the compiler gave a local always names that local: the      *)
(* bases that OP_CALL and OP_RETURN set, the operands that every instruction *)
(* pushes and pops, and the locals that each way out of a scope pops agree   *)
(* with the compiler's count at every place of every activation.             *)
THEOREM LocalsAreWhereCompiled ==
  ASSUME Orderly
  PROVE  Spec => []FramesTile
  <1>1. IInv => FramesTile
    BY InvTiles
  <1>2. QED
    BY <1>1, IInvHolds, PTL

(* vm_grow re-bases all it must: no frame and no handler is left pointing    *)
(* into a block that realloc has freed.                                      *)
THEOREM NoPointerIsLeftBehind ==
  ASSUME Orderly
  PROVE  Spec => []PointersInBlock
  <1>1. IInv => PointersInBlock
    BY InvBounds
  <1>2. QED
    BY <1>1, IInvHolds, PTL

(* OP_TRY and OP_END_TRY pair up across calls, returns and errors: the       *)
(* handlers of vm_catch are those of the try blocks execution is inside of.  *)
THEOREM HandlersMatchTries ==
  ASSUME Orderly
  PROVE  Spec => []HandlersAreOpen
  <1>1. IInv => HandlersAreOpen
    BY InvHandlers
  <1>2. QED
    BY <1>1, IInvHolds, PTL

(* THROW ends the run only outside every try block, even on a full stack:    *)
(* the placeholder of OP_TRY leaves the message a slot.  The failures that   *)
(* end it past the handlers, without THROW, happen only when the value stack *)
(* or the frame array is at its cap.                                         *)
THEOREM OnlyCapsPassATry ==
  ASSUME Orderly
  PROVE  Spec => []ErrorsReachHandlers
  <1>1. Init => Overflows
    BY DEF Init, Overflows
  <1>2. IInv /\ Overflows /\ [Next]_vars => Overflows'
    BY StepOverflows
  <1>3. IInv /\ Overflows => ErrorsReachHandlers
    BY InvReaches DEF Overflows, ErrorsReachHandlers
  <1>4. QED
    BY <1>1, <1>2, <1>3, IInvHolds, PTL DEF Spec

(* vm_catch cuts the stack back to a height at or below the one where the    *)
(* error occurred, however many activations lie between.                     *)
THEOREM CatchCuts ==
  ASSUME Orderly
  PROVE  Spec => CatchOnlyCuts
  <1>1. ASSUME IInv, [Next]_vars
        PROVE  [Caught => vm'.stack_top - vm'.stack <= vm.stack_top - vm.stack]_vars
    BY <1>1, StepCuts DEF Cuts
  <1>2. QED
    BY <1>1, IInvHolds, PTL DEF Spec, CatchOnlyCuts

=============================================================================
