----------------------------- MODULE PointerProofs -----------------------------
(***************************************************************************)
(* Proofs about NxPointer, CursorDraw and MouseSamples.                    *)
(*                                                                         *)
(* The frame, for every number of fingers and every length of the queues:  *)
(* the gyro yields to the mouse within it, and the events it queues bring  *)
(* the engine's view of each pointer to the module's (Fits).               *)
(*                                                                         *)
(* The overlay, for every set of buffer objects and every number of calls  *)
(* of the engine: what the overlay has put into the context (Drawn) is     *)
(* what it saved and takes back, or is excepted by EngineStateKept.        *)
(*                                                                         *)
(* The mouse, for every set of samples and every size of the ring: what    *)
(* do_mouse has added up is the sum over the samples it has seen.          *)
(***************************************************************************)
EXTENDS NxPointer, CursorDraw, MouseSamples, FiniteSetTheorems, SequenceTheorems, TLAPS

\* Nothing has moved the cursor before do_mouse, only the mouse before do_gyro;
\* a mouse that moved it in this frame is connected until the next.
OneMover ==
    /\ stage \in {"pad", "touch", "mouse", "gyro", "cursor", "feed"}
    /\ ~(mouse /\ gyroOn)
    /\ stage \in {"touch", "mouse"} => moved = {}
    /\ stage = "gyro" => moved \subseteq {"mouse"}
    /\ stage = "gyro" /\ "mouse" \in moved => mouse
    /\ moved # {"mouse", "gyro"}

LEMMA OneMoverKept == OneMover /\ [Next]_nvars => OneMover'
<1> SUFFICES ASSUME OneMover, [Next]_nvars PROVE OneMover'
  OBVIOUS
<1> USE DEF OneMover
<1>1. CASE Dock
  BY <1>1 DEF Dock
<1>2. CASE Plug
  BY <1>2 DEF Plug
<1>3. CASE PadStage
  <2>1. mouse => gyroOn' = gyroOn
    BY <1>3 DEF PadStage, GyroAfter
  <2>2. stage' = "touch" /\ mouse' = mouse /\ moved' = {}
    BY <1>3 DEF PadStage
  <2> QED BY <2>1, <2>2
<1>4. CASE do_touch
  <2>1. stage = "touch" /\ stage' = "mouse" /\ UNCHANGED <<mouse, gyroOn, moved>>
    BY <1>4 DEF do_touch
  <2> QED BY <2>1
<1>5. CASE MouseSilent
  BY <1>5 DEF MouseSilent
<1>6. CASE MouseSampled
  <2>1. stage = "mouse" /\ stage' = "gyro" /\ moved = {}
    BY <1>6 DEF MouseSampled
  <2>2. PICK flag, motion, other, left \in BOOLEAN :
          /\ mouse' = (flag \/ motion \/ other \/ left)
          /\ gyroOn' = (gyroOn /\ ~((flag \/ motion \/ other \/ left) /\ ~mouse))
          /\ moved' = IF seen /\ motion THEN moved \cup {"mouse"} ELSE moved
    BY <1>6 DEF MouseSampled
  <2>3. ~(mouse' /\ gyroOn')
    BY <2>2
  <2>4. moved' \subseteq {"mouse"} /\ ("mouse" \in moved' => mouse')
    BY <2>1, <2>2
  <2> QED BY <2>1, <2>3, <2>4
<1>7. CASE do_gyro
  <2>1. stage = "gyro" /\ stage' = "cursor" /\ UNCHANGED <<mouse, gyroOn>>
    BY <1>7 DEF do_gyro
  <2>2. CASE moved' = moved
    BY <2>1, <2>2
  <2>3. CASE ~mouse /\ moved' = moved \cup {"gyro"}
    BY <2>1, <2>3
  <2> QED BY <1>7, <2>2, <2>3 DEF do_gyro
<1>8. CASE CursorStage
  <2>1. stage' = "feed" /\ UNCHANGED <<mouse, gyroOn, moved>>
    BY <1>8 DEF CursorStage
  <2> QED BY <2>1
<1>9. CASE feed_pointer
  <2>1. stage' = "pad" /\ UNCHANGED <<mouse, gyroOn, moved>>
    BY <1>9 DEF feed_pointer
  <2> QED BY <2>1
<1>10. CASE UNCHANGED nvars
  BY <1>10 DEF nvars
<1> QED BY <1>1, <1>2, <1>3, <1>4, <1>5, <1>6, <1>7, <1>8, <1>9, <1>10 DEF Next, do_mouse

\* Gyro pointing is never on together with a connected mouse, and no frame moves
\* the cursor by both.
THEOREM MouseHasPriority == Spec => []GyroYields
<1>1. Init => OneMover
  BY DEF Init, OneMover
<1>2. OneMover => GyroYields
  BY DEF OneMover, GyroYields
<1> QED BY <1>1, <1>2, OneMoverKept, PTL DEF Spec

-------------------------------------------------------------------------------
(* The events of a frame. *)

Finger == 0..(TouchSlots - 1)

Events == [id : 0..TouchSlots, phase : {"down", "move", "up"}]

EventsOf(s) == {s[i] : i \in DOMAIN s}

Queued == EventsOf(ev)

\* What the module believes of a pointer, which the engine is to believe as well.
Pressed(p) == IF p = Cursor THEN tapPrev ELSE p < touches

Agrees(p) == p \in engineDown <=> Pressed(p)

\* The events in the queue bring the engine from what it believes of p to that.
Fits(p) ==
    /\ Event(p, "down") \in Queued <=> Pressed(p) /\ p \notin engineDown
    /\ Event(p, "move") \in Queued => Pressed(p) /\ p \in engineDown
    /\ Event(p, "up") \in Queued <=> ~Pressed(p) /\ p \in engineDown

PointerTypes ==
    /\ mouseTap \in BOOLEAN /\ tapPrev \in BOOLEAN /\ cut \in BOOLEAN
    /\ touches \in 0..TouchSlots /\ engineDown \subseteq 0..TouchSlots
    /\ ev \in Seq(Events)
    /\ stage \in {"pad", "touch", "mouse", "gyro", "cursor", "feed"}

\* The queue is filled in two stages: first the fingers' events, one each at most,
\* then the cursor's.  It never overflows, so none of them is lost.
PointerInv ==
    /\ PointerTypes /\ PhasesFit
    /\ stage \in {"pad", "touch"} => \A p \in Finger : Agrees(p)
    /\ stage = "touch" => ev = <<>>
    /\ stage \in {"mouse", "gyro", "cursor", "feed"} => \A p \in Finger : Fits(p)
    /\ stage \in {"mouse", "gyro", "cursor"} =>
          Len(ev) <= TouchSlots /\ \A e \in Queued : e.id # Cursor
    /\ stage # "feed" => cut \/ Agrees(Cursor)
    /\ stage = "feed" => Len(ev) <= TouchSlots + 1 /\ (cut \/ Fits(Cursor))

\* An event is its pointer and its phase.
LEMMA EventIs ==
  /\ \A e \in Events : e = Event(e.id, e.phase) /\ e.id \in 0..TouchSlots
                       /\ e.phase \in {"down", "move", "up"}
  /\ \A p, f : Event(p, f).id = p /\ Event(p, f).phase = f
  /\ \A p \in 0..TouchSlots, f \in {"down", "move", "up"} : Event(p, f) \in Events
  /\ \A p, q, f, g : Event(p, f) = Event(q, g) <=> p = q /\ f = g
  BY DEF Events, Event

\* A queue that does not exceed its bound keeps all.
LEMMA AtMostAll ==
  ASSUME NEW S, NEW s \in Seq(S), NEW n \in Nat, Len(s) <= n
  PROVE  AtMost(s, n) = s
<1>1. Len(s) \in Nat /\ \A i \in 1..Len(s) : s[i] \in S
  BY ElementOfSeq
<1>2. AtMost(s, n) = SubSeq(s, 1, Len(s))
  BY DEF AtMost
<1>3. /\ SubSeq(s, 1, Len(s)) \in Seq(S) /\ Len(SubSeq(s, 1, Len(s))) = Len(s)
      /\ \A i \in 1..Len(s) : SubSeq(s, 1, Len(s))[i] = s[i]
  BY <1>1
<1> QED BY <1>2, <1>3, SeqEqual

\* What do_touch pushes for count fingers where there were some before.
TouchEvents(count, was) ==
    [i \in 1..count |-> Event(i - 1, IF i <= was THEN "move" ELSE "down")]
    \o [i \in 1..(was - count) |-> Event(count + i - 1, "up")]

\* The same by index: first the fingers that are down, then those that were lifted.
ByFinger(s, count, was) ==
    /\ s \in Seq(Events) /\ Len(s) = IF was > count THEN was ELSE count
    /\ \A i \in 1..count : s[i] = Event(i - 1, IF i <= was THEN "move" ELSE "down")
    /\ \A i \in (count + 1)..was : s[i] = Event(i - 1, "up")

\* They are the same queue.
LEMMA TouchQueue ==
  ASSUME NEW count \in 0..TouchSlots, NEW was \in 0..TouchSlots
  PROVE  ByFinger(TouchEvents(count, was), count, was)
<1> DEFINE k == IF was > count THEN was - count ELSE 0
           a == [i \in 1..count |-> Event(i - 1, IF i <= was THEN "move" ELSE "down")]
           b == [i \in 1..(was - count) |-> Event(count + i - 1, "up")]
<1>1. count \in Nat /\ was \in Nat /\ count <= TouchSlots /\ was <= TouchSlots /\ TouchSlots \in Nat
  BY SlotAssumption
<1>2. /\ k \in Nat /\ 1..(was - count) = 1..k /\ count + k <= TouchSlots
      /\ (was > count => k = was - count) /\ (was <= count => k = 0)
  BY <1>1
<1>3. a \in Seq(Events) /\ Len(a) = count
  <2>1. ASSUME NEW i \in 1..count
        PROVE  Event(i - 1, IF i <= was THEN "move" ELSE "down") \in Events
    <3>1. i - 1 \in 0..TouchSlots
      BY <1>1
    <3> QED BY <3>1, EventIs
  <2>2. a \in [1..count -> Events]
    BY <2>1
  <2> HIDE DEF a
  <2> QED BY <1>1, <2>2
<1> HIDE DEF k
<1>4. b \in Seq(Events) /\ Len(b) = k
  <2>1. \A i \in 1..k : count + i - 1 \in 0..TouchSlots
    BY <1>1, <1>2
  <2>2. \A i \in 1..k : Event(count + i - 1, "up") \in Events
    BY <2>1, EventIs
  <2>3. b \in [1..k -> Events]
    BY <1>2, <2>2
  <2> HIDE DEF b
  <2> QED BY <1>2, <2>3
<1>5. \A i \in 1..count : a[i] = Event(i - 1, IF i <= was THEN "move" ELSE "down")
  OBVIOUS
<1>6. \A i \in 1..k : b[i] = Event(count + i - 1, "up")
  BY <1>2
<1>7. TouchEvents(count, was) = a \o b
  BY DEF TouchEvents
<1> HIDE DEF a, b
<1>8. PICK c \in Seq(Events) :
        /\ c = TouchEvents(count, was) /\ Len(c) = count + k
        /\ \A i \in 1..(count + k) : c[i] = IF i <= count THEN a[i] ELSE b[i - count]
  <2>1. /\ a \o b \in Seq(Events) /\ Len(a \o b) = Len(a) + Len(b)
        /\ \A i \in 1..(Len(a) + Len(b)) : (a \o b)[i] = IF i <= Len(a) THEN a[i] ELSE b[i - Len(a)]
    BY <1>3, <1>4, ConcatProperties, Zenon
  <2> QED BY <1>3, <1>4, <1>7, <2>1
<1>9. Len(c) = IF was > count THEN was ELSE count
  <2>1. count + k = IF was > count THEN was ELSE count
    BY <1>1, <1>2
  <2> QED BY <1>8, <2>1
<1>10. \A i \in 1..count : c[i] = Event(i - 1, IF i <= was THEN "move" ELSE "down")
  BY <1>1, <1>2, <1>5, <1>8
<1>11. ASSUME NEW i \in (count + 1)..was PROVE c[i] = Event(i - 1, "up")
  <2>1. i \in 1..(count + k) /\ ~(i <= count) /\ i - count \in 1..k /\ count + (i - count) - 1 = i - 1
    BY <1>1, <1>2
  <2> QED BY <1>6, <1>8, <2>1
<1> QED BY <1>8, <1>9, <1>10, <1>11 DEF ByFinger

\* So a finger's event is what tells its new state from its old one.
LEMMA TouchFits ==
  ASSUME NEW count \in 0..TouchSlots, NEW was \in 0..TouchSlots,
         NEW s, ByFinger(s, count, was),
         NEW p \in Finger
  PROVE  /\ Event(p, "down") \in EventsOf(s) <=> p < count /\ ~(p < was)
         /\ Event(p, "move") \in EventsOf(s) => p < count /\ p < was
         /\ Event(p, "up") \in EventsOf(s) <=> ~(p < count) /\ p < was
<1> DEFINE sent == {s[i] : i \in DOMAIN s}
<1> USE DEF ByFinger
<1>1. count \in Nat /\ was \in Nat /\ Len(s) \in Nat /\ p \in Nat
  BY SlotAssumption DEF Finger
<1>2. DOMAIN s = 1..Len(s)
  BY LenProperties
<1>3. \A i \in 1..Len(s) : i \in 1..count \/ i \in (count + 1)..was
  BY <1>1
<1>4. ASSUME NEW i \in 1..Len(s), NEW f \in {"down", "move", "up"}, s[i] = Event(p, f)
      PROVE  i = p + 1 /\ f = IF i \in 1..count THEN (IF i <= was THEN "move" ELSE "down") ELSE "up"
  <2>1. CASE i \in 1..count
    <3>1. Event(p, f) = Event(i - 1, IF i <= was THEN "move" ELSE "down")
      BY <1>4, <2>1
    <3>2. p = i - 1 /\ f = IF i <= was THEN "move" ELSE "down"
      BY <3>1, EventIs
    <3> QED BY <1>1, <2>1, <3>2
  <2>2. CASE i \in (count + 1)..was
    <3>1. Event(p, f) = Event(i - 1, "up")
      BY <1>4, <2>2
    <3>2. p = i - 1 /\ f = "up"
      BY <3>1, EventIs
    <3> QED BY <1>1, <2>2, <3>2
  <2> QED BY <1>3, <2>1, <2>2
<1>5. ASSUME NEW f \in {"down", "move", "up"}, Event(p, f) \in sent
      PROVE  /\ p + 1 \in 1..Len(s)
             /\ f = IF p < count THEN (IF p < was THEN "move" ELSE "down") ELSE "up"
  <2>1. PICK i \in 1..Len(s) : s[i] = Event(p, f)
    BY <1>2, <1>5
  <2>2. i = p + 1 /\ f = IF i \in 1..count THEN (IF i <= was THEN "move" ELSE "down") ELSE "up"
    BY <1>4, <2>1
  <2> QED BY <1>1, <2>2
<1>6. ASSUME p < count PROVE Event(p, IF p < was THEN "move" ELSE "down") \in sent
  <2>1. PICK i \in 1..count : i \in 1..Len(s) /\ (i <= was <=> p < was) /\ i - 1 = p
    BY <1>1, <1>6
  <2>2. s[i] = Event(p, IF p < was THEN "move" ELSE "down")
    BY <2>1
  <2> QED BY <1>2, <2>1, <2>2
<1>7. ASSUME ~(p < count), p < was PROVE Event(p, "up") \in sent
  <2>1. PICK i \in (count + 1)..was : i \in 1..Len(s) /\ i - 1 = p
    BY <1>1, <1>7
  <2>2. s[i] = Event(p, "up")
    BY <2>1
  <2> QED BY <1>2, <2>1, <2>2
<1> HIDE DEF sent
<1>8. Event(p, "down") \in sent <=> p < count /\ ~(p < was)
  BY <1>5, <1>6
<1>9. Event(p, "move") \in sent => p < count /\ p < was
  BY <1>5
<1>10. Event(p, "up") \in sent <=> ~(p < count) /\ p < was
  <2>1. Event(p, "up") \in sent => ~(p < count) /\ p < was
    <3>1. p + 1 \in 1..Len(s) /\ ~(p < count) => p < was
      BY <1>1
    <3> QED BY <1>5, <3>1
  <2> QED BY <1>7, <2>1
<1> QED BY <1>8, <1>9, <1>10 DEF sent, EventsOf

\* do_touch.
LEMMA TouchKept == PointerInv /\ do_touch => PointerInv'
<1> SUFFICES ASSUME PointerInv, do_touch PROVE PointerInv'
  OBVIOUS
<1>1. /\ stage = "touch" /\ stage' = "mouse" /\ ev = <<>> /\ \A p \in Finger : Agrees(p)
      /\ UNCHANGED <<mouseTap, tapPrev, engineDown, bad, cut>>
  BY DEF PointerInv, do_touch, engine
<1>2. PointerTypes /\ PhasesFit /\ (cut \/ Agrees(Cursor)) /\ TouchSlots \in Nat /\ EvCap \in Nat
      /\ TouchSlots <= EvCap
  BY <1>1, SlotAssumption, QueueAssumption DEF PointerInv
<1>3. \A p \in Finger : p # Cursor /\ p \in 0..TouchSlots
  BY <1>2 DEF Finger, Cursor
<1>4. \A p \in Finger : p \in engineDown <=> p < touches
  BY <1>1, <1>3 DEF Agrees, Pressed
<1>5. /\ ev' \in Seq(Events) /\ Len(ev') <= TouchSlots /\ touches' \in 0..TouchSlots
      /\ (\A e \in Queued' : e.id # Cursor)
      /\ \A p \in Finger : Fits(p)'
  <2>1. CASE wasDocked = 1
    <3>1. touches' = touches /\ ev' = <<>>
      BY <1>1, <2>1 DEF do_touch
    <3>2. ev' \in Seq(Events) /\ Len(ev') = 0 /\ Queued' = {}
      BY <3>1 DEF Queued, EventsOf
    <3>3. \A p \in Finger : Fits(p)'
      BY <1>1, <1>3, <1>4, <3>1, <3>2 DEF Fits, Pressed
    <3> QED BY <1>2, <3>1, <3>2, <3>3 DEF PointerTypes
  <2>2. CASE wasDocked # 1
    <3> PICK was \in 0..TouchSlots : was = touches
      BY <1>2 DEF PointerTypes
    <3>1. PICK count \in 0..TouchSlots : ev' = Pushed(TouchEvents(count, was)) /\ touches' = count
      <4>1. PICK fingers \in 0..MaxTouches :
              LET count == IF fingers > TouchSlots THEN TouchSlots ELSE fingers IN
              ev' = Pushed(TouchEvents(count, was)) /\ touches' = count
        BY <2>2 DEF do_touch, TouchEvents
      <4>2. (IF fingers > TouchSlots THEN TouchSlots ELSE fingers) \in 0..TouchSlots
        BY SlotAssumption
      <4> QED BY <4>1, <4>2
    <3>2. PICK s : s = TouchEvents(count, was) /\ ByFinger(s, count, was)
      BY TouchQueue
    <3>3. s \in Seq(Events) /\ Len(s) = IF was > count THEN was ELSE count
      BY <3>2 DEF ByFinger
    <3>4. ev' = s
      <4>1. ev' = Pushed(s)
        BY <3>1, <3>2
      <4>2. ev \o s = s
        BY <1>1, <3>3
      <4>3. Len(s) <= EvCap
        BY <1>2, <3>3
      <4> QED BY <1>2, <3>3, <4>1, <4>2, <4>3, AtMostAll DEF Pushed
    <3>5. Len(s) <= TouchSlots
      BY <1>2, <3>3
    <3>6. Queued' = EventsOf(s)
      BY <3>4 DEF Queued
    <3>7. \A p \in Finger : Fits(p)'
      <4> SUFFICES ASSUME NEW p \in Finger PROVE Fits(p)'
        OBVIOUS
      <4>1. /\ Event(p, "down") \in Queued' <=> p < count /\ ~(p < touches)
            /\ Event(p, "move") \in Queued' => p < count /\ p < touches
            /\ Event(p, "up") \in Queued' <=> ~(p < count) /\ p < touches
        <5>1. /\ Event(p, "down") \in EventsOf(s) <=> p < count /\ ~(p < was)
              /\ Event(p, "move") \in EventsOf(s) => p < count /\ p < was
              /\ Event(p, "up") \in EventsOf(s) <=> ~(p < count) /\ p < was
          BY <3>2, TouchFits
        <5> QED BY <3>6, <5>1
      <4>2. (Pressed(p)' <=> p < count) /\ (p \in engineDown' <=> p < touches)
        BY <1>1, <1>3, <1>4, <3>1 DEF Pressed
      <4> QED BY <4>1, <4>2 DEF Fits
    <3>8. \A e \in Queued' : e.id # Cursor
      <4> SUFFICES ASSUME NEW i \in DOMAIN s PROVE s[i].id # Cursor
        BY <3>6 DEF EventsOf
      <4>1. i \in 1..Len(s)
        BY <3>3, LenProperties
      <4>2. count \in Nat /\ was \in Nat /\ was <= TouchSlots /\ count <= TouchSlots
        BY <1>2
      <4>3. CASE i \in 1..count
        BY <3>2, <4>2, <4>3, EventIs DEF Cursor, ByFinger
      <4>4. CASE i \in (count + 1)..was
        BY <3>2, <4>2, <4>4, EventIs DEF Cursor, ByFinger
      <4>5. i \in 1..count \/ i \in (count + 1)..was
        BY <3>3, <4>1, <4>2
      <4> QED BY <4>3, <4>4, <4>5
    <3> QED BY <3>1, <3>3, <3>4, <3>5, <3>7, <3>8
  <2> QED BY <2>1, <2>2
<1>6. PointerTypes' /\ PhasesFit' /\ (cut' \/ Agrees(Cursor)')
  BY <1>1, <1>2, <1>5 DEF PointerTypes, PhasesFit, Agrees, Pressed
<1> QED BY <1>1, <1>5, <1>6 DEF PointerInv

\* push, for the cursor's one event: the queue has room for it.
WithTap(q, f) == AtMost(q \o [i \in DOMAIN <<f>> |-> Event(Cursor, <<f>>[i])], EvCap)

LEMMA CursorPushed ==
  ASSUME NEW q \in Seq(Events), Len(q) <= TouchSlots, NEW f \in {"down", "move", "up"}
  PROVE  /\ WithTap(q, f) \in Seq(Events) /\ Len(WithTap(q, f)) <= TouchSlots + 1
         /\ EventsOf(WithTap(q, f)) = EventsOf(q) \cup {Event(Cursor, f)}
<1>1. Len(q) \in Nat /\ TouchSlots \in Nat /\ EvCap \in Nat /\ TouchSlots + 1 <= EvCap
      /\ DOMAIN q = 1..Len(q)
  BY SlotAssumption, QueueAssumption, LenProperties
<1>2. Event(Cursor, f) \in Events
  BY SlotAssumption, EventIs DEF Cursor
<1>3. PICK b \in Seq(Events) :
        /\ b = [i \in DOMAIN <<f>> |-> Event(Cursor, <<f>>[i])]
        /\ Len(b) = 1 /\ b[1] = Event(Cursor, f)
  <2>1. DOMAIN <<f>> = 1..1 /\ <<f>>[1] = f
    OBVIOUS
  <2>2. [i \in DOMAIN <<f>> |-> Event(Cursor, <<f>>[i])] = [i \in 1..1 |-> Event(Cursor, f)]
    BY <2>1
  <2>3. [i \in 1..1 |-> Event(Cursor, f)] \in [1..1 -> Events]
    BY <1>2
  <2>4. /\ [i \in 1..1 |-> Event(Cursor, f)] \in Seq(Events)
        /\ Len([i \in 1..1 |-> Event(Cursor, f)]) = 1
        /\ [i \in 1..1 |-> Event(Cursor, f)][1] = Event(Cursor, f)
    BY <2>3
  <2> QED BY <2>2, <2>4, Zenon
<1>4. PICK c \in Seq(Events) :
        /\ c = q \o b /\ Len(c) = Len(q) + 1
        /\ \A i \in 1..(Len(q) + 1) : c[i] = IF i <= Len(q) THEN q[i] ELSE b[i - Len(q)]
  <2>1. /\ q \o b \in Seq(Events) /\ Len(q \o b) = Len(q) + Len(b)
        /\ \A i \in 1..(Len(q) + Len(b)) : (q \o b)[i] = IF i <= Len(q) THEN q[i] ELSE b[i - Len(q)]
    BY ConcatProperties, Zenon
  <2> QED BY <1>3, <2>1
<1>5. WithTap(q, f) = c
  <2>1. WithTap(q, f) = AtMost(c, EvCap)
    BY <1>3, <1>4 DEF WithTap
  <2>2. Len(c) <= EvCap
    BY <1>1, <1>4
  <2> QED BY <1>1, <2>1, <2>2, AtMostAll
<1>6. DOMAIN c = 1..(Len(q) + 1)
  BY <1>4, LenProperties
<1>7. \A i \in 1..Len(q) : i \in 1..(Len(q) + 1) /\ c[i] = q[i]
  BY <1>1, <1>4
<1>8. Len(q) + 1 \in 1..(Len(q) + 1) /\ c[Len(q) + 1] = Event(Cursor, f)
  BY <1>1, <1>3, <1>4
<1>9. \A i \in 1..(Len(q) + 1) : i \in 1..Len(q) \/ i = Len(q) + 1
  BY <1>1
<1>10. EventsOf(c) = EventsOf(q) \cup {Event(Cursor, f)}
  <2>1. \A i \in DOMAIN c : c[i] \in EventsOf(q) \cup {Event(Cursor, f)}
    BY <1>1, <1>6, <1>7, <1>8, <1>9 DEF EventsOf
  <2>2. \A i \in DOMAIN q : q[i] \in EventsOf(c)
    BY <1>1, <1>6, <1>7 DEF EventsOf
  <2>3. Event(Cursor, f) \in EventsOf(c)
    BY <1>6, <1>8 DEF EventsOf
  <2> QED BY <2>1, <2>2, <2>3 DEF EventsOf
<1>11. Len(c) <= TouchSlots + 1
  BY <1>1, <1>4
<1> QED BY <1>5, <1>10, <1>11

\* The tap at the cursor: its event, or none.
LEMMA CursorKept == PointerInv /\ CursorStage => PointerInv'
<1> SUFFICES ASSUME PointerInv, CursorStage PROVE PointerInv'
  OBVIOUS
<1>1. /\ stage = "cursor" /\ stage' = "feed" /\ UNCHANGED <<mouseTap, touches, engineDown, bad>>
      /\ PointerTypes /\ PhasesFit /\ (cut \/ Agrees(Cursor))
      /\ Len(ev) <= TouchSlots /\ (\A e \in Queued : e.id # Cursor) /\ \A p \in Finger : Fits(p)
  BY DEF PointerInv, CursorStage, engine
<1>2. /\ ev \in Seq(Events) /\ Len(ev) \in Nat /\ TouchSlots \in Nat /\ EvCap \in Nat
      /\ TouchSlots + 1 <= EvCap /\ \A p \in Finger : p # Cursor
  BY <1>1, SlotAssumption, QueueAssumption DEF PointerTypes, Finger, Cursor
<1>3. PICK held \in BOOLEAN :
        LET tap   == held \/ mouseTap
            phase == IF tap /\ ~tapPrev THEN <<"down">>
                     ELSE IF tap THEN <<"move">>
                     ELSE IF tapPrev THEN <<"up">> ELSE <<>>
        IN  IF visible > 0
              THEN /\ tapPrev' = tap
                   /\ ev' = Pushed([i \in DOMAIN phase |-> Event(Cursor, phase[i])])
                   /\ cut' = cut
              ELSE /\ tapPrev' = FALSE
                   /\ ev' = ev
                   /\ cut' = (cut \/ tapPrev)
  BY DEF CursorStage
<1>4. \A p \in Finger : Pressed(p)' <=> Pressed(p)
  BY <1>1, <1>2 DEF Pressed
<1>5. \A f : Event(Cursor, f) \notin Queued
  BY <1>1, EventIs
<1>6. /\ ev' \in Seq(Events) /\ Len(ev') <= TouchSlots + 1
      /\ tapPrev' \in BOOLEAN /\ cut' \in BOOLEAN /\ (cut => cut')
      /\ (\A p \in Finger : Fits(p)') /\ (cut' \/ Fits(Cursor)')
  <2>1. CASE ~(visible > 0)
    <3>1. tapPrev' = FALSE /\ ev' = ev /\ (cut' <=> cut \/ tapPrev) /\ Queued' = Queued
      BY <1>3, <2>1 DEF Queued, EventsOf
    <3>2. cut' \in BOOLEAN
      BY <1>1, <1>3, <2>1, Zenon DEF PointerTypes
    <3>3. \A p \in Finger : Fits(p)'
      BY <1>1, <1>4, <3>1 DEF Fits
    <3>4. cut' \/ Fits(Cursor)'
      BY <1>1, <1>5, <3>1 DEF Fits, Agrees, Pressed
    <3>5. ev' \in Seq(Events) /\ Len(ev') <= TouchSlots + 1
      <4>1. Len(ev) <= TouchSlots + 1
        BY <1>1, <1>2
      <4> QED BY <1>2, <3>1, <4>1
    <3> QED BY <3>1, <3>2, <3>3, <3>4, <3>5
  <2>2. CASE visible > 0
    <3> PICK tap \in BOOLEAN : tap = (held \/ mouseTap)
      BY <1>1, Zenon DEF PointerTypes
    <3>1. /\ tapPrev' = tap /\ cut' = cut
          /\ tap /\ ~tapPrev => ev' = Pushed([i \in DOMAIN <<"down">> |-> Event(Cursor, <<"down">>[i])])
          /\ tap /\ tapPrev => ev' = Pushed([i \in DOMAIN <<"move">> |-> Event(Cursor, <<"move">>[i])])
          /\ ~tap /\ tapPrev => ev' = Pushed([i \in DOMAIN <<"up">> |-> Event(Cursor, <<"up">>[i])])
          /\ ~tap /\ ~tapPrev => ev' = Pushed([i \in DOMAIN <<>> |-> Event(Cursor, <<>>[i])])
      BY <1>3, <2>2
    <3>2. cut' \in BOOLEAN /\ tapPrev' \in BOOLEAN
      BY <1>1, <3>1 DEF PointerTypes
    <3>3. ASSUME NEW f \in {"down", "move", "up"},
                 f = IF ~tap THEN "up" ELSE IF tapPrev THEN "move" ELSE "down",
                 ev' = Pushed([i \in DOMAIN <<f>> |-> Event(Cursor, <<f>>[i])]), tap \/ tapPrev
          PROVE  /\ ev' \in Seq(Events) /\ Len(ev') <= TouchSlots + 1
                 /\ (\A p \in Finger : Fits(p)') /\ (cut' \/ Fits(Cursor)')
      <4> PICK q \in Seq(Events) : q = ev /\ Len(q) <= TouchSlots
        BY <1>1, <1>2
      <4>1. ev' = WithTap(q, f)
        BY <3>3 DEF Pushed, WithTap
      <4>2. /\ WithTap(q, f) \in Seq(Events) /\ Len(WithTap(q, f)) <= TouchSlots + 1
            /\ EventsOf(WithTap(q, f)) = EventsOf(q) \cup {Event(Cursor, f)}
        BY CursorPushed
      <4>3. \A e : e \in Queued' <=> e \in Queued \/ e = Event(Cursor, f)
        BY <4>1, <4>2 DEF Queued
      <4>4. \A p \in Finger : \A g : Event(p, g) # Event(Cursor, f)
        BY <1>2, EventIs
      <4>5. \A p \in Finger : Fits(p)'
        BY <1>1, <1>4, <4>3, <4>4 DEF Fits
      <4>6. \A g : Event(Cursor, g) \in Queued' <=> g = f
        BY <1>5, <4>3, EventIs
      <4>7. cut' \/ Fits(Cursor)'
        <5> SUFFICES ASSUME ~cut PROVE Fits(Cursor)'
          BY <3>1
        <5>1. (Cursor \in engineDown' <=> tapPrev) /\ (Pressed(Cursor)' <=> tap)
          BY <1>1, <3>1 DEF Agrees, Pressed
        <5> QED BY <3>3, <4>6, <5>1 DEF Fits
      <4> QED BY <4>1, <4>2, <4>5, <4>7
    <3>4. ASSUME ~tap, ~tapPrev
          PROVE  /\ ev' \in Seq(Events) /\ Len(ev') <= TouchSlots + 1
                 /\ (\A p \in Finger : Fits(p)') /\ (cut' \/ Fits(Cursor)')
      <4>1. ev' = AtMost(ev \o [i \in DOMAIN <<>> |-> Event(Cursor, <<>>[i])], EvCap)
        BY <3>1, <3>4 DEF Pushed
      <4>2. [i \in DOMAIN <<>> |-> Event(Cursor, <<>>[i])] = <<>>
        OBVIOUS
      <4>3. ev \o <<>> = ev
        BY <1>2
      <4>4. ev' = ev
        BY <1>1, <1>2, <4>1, <4>2, <4>3, AtMostAll
      <4>5. Queued' = Queued
        BY <4>4 DEF Queued
      <4>6. \A p \in Finger : Fits(p)'
        BY <1>1, <1>4, <4>5 DEF Fits
      <4>7. cut' \/ Fits(Cursor)'
        BY <1>1, <1>5, <3>1, <3>4, <4>5 DEF Fits, Agrees, Pressed
      <4> QED BY <1>1, <1>2, <4>4, <4>6, <4>7
    <3>5. CASE tap /\ ~tapPrev
      BY <3>1, <3>2, <3>3, <3>5
    <3>6. CASE tap /\ tapPrev
      BY <3>1, <3>2, <3>3, <3>6
    <3>7. CASE ~tap /\ tapPrev
      BY <3>1, <3>2, <3>3, <3>7
    <3>8. CASE ~tap /\ ~tapPrev
      BY <3>1, <3>2, <3>4, <3>8
    <3> QED BY <3>5, <3>6, <3>7, <3>8
  <2> QED BY <2>1, <2>2
<1>7. PointerTypes' /\ PhasesFit'
  BY <1>1, <1>6 DEF PointerTypes, PhasesFit
<1> QED BY <1>1, <1>6, <1>7 DEF PointerInv

\* feed_pointer: every event reaches the engine, and fits what it believes.
LEMMA FeedKept == PointerInv /\ feed_pointer => PointerInv'
<1> SUFFICES ASSUME PointerInv, feed_pointer PROVE PointerInv'
  OBVIOUS
<1>1. /\ stage = "feed" /\ stage' = "pad" /\ UNCHANGED <<mouseTap, touches, tapPrev, ev, cut>>
      /\ PointerTypes /\ PhasesFit /\ (\A p \in Finger : Fits(p)) /\ (cut \/ Fits(Cursor))
      /\ Len(ev) <= TouchSlots + 1
  BY DEF PointerInv, feed_pointer
<1>2. /\ ev \in Seq(Events) /\ TouchSlots \in Nat /\ PollMax \in Nat
      /\ \A p \in 0..TouchSlots : p \in Finger \/ p = Cursor
      /\ Finger \subseteq 0..TouchSlots /\ Cursor \in 0..TouchSlots /\ Cursor \notin Finger
  BY <1>1, SlotAssumption, QueueAssumption DEF PointerTypes, Finger, Cursor
<1>3. Polled = ev
  BY <1>1, <1>2, AtMostAll, QueueAssumption DEF Polled
<1> DEFINE ids(f) == {e.id : e \in {s \in Queued : s.phase = f}}
<1>4. /\ engineDown' = (engineDown \cup ids("down")) \ ids("up")
      /\ bad' = bad \cup {Kind(e.id) : e \in {s \in Queued : (s.phase = "down") <=> (s.id \in engineDown)}}
  BY <1>3 DEF feed_pointer, Queued, EventsOf
<1>5. Queued \subseteq Events
  <2>1. \A i \in DOMAIN ev : ev[i] \in Events
    BY <1>2, LenProperties, ElementOfSeq
  <2> QED BY <2>1 DEF Queued, EventsOf
<1>6. \A p, f : p \in ids(f) <=> Event(p, f) \in Queued
  <2> SUFFICES ASSUME NEW p, NEW f PROVE p \in ids(f) <=> Event(p, f) \in Queued
    OBVIOUS
  <2>1. ASSUME p \in ids(f) PROVE Event(p, f) \in Queued
    <3>1. PICK e \in Queued : e.phase = f /\ e.id = p
      BY <2>1
    <3> QED BY <1>5, <3>1, EventIs
  <2>2. ASSUME Event(p, f) \in Queued PROVE p \in ids(f)
    BY <2>2, EventIs
  <2> QED BY <2>1, <2>2
<1>7. engineDown' \subseteq 0..TouchSlots
  <2>1. \A p : Event(p, "down") \in Queued => p \in 0..TouchSlots
    BY <1>5, EventIs
  <2> QED BY <1>1, <1>4, <1>6, <2>1 DEF PointerTypes
<1> HIDE DEF ids
<1>8. ASSUME NEW p \in 0..TouchSlots, Fits(p) PROVE Agrees(p)'
  <2>1. p \in engineDown' <=> (p \in engineDown \/ Event(p, "down") \in Queued) /\ Event(p, "up") \notin Queued
    BY <1>4, <1>6
  <2>2. Pressed(p)' <=> Pressed(p)
    BY <1>1 DEF Pressed
  <2> QED BY <1>8, <2>1, <2>2 DEF Fits, Agrees
<1>9. ASSUME NEW e \in Queued, Fits(e.id) PROVE ~((e.phase = "down") <=> (e.id \in engineDown))
  <2>1. e \in Events /\ e = Event(e.id, e.phase) /\ e.phase \in {"down", "move", "up"}
    BY <1>5, EventIs
  <2> QED BY <1>9, <2>1 DEF Fits
<1>10. PhasesFit'
  <2>1. \A e \in Queued : e.id \in 0..TouchSlots
    BY <1>5, EventIs
  <2>2. "touch" \notin bad'
    <3> SUFFICES ASSUME NEW e \in Queued, (e.phase = "down") <=> (e.id \in engineDown), Kind(e.id) = "touch"
                 PROVE  FALSE
      BY <1>1, <1>4 DEF PhasesFit
    <3>1. e.id \in Finger
      BY <1>2, <2>1 DEF Kind
    <3> QED BY <1>1, <1>9, <3>1
  <2>3. "cursor" \in bad' => cut'
    <3> SUFFICES ASSUME ~cut, NEW e \in Queued, (e.phase = "down") <=> (e.id \in engineDown)
                 PROVE  FALSE
      BY <1>1, <1>4 DEF PhasesFit
    <3>1. Fits(e.id)
      BY <1>1, <1>2, <2>1
    <3> QED BY <1>9, <3>1
  <2> QED BY <2>2, <2>3 DEF PhasesFit
<1>11. PointerTypes'
  BY <1>1, <1>7 DEF PointerTypes
<1> QED BY <1>1, <1>2, <1>8, <1>10, <1>11 DEF PointerInv

\* The other parts of the frame, and the console, leave events and pointers alone.
LEMMA PointersKept ==
  PointerInv /\ (Dock \/ Plug \/ PadStage \/ do_mouse \/ do_gyro \/ UNCHANGED nvars) => PointerInv'
<1> SUFFICES ASSUME PointerInv, Dock \/ Plug \/ PadStage \/ do_mouse \/ do_gyro \/ UNCHANGED nvars
             PROVE  PointerInv'
  OBVIOUS
<1>1. UNCHANGED <<tapPrev, touches, engineDown, bad, cut>>
  BY DEF Dock, Plug, PadStage, do_mouse, MouseSilent, MouseSampled, do_gyro, nvars, engine
<1>2. PhasesFit' /\ (\A p : Agrees(p)' <=> Agrees(p))
  BY <1>1 DEF PointerInv, PhasesFit, Agrees, Pressed
<1>3. mouseTap' \in BOOLEAN
  BY DEF Dock, Plug, PadStage, do_mouse, MouseSilent, MouseSampled, do_gyro, nvars, PointerInv, PointerTypes
<1>4. CASE PadStage
  <2>1. stage = "pad" /\ stage' = "touch" /\ ev' = <<>>
    BY <1>4 DEF PadStage
  <2>2. PointerTypes'
    BY <1>1, <1>3, <2>1 DEF PointerInv, PointerTypes
  <2> QED BY <1>1, <1>2, <2>1, <2>2 DEF PointerInv
<1>5. CASE ~PadStage
  <2>1. /\ ev' = ev
        /\ stage' = stage \/ (stage \in {"mouse", "gyro"} /\ stage' \in {"gyro", "cursor"})
    BY <1>5 DEF Dock, Plug, do_mouse, MouseSilent, MouseSampled, do_gyro, nvars
  <2>2. Queued' = Queued
    BY <2>1 DEF Queued, EventsOf
  <2>3. \A p : Fits(p)' <=> Fits(p)
    BY <1>1, <2>2 DEF Fits, Pressed
  <2>4. PointerTypes'
    BY <1>1, <1>3, <2>1 DEF PointerInv, PointerTypes
  <2> QED BY <1>1, <1>2, <2>1, <2>2, <2>3, <2>4 DEF PointerInv
<1> QED BY <1>4, <1>5

\* Between the engine's calls the queues hold what brings it up to date, for every
\* number of touch slots and every length of the queues that has room for them.
THEOREM PointerInvariant == Spec => []PointerInv
<1>1. Init => PointerInv
  <2> SUFFICES ASSUME Init PROVE PointerInv
    OBVIOUS
  <2>1. PointerTypes
    <3>1. 0 \in 0..TouchSlots /\ <<>> \in Seq(Events)
      BY SlotAssumption
    <3> QED BY <3>1 DEF Init, PointerTypes
  <2>2. touches = 0 /\ engineDown = {} /\ stage = "pad" /\ tapPrev = FALSE /\ bad = {}
    BY DEF Init
  <2>3. \A p : Agrees(p) <=> ~Pressed(p)
    BY <2>2 DEF Agrees
  <2>4. \A p \in Finger : ~(p < 0)
    BY SlotAssumption DEF Finger
  <2>5. (\A p \in Finger : ~Pressed(p)) /\ ~Pressed(Cursor)
    BY <2>2, <2>4 DEF Pressed
  <2> QED BY <2>1, <2>2, <2>3, <2>5 DEF PointerInv, PhasesFit
<1>2. PointerInv /\ [Next]_nvars => PointerInv'
  BY TouchKept, CursorKept, FeedKept, PointersKept DEF Next
<1> QED BY <1>1, <1>2, PTL DEF Spec

\* Every pointer the engine sees goes down, moves and comes up in that order, and
\* between frames it holds down what the module believes to be down: no event is
\* lost but the "up" of a tap under which the cursor was hidden.
THEOREM EngineUpToDate == Spec => []EngineAgrees
<1>1. PointerInv => EngineAgrees
  <2> SUFFICES ASSUME PointerInv PROVE EngineAgrees
    OBVIOUS
  <2>1. CASE stage = "pad"
    <3>1. /\ engineDown \subseteq 0..TouchSlots /\ touches \in 0..TouchSlots /\ TouchSlots \in Nat
          /\ (\A p \in Finger : Agrees(p)) /\ (cut \/ Agrees(Cursor)) /\ PhasesFit
      BY <2>1, SlotAssumption DEF PointerInv, PointerTypes
    <3>2. \A p \in Finger : p \in engineDown <=> p < touches
      BY <3>1 DEF Agrees, Pressed, Finger, Cursor
    <3>3. \A p \in 0..TouchSlots : p # Cursor <=> p \in Finger
      BY <3>1 DEF Cursor, Finger
    <3>4. 0..(touches - 1) \subseteq Finger /\ Finger \subseteq 0..TouchSlots
      BY <3>1 DEF Finger
    <3>5. engineDown \ {Cursor} = 0..(touches - 1)
      <4>1. \A p \in engineDown \ {Cursor} : p \in 0..(touches - 1)
        BY <3>1, <3>2, <3>3 DEF Finger
      <4>2. \A p \in 0..(touches - 1) : p \in engineDown \ {Cursor}
        BY <3>1, <3>2, <3>3, <3>4
      <4> QED BY <4>1, <4>2
    <3>6. cut \/ (Cursor \in engineDown <=> tapPrev)
      BY <3>1 DEF Agrees, Pressed
    <3> QED BY <3>1, <3>5, <3>6 DEF EngineAgrees
  <2>2. CASE stage # "pad"
    BY <2>2 DEF PointerInv, EngineAgrees
  <2> QED BY <2>1, <2>2
<1> QED BY <1>1, PointerInvariant, PTL

-------------------------------------------------------------------------------
(* The overlay. *)

\* The values of the fields that are only compared.
Word == {"none", "engine", "cursor", "default", "alpha", "modulate", "neutral",
         "MODELVIEW", "TEXTURE", "ortho"}

Source == [data : Word, buffer : Buffer \cup {0}]

Context ==
    [on : SUBSET (Switch \X Unit), active : Unit, client : Unit, bound : [Unit -> Word],
     vertex : Source, texCoord : [Unit -> Source], arrayBuffer : Buffer \cup {0},
     blendFunc : Word, envMode : [Unit -> Word], matrixMode : Word,
     projection : Seq(Word), modelview : Seq(Word), unpack : Nat, color : Word]

\* The same in all that the overlay gives back but the selected units, and in all.
SameRest(g, b) ==
    /\ g.on = b.on /\ g.bound = b.bound /\ g.vertex = b.vertex /\ g.texCoord = b.texCoord
    /\ g.arrayBuffer = b.arrayBuffer /\ g.blendFunc = b.blendFunc
    /\ g.projection = b.projection /\ g.modelview = b.modelview /\ g.unpack = b.unpack

Same(g, b) == SameRest(g, b) /\ g.active = b.active /\ g.client = b.client

\* The units other than 0 are as they were; unit 0 is selected.
OthersKept(g, b) ==
    /\ g.active = 0 /\ g.client = 0 /\ g.unpack = b.unpack
    /\ \A u \in Unit \ {0} :
          /\ g.bound[u] = b.bound[u] /\ g.texCoord[u] = b.texCoord[u]
          /\ \A s \in PerUnit : <<s, u>> \in g.on <=> <<s, u>> \in b.on

\* Behind SaveState: nothing but the selected units has changed.
Entered(g, b) == SameRest(g, b) /\ g.active = 0 /\ g.client = 0

\* Behind DrawCursor: a matrix more on each stack, the tests that are restored by
\* enabling them off.
Drawn(g, b) ==
    /\ OthersKept(g, b)
    /\ g.projection = Append(b.projection, "ortho")
    /\ g.modelview = Append(b.modelview, "cursor")
    /\ <<"ALPHA_TEST", 0>> \notin g.on /\ <<"LIGHTING", 0>> \notin g.on

\* What nxp_draw has saved of context b.
Holds(l, b) ==
    /\ l.was = {s \in Switch : IsEnabled(b, s)} /\ l.blendFunc = b.blendFunc
    /\ l.prev_arr_buf = b.arrayBuffer /\ l.prev_active = b.active /\ l.prev_cactive = b.client
    /\ l.prev_tex = b.bound[0]
    /\ l.sv_v.data = b.vertex.data /\ l.sv_v.buf = b.arrayBuffer
    /\ l.sv_t.data = b.texCoord[0].data /\ l.sv_t.buf = b.arrayBuffer

DrawInv ==
    /\ gl \in Context /\ before \in Context
    /\ drawing \in {"no", "upload", "save", "draw", "restore"}
    /\ drawing = "no" => GivenBack(gl, before)
    /\ drawing \in {"upload", "save"} => Same(gl, before)
    /\ drawing = "draw" => Entered(gl, before) /\ Holds(locals, before)
    /\ drawing = "restore" => Drawn(gl, before) /\ Holds(locals, before)

-------------------------------------------------------------------------------
(* Contexts. *)

LEMMA MeansPair ==
  ASSUME NEW g \in Context, NEW s \in Switch
  PROVE  /\ Means(g, s) \in Switch \X Unit /\ Means(g, s)[1] = s
         /\ s \in OneFor => Means(g, s) = <<s, 0>>
         /\ s = "TEXTURE_2D" => Means(g, s) = <<s, g.active>>
         /\ s = "TEXTURE_COORD_ARRAY" => Means(g, s) = <<s, g.client>>
  BY DEF Means, Context, Unit, OneFor, Switch, PerUnit

LEMMA SwitchesTyped ==
  ASSUME NEW g \in Context, NEW S \in SUBSET Switch
  PROVE  Enable(g, S) \in Context /\ Disable(g, S) \in Context
<1>1. \A s \in S : Means(g, s) \in Switch \X Unit
  BY MeansPair
<1>2. Enable(g, S) \in Context
  BY <1>1 DEF Enable, Context
<1>3. Disable(g, S) \in Context
  BY DEF Disable, Context
<1> QED BY <1>2, <1>3

\* A call of the engine gives a context.
LEMMA GlCallTyped == ASSUME NEW g \in Context, NEW h \in GlCall(g) PROVE h \in Context
<1>1. CASE \E s \in Switch : h = Enable(g, {s}) \/ h = Disable(g, {s})
  BY <1>1, SwitchesTyped
<1>2. CASE \/ \E u \in Unit : h = [g EXCEPT !.active = u] \/ h = [g EXCEPT !.client = u]
           \/ \E b \in Buffer \cup {0} : h = [g EXCEPT !.arrayBuffer = b]
  <2>1. CASE \E u \in Unit : h = [g EXCEPT !.active = u]
    BY <2>1 DEF Context
  <2>2. CASE \E u \in Unit : h = [g EXCEPT !.client = u]
    BY <2>2 DEF Context
  <2>3. CASE \E b \in Buffer \cup {0} : h = [g EXCEPT !.arrayBuffer = b]
    BY <2>3 DEF Context
  <2> QED BY <1>2, <2>1, <2>2, <2>3
<1>3. Pointer("engine", g.arrayBuffer) \in Source /\ g.active \in Unit /\ g.client \in Unit
  BY DEF Pointer, Source, Word, Context
<1>4. CASE h = [g EXCEPT !.vertex = Pointer("engine", g.arrayBuffer)]
  BY <1>3, <1>4 DEF Context
<1>5. CASE h = [g EXCEPT !.texCoord[g.client] = Pointer("engine", g.arrayBuffer)]
  BY <1>3, <1>5 DEF Context
<1>6. CASE h = [g EXCEPT !.bound[g.active] = "engine"]
  BY <1>6 DEF Context, Word
<1>7. CASE h = [g EXCEPT !.envMode[g.active] = "engine"]
  BY <1>7 DEF Context, Word
<1>8. CASE h = [g EXCEPT !.blendFunc = "engine"]
  BY <1>8 DEF Context, Word
<1>9. CASE h = [g EXCEPT !.matrixMode = "TEXTURE"]
  BY <1>9 DEF Context, Word
<1>10. CASE h = [g EXCEPT !.unpack = 1]
  BY <1>10 DEF Context
<1>11. CASE h = [g EXCEPT !.color = "engine"]
  BY <1>11 DEF Context, Word
<1> QED BY <1>1, <1>2, <1>4, <1>5, <1>6, <1>7, <1>8, <1>9, <1>10, <1>11 DEF GlCall

\* A context that is the same is given back.
LEMMA SameKept ==
  ASSUME NEW g \in Context, NEW b \in Context, Same(g, b)
  PROVE  GivenBack(g, b)
<1>1. \A s \in OneFor : IsEnabled(g, s) = IsEnabled(b, s)
  BY MeansPair DEF Same, SameRest, IsEnabled, Switch
<1> QED BY <1>1 DEF GivenBack, Same, SameRest

-------------------------------------------------------------------------------
(* The steps. *)

\* The engine's calls, and the beginning of nxp_draw.
LEMMA EngineKept == DrawInv /\ (EngineCalls \/ nxp_draw) => DrawInv'
<1> SUFFICES ASSUME DrawInv, EngineCalls \/ nxp_draw PROVE DrawInv'
  OBVIOUS
<1>1. gl' \in Context /\ before' = gl'
  BY GlCallTyped DEF DrawInv, EngineCalls, nxp_draw
<1>2. Same(gl', before')
  BY <1>1 DEF Same, SameRest
<1>3. GivenBack(gl', before')
  BY <1>1, <1>2, SameKept
<1>4. drawing' \in {"no", "upload", "save"}
  BY DEF EngineCalls, nxp_draw
<1> QED BY <1>1, <1>2, <1>3, <1>4 DEF DrawInv

\* The upload leaves the context as it was.
LEMMA UploadKept == DrawInv /\ cursor_upload_png => DrawInv'
<1> SUFFICES ASSUME DrawInv, cursor_upload_png PROVE DrawInv'
  OBVIOUS
<1>1. gl \in Context /\ before \in Context /\ Same(gl, before) /\ before' = before
  BY DEF DrawInv, cursor_upload_png
<1>2. gl' \in Context /\ Same(gl', gl)
  <2>1. CASE ~s_cursor_tex'
    BY <1>1, <2>1 DEF cursor_upload_png, Same, SameRest
  <2>2. CASE s_cursor_tex'
    <3> DEFINE made == [[gl EXCEPT !.active = 0] EXCEPT !.bound[0] = "cursor", !.unpack = 1]
               h == [made EXCEPT !.unpack = gl.unpack, !.bound[0] = gl.bound[0], !.active = gl.active]
    <3>1. gl' = h
      BY <1>1, <2>2 DEF cursor_upload_png, Context
    <3>2. h \in Context
      <4>1. PICK B \in [Unit -> Word] : B = [gl.bound EXCEPT ![0] = "cursor", ![0] = gl.bound[0]]
        BY <1>1 DEF Context, Unit, Word
      <4>2. h = [gl EXCEPT !.bound = B]
        BY <1>1, <4>1 DEF Context
      <4> QED BY <1>1, <4>2 DEF Context
    <3>3. Same(h, gl)
      BY <1>1 DEF Same, SameRest, Context, Unit
    <3> QED BY <3>1, <3>2, <3>3
  <2> QED BY <2>1, <2>2
<1>3. Same(gl', before')
  BY <1>1, <1>2 DEF Same, SameRest
<1>4. drawing' = "save"
  BY DEF cursor_upload_png
<1> QED BY <1>1, <1>2, <1>3, <1>4 DEF DrawInv

\* SaveState selects unit 0 and saves what the context was.
LEMMA Saved ==
  ASSUME NEW g \in Context, NEW b \in Context, Same(g, b), NEW h,
         h = [g EXCEPT !.active = 0, !.client = 0]
  PROVE  h \in Context /\ Entered(h, b)
<1>1. h \in Context
  BY DEF Context, Unit
<1>2. Entered(h, b)
  BY DEF Entered, Same, SameRest, Context
<1> QED BY <1>1, <1>2

LEMMA SaveKept == DrawInv /\ SaveState => DrawInv'
<1> SUFFICES ASSUME DrawInv, SaveState PROVE DrawInv'
  OBVIOUS
<1>1. gl \in Context /\ before \in Context /\ Same(gl, before) /\ before' = before
  BY DEF DrawInv, SaveState
<1>2. gl' = [gl EXCEPT !.active = 0, !.client = 0] /\ drawing' = "draw"
  BY DEF SaveState
<1>3. gl' \in Context /\ Entered(gl', before)
  BY <1>1, <1>2, Saved
<1>4. Holds(locals', before)
  <2>1. \A s \in Switch : IsEnabled(gl, s) <=> IsEnabled(before, s)
    BY <1>1 DEF IsEnabled, Means, Same, SameRest
  <2>2. /\ locals'.was = {s \in Switch : IsEnabled(gl, s)} /\ locals'.blendFunc = gl.blendFunc
        /\ locals'.prev_arr_buf = gl.arrayBuffer /\ locals'.prev_active = gl.active
        /\ locals'.prev_cactive = gl.client /\ locals'.prev_tex = gl'.bound[0]
        /\ locals'.sv_v = carray_save(gl', gl'.vertex)
        /\ locals'.sv_t = carray_save(gl', gl'.texCoord[0])
    BY DEF SaveState
  <2>3. /\ gl'.bound = gl.bound /\ gl'.vertex = gl.vertex /\ gl'.texCoord = gl.texCoord
        /\ gl'.arrayBuffer = gl.arrayBuffer
    BY <1>1, <1>2 DEF Context
  <2>4. {s \in Switch : IsEnabled(gl, s)} = {s \in Switch : IsEnabled(before, s)}
    BY <2>1
  <2> QED BY <1>1, <2>2, <2>3, <2>4 DEF Holds, Same, SameRest, carray_save
<1> QED BY <1>1, <1>2, <1>3, <1>4 DEF DrawInv

\* Switches change nothing else; with unit 0 selected, they are unit 0's.
LEMMA SwitchesOnly ==
  ASSUME NEW g \in Context, NEW N, NEW h \in Context, h = [g EXCEPT !.on = N]
  PROVE  /\ h.on = N /\ h.active = g.active /\ h.client = g.client /\ h.bound = g.bound
         /\ h.vertex = g.vertex /\ h.texCoord = g.texCoord /\ h.arrayBuffer = g.arrayBuffer
         /\ h.blendFunc = g.blendFunc /\ h.unpack = g.unpack
         /\ h.projection = g.projection /\ h.modelview = g.modelview
  BY DEF Context

LEMMA SwitchesOfZero ==
  ASSUME NEW g \in Context, NEW S \in SUBSET Switch, g.active = 0, g.client = 0
  PROVE  /\ Enable(g, S) = [g EXCEPT !.on = g.on \cup (S \X {0})]
         /\ Disable(g, S) = [g EXCEPT !.on = g.on \ (S \X {0})]
<1>1. \A s \in Switch : Means(g, s) = <<s, 0>>
  BY DEF Means
<1>2. {Means(g, s) : s \in S} = S \X {0}
  BY <1>1
<1> QED BY <1>2 DEF Enable, Disable

\* A matrix more on each stack, and blending; the switches stay.
LEMMA MatricesPushed ==
  ASSUME NEW g \in Context, NEW h,
         h = [g EXCEPT !.projection = Append(@, "ortho"), !.modelview = Append(@, "cursor"),
                       !.matrixMode = "MODELVIEW", !.blendFunc = "alpha", !.arrayBuffer = 0]
  PROVE  /\ h \in Context
         /\ h.on = g.on /\ h.active = g.active /\ h.client = g.client /\ h.bound = g.bound
         /\ h.texCoord = g.texCoord /\ h.unpack = g.unpack
         /\ h.projection = Append(g.projection, "ortho")
         /\ h.modelview = Append(g.modelview, "cursor")
<1>1. g.projection \in Seq(Word) /\ g.modelview \in Seq(Word)
  BY DEF Context
<1>2. PICK P \in Seq(Word), M \in Seq(Word) :
         P = Append(g.projection, "ortho") /\ M = Append(g.modelview, "cursor")
  <2>1. "ortho" \in Word /\ "cursor" \in Word
    BY DEF Word
  <2>2. Append(g.projection, "ortho") \in Seq(Word) /\ Append(g.modelview, "cursor") \in Seq(Word)
    BY <1>1, <2>1
  <2> QED BY <2>2
<1>3. h = [g EXCEPT !.projection = P, !.modelview = M, !.matrixMode = "MODELVIEW",
                    !.blendFunc = "alpha", !.arrayBuffer = 0]
  BY <1>2
<1>4. h \in Context
  <2>1. PICK m \in Word, w \in Word : m = "MODELVIEW" /\ w = "alpha"
    BY DEF Word
  <2>2. PICK k : k = [g EXCEPT !.projection = P, !.modelview = M]
    OBVIOUS
  <2>3. k \in Context
    BY <2>2 DEF Context
  <2>4. PICK j : j = [k EXCEPT !.matrixMode = m, !.blendFunc = w]
    OBVIOUS
  <2>5. j \in Context
    BY <2>3, <2>4 DEF Context
  <2>6. h = [j EXCEPT !.arrayBuffer = 0]
    BY <1>3, <2>1, <2>2, <2>4
  <2> QED BY <2>5, <2>6 DEF Context
<1> QED BY <1>2, <1>3, <1>4 DEF Context

LEMMA SetUpDraws ==
  ASSUME NEW g \in Context, NEW b \in Context, Entered(g, b),
         NEW colors \in SUBSET {"COLOR_ARRAY"}, NEW h, h = SetUp(g, colors)
  PROVE  h \in Context /\ Drawn(h, b)
<1>1. PICK S \in SUBSET Switch :
         S = {"DEPTH_TEST", "CULL_FACE", "SCISSOR_TEST", "ALPHA_TEST", "LIGHTING"} \cup colors
  BY DEF Switch, OneFor
<1>2. PICK T \in SUBSET Switch : T = {"BLEND", "VERTEX_ARRAY"}
  BY DEF Switch, OneFor
<1>3. PICK off : off = Disable(g, S)
  OBVIOUS
<1>4. PICK on : on = Enable(off, T)
  OBVIOUS
<1>5. h = [on EXCEPT !.projection = Append(@, "ortho"), !.modelview = Append(@, "cursor"),
                     !.matrixMode = "MODELVIEW", !.blendFunc = "alpha", !.arrayBuffer = 0]
  BY <1>1, <1>2, <1>3, <1>4 DEF SetUp
<1>6. g.active = 0 /\ g.client = 0
  BY DEF Entered
<1>7. /\ off \in Context /\ off.on = g.on \ (S \X {0}) /\ off.active = 0 /\ off.client = 0
      /\ off.bound = g.bound /\ off.texCoord = g.texCoord /\ off.unpack = g.unpack
      /\ off.projection = g.projection /\ off.modelview = g.modelview
  <2>1. off = [g EXCEPT !.on = g.on \ (S \X {0})] /\ off \in Context
    BY <1>3, <1>6, SwitchesOfZero, SwitchesTyped
  <2> QED BY <1>6, <2>1, SwitchesOnly
<1>8. /\ on \in Context /\ on.on = off.on \cup (T \X {0}) /\ on.active = 0 /\ on.client = 0
      /\ on.bound = off.bound /\ on.texCoord = off.texCoord /\ on.unpack = off.unpack
      /\ on.projection = off.projection /\ on.modelview = off.modelview
  <2>1. on = [off EXCEPT !.on = off.on \cup (T \X {0})] /\ on \in Context
    BY <1>4, <1>7, SwitchesOfZero, SwitchesTyped
  <2> QED BY <1>7, <2>1, SwitchesOnly
<1>9. /\ h \in Context
      /\ h.on = on.on /\ h.active = on.active /\ h.client = on.client /\ h.bound = on.bound
      /\ h.texCoord = on.texCoord /\ h.unpack = on.unpack
      /\ h.projection = Append(on.projection, "ortho")
      /\ h.modelview = Append(on.modelview, "cursor")
  BY <1>5, <1>8, MatricesPushed
<1>10. OthersKept(h, b)
  <2>1. \A u \in Unit \ {0}, s \in PerUnit : <<s, u>> \in h.on <=> <<s, u>> \in b.on
    BY <1>7, <1>8, <1>9 DEF Entered, SameRest
  <2> QED BY <1>7, <1>8, <1>9, <2>1 DEF OthersKept, Entered, SameRest
<1>11. <<"ALPHA_TEST", 0>> \notin h.on /\ <<"LIGHTING", 0>> \notin h.on
  BY <1>1, <1>2, <1>7, <1>8, <1>9
<1>12. g.projection = b.projection /\ g.modelview = b.modelview
  BY DEF Entered, SameRest
<1> QED BY <1>7, <1>8, <1>9, <1>10, <1>11, <1>12 DEF Drawn

\* Switches of the texture, and what belongs to unit 0, leave a drawn context drawn.
LEMMA SwitchesStayDrawn ==
  ASSUME NEW g \in Context, NEW b \in Context, Drawn(g, b), NEW S \in SUBSET PerUnit, NEW h,
         h = Enable(g, S) \/ h = Disable(g, S)
  PROVE  h \in Context /\ Drawn(h, b)
<1>1. S \in SUBSET Switch
  BY DEF Switch
<1>2. h \in Context
  BY <1>1, SwitchesTyped
<1>3. g.active = 0 /\ g.client = 0
  BY DEF Drawn, OthersKept
<1>4. PICK N : h = [g EXCEPT !.on = N] /\ (N = g.on \cup (S \X {0}) \/ N = g.on \ (S \X {0}))
  BY <1>1, <1>3, SwitchesOfZero
<1>5. /\ h.on = N /\ h.active = 0 /\ h.client = 0 /\ h.bound = g.bound /\ h.texCoord = g.texCoord
      /\ h.unpack = g.unpack /\ h.projection = g.projection /\ h.modelview = g.modelview
  BY <1>2, <1>3, <1>4, SwitchesOnly
<1>6. \A u \in Unit \ {0}, s \in PerUnit : <<s, u>> \in N <=> <<s, u>> \in g.on
  BY <1>4
<1>7. <<"ALPHA_TEST", 0>> \notin N /\ <<"LIGHTING", 0>> \notin N
  BY <1>4 DEF Drawn, PerUnit
<1> QED BY <1>2, <1>5, <1>6, <1>7 DEF Drawn, OthersKept

LEMMA ZeroStaysDrawn ==
  ASSUME NEW g \in Context, NEW b \in Context, Drawn(g, b), NEW h \in Context,
         h.on = g.on, h.active = g.active, h.client = g.client, h.unpack = g.unpack,
         h.projection = g.projection, h.modelview = g.modelview,
         \A u \in Unit \ {0} : h.bound[u] = g.bound[u] /\ h.texCoord[u] = g.texCoord[u]
  PROVE  Drawn(h, b)
  BY DEF Drawn, OthersKept

LEMMA QuadDraws ==
  ASSUME NEW g \in Context, NEW b \in Context, Drawn(g, b), NEW h, h = Quad(g)
  PROVE  h \in Context /\ Drawn(h, b)
<1>1. PICK on : on = Enable(g, {"TEXTURE_2D", "TEXTURE_COORD_ARRAY"})
  OBVIOUS
<1>2. on \in Context /\ Drawn(on, b)
  BY <1>1, SwitchesStayDrawn DEF PerUnit
<1>3. on.active = 0 /\ on.client = 0
  BY <1>2 DEF Drawn, OthersKept
<1>4. PICK p \in Source : p = Pointer("cursor", on.arrayBuffer)
  BY <1>2 DEF Pointer, Source, Context, Word
<1>5. PICK k : k = [on EXCEPT !.bound[0] = "cursor", !.envMode[0] = "modulate", !.color = "cursor",
                              !.vertex = p, !.texCoord[0] = p]
  OBVIOUS
<1>6. /\ k \in Context /\ k.on = on.on /\ k.active = on.active /\ k.client = on.client
      /\ k.unpack = on.unpack /\ k.projection = on.projection /\ k.modelview = on.modelview
      /\ \A u \in Unit \ {0} : k.bound[u] = on.bound[u] /\ k.texCoord[u] = on.texCoord[u]
  <2>1. PICK c \in Word, m \in Word : c = "cursor" /\ m = "modulate"
    BY DEF Word
  <2>2. PICK B \in [Unit -> Word], E \in [Unit -> Word], T \in [Unit -> Source] :
          /\ B = [on.bound EXCEPT ![0] = c] /\ E = [on.envMode EXCEPT ![0] = m]
          /\ T = [on.texCoord EXCEPT ![0] = p]
    BY <1>2 DEF Context
  <2>3. PICK j : j = [on EXCEPT !.bound = B, !.envMode = E]
    OBVIOUS
  <2>4. /\ j \in Context /\ j.on = on.on /\ j.active = on.active /\ j.client = on.client
        /\ j.unpack = on.unpack /\ j.projection = on.projection /\ j.modelview = on.modelview
        /\ j.bound = B /\ j.texCoord = on.texCoord
    BY <1>2, <2>3 DEF Context
  <2>5. PICK i : i = [j EXCEPT !.color = c, !.vertex = p]
    OBVIOUS
  <2>6. /\ i \in Context /\ i.on = on.on /\ i.active = on.active /\ i.client = on.client
        /\ i.unpack = on.unpack /\ i.projection = on.projection /\ i.modelview = on.modelview
        /\ i.bound = B /\ i.texCoord = on.texCoord
    BY <2>4, <2>5 DEF Context
  <2>7. k = [i EXCEPT !.texCoord = T]
    BY <1>5, <2>1, <2>2, <2>3, <2>5, <2>6
  <2>8. /\ k \in Context /\ k.on = on.on /\ k.active = on.active /\ k.client = on.client
        /\ k.unpack = on.unpack /\ k.projection = on.projection /\ k.modelview = on.modelview
        /\ k.bound = B /\ k.texCoord = T
    BY <2>6, <2>7 DEF Context
  <2>9. \A u \in Unit \ {0} : k.bound[u] = on.bound[u] /\ k.texCoord[u] = on.texCoord[u]
    BY <1>2, <2>2, <2>8 DEF Context
  <2> QED BY <2>8, <2>9
<1>7. Drawn(k, b)
  BY <1>2, <1>6, ZeroStaysDrawn
<1>8. h = Disable(k, {"TEXTURE_COORD_ARRAY"})
  BY <1>1, <1>3, <1>4, <1>5 DEF Quad
<1> QED BY <1>6, <1>7, <1>8, SwitchesStayDrawn DEF PerUnit

LEMMA ArrowDraws ==
  ASSUME NEW g \in Context, NEW b \in Context, Drawn(g, b), NEW h, h = Arrow(g)
  PROVE  h \in Context /\ Drawn(h, b)
<1>1. PICK off : off = Disable(g, {"TEXTURE_2D"})
  OBVIOUS
<1>2. off \in Context /\ Drawn(off, b)
  BY <1>1, SwitchesStayDrawn DEF PerUnit
<1>3. PICK p \in Source : p = Pointer("cursor", g.arrayBuffer)
  BY DEF Pointer, Source, Context, Word
<1>4. h = [off EXCEPT !.vertex = p, !.color = "cursor"]
  BY <1>1, <1>3 DEF Arrow
<1>5. /\ h \in Context /\ h.on = off.on /\ h.active = off.active /\ h.client = off.client
      /\ h.unpack = off.unpack /\ h.projection = off.projection /\ h.modelview = off.modelview
      /\ h.bound = off.bound /\ h.texCoord = off.texCoord
  <2>1. "cursor" \in Word
    BY DEF Word
  <2>2. h \in Context
    BY <1>2, <1>3, <1>4, <2>1 DEF Context
  <2> QED BY <1>2, <1>4, <2>2 DEF Context
<1> QED BY <1>2, <1>5, ZeroStaysDrawn

LEMMA DrawKept == DrawInv /\ DrawCursor => DrawInv'
<1> SUFFICES ASSUME DrawInv, DrawCursor PROVE DrawInv'
  OBVIOUS
<1>1. /\ gl \in Context /\ before \in Context /\ Entered(gl, before) /\ Holds(locals, before)
      /\ before' = before /\ locals' = locals /\ drawing' = "restore"
  BY DEF DrawInv, DrawCursor
<1>2. PICK colors \in SUBSET {"COLOR_ARRAY"} :
         gl' = IF s_cursor_tex THEN Quad(SetUp(gl, colors)) ELSE Arrow(SetUp(gl, colors))
  BY DEF DrawCursor
<1>3. PICK k : k = SetUp(gl, colors)
  OBVIOUS
<1>4. k \in Context /\ Drawn(k, before)
  BY <1>1, <1>3, SetUpDraws
<1>5. gl' = Quad(k) \/ gl' = Arrow(k)
  BY <1>2, <1>3
<1>6. gl' \in Context /\ Drawn(gl', before)
  BY <1>1, <1>4, <1>5, QuadDraws, ArrowDraws
<1> QED BY <1>1, <1>6 DEF DrawInv

LEMMA AppendedIsTaken ==
  ASSUME NEW s \in Seq(Word), NEW w, w \in Word, NEW t, t = Append(s, w)
  PROVE  SubSeq(t, 1, Len(t) - 1) = s
<1>1. t \in Seq(Word) /\ Len(t) = Len(s) + 1 /\ \A i \in 1..Len(s) : t[i] = s[i]
  OBVIOUS
<1>2. Len(s) \in Nat
  OBVIOUS
<1> QED BY <1>1, <1>2

\* The matrices, the arrays and the bound texture are the engine's again.
LEMMA SourcesRestored ==
  ASSUME NEW g \in Context, NEW b \in Context, Drawn(g, b), NEW l, Holds(l, b),
         NEW h, h = Sources(g, l)
  PROVE  /\ h \in Context /\ OthersKept(h, b) /\ h.on = g.on
         /\ h.projection = b.projection /\ h.modelview = b.modelview
         /\ h.arrayBuffer = b.arrayBuffer
         /\ h.vertex = Pointer(b.vertex.data, b.arrayBuffer)
         /\ h.texCoord[0] = Pointer(b.texCoord[0].data, b.arrayBuffer)
<1>1. PICK P \in Seq(Word), M \in Seq(Word) : P = b.projection /\ M = b.modelview
  BY DEF Context
<1>2. /\ SubSeq(g.projection, 1, Len(g.projection) - 1) = P
      /\ SubSeq(g.modelview, 1, Len(g.modelview) - 1) = M
  <2>1. "ortho" \in Word /\ "cursor" \in Word
    BY DEF Word
  <2>2. g.projection = Append(P, "ortho") /\ g.modelview = Append(M, "cursor")
    BY <1>1 DEF Drawn
  <2> QED BY <2>1, <2>2, AppendedIsTaken
<1>3. g.client = 0 /\ g.active = 0
  BY DEF Drawn, OthersKept
<1>4. PICK v \in Source, x \in Source, a \in Buffer \cup {0} :
        /\ v = Pointer(b.vertex.data, b.arrayBuffer)
        /\ x = Pointer(b.texCoord[0].data, b.arrayBuffer) /\ a = b.arrayBuffer
  BY DEF Pointer, Source, Context, Unit
<1>5. h = [g EXCEPT !.modelview = M, !.projection = P, !.matrixMode = "MODELVIEW", !.vertex = v,
                    !.texCoord[0] = x, !.arrayBuffer = a]
  BY <1>2, <1>3, <1>4 DEF Sources, Holds
<1>6. h \in Context
  <2>1. "MODELVIEW" \in Word
    BY DEF Word
  <2>2. PICK k : k = [g EXCEPT !.modelview = M, !.projection = P, !.matrixMode = "MODELVIEW"]
    OBVIOUS
  <2>3. k \in Context
    BY <2>1, <2>2 DEF Context
  <2>4. h = [k EXCEPT !.vertex = v, !.texCoord[0] = x, !.arrayBuffer = a]
    BY <1>5, <2>2
  <2>5. PICK T \in [Unit -> Source] : T = [k.texCoord EXCEPT ![0] = x]
    BY <2>3 DEF Context
  <2>6. PICK j : j = [k EXCEPT !.vertex = v, !.texCoord = T]
    OBVIOUS
  <2>7. j \in Context
    BY <2>3, <2>6 DEF Context
  <2>8. h = [j EXCEPT !.arrayBuffer = a]
    BY <2>4, <2>5, <2>6
  <2> QED BY <2>7, <2>8 DEF Context
<1>7. /\ h.on = g.on /\ h.active = g.active /\ h.client = g.client /\ h.unpack = g.unpack
      /\ h.bound = g.bound /\ h.projection = P /\ h.modelview = M /\ h.arrayBuffer = a
      /\ h.vertex = v /\ h.texCoord[0] = x
      /\ \A u \in Unit \ {0} : h.texCoord[u] = g.texCoord[u]
  BY <1>5 DEF Context, Unit
<1>8. OthersKept(h, b)
  BY <1>7 DEF Drawn, OthersKept
<1> QED BY <1>1, <1>4, <1>6, <1>7, <1>8

\* And the bound texture, then the selected units.
LEMMA UnitsRestored ==
  ASSUME NEW g \in Context, NEW b \in Context, OthersKept(g, b), NEW l, Holds(l, b),
         NEW h, h = Units(g, l)
  PROVE  /\ h \in Context /\ h.bound = b.bound /\ h.active = b.active /\ h.client = b.client
         /\ h.on = g.on /\ h.texCoord = g.texCoord /\ h.vertex = g.vertex
         /\ h.arrayBuffer = g.arrayBuffer /\ h.projection = g.projection
         /\ h.modelview = g.modelview /\ h.unpack = b.unpack
<1>1. PICK w \in Word, c \in Unit, a \in Unit : w = b.bound[0] /\ c = b.client /\ a = b.active
  BY DEF Context, Unit
<1>2. h = [[g EXCEPT !.bound[0] = w] EXCEPT !.client = c, !.active = a]
  BY <1>1 DEF Units, Holds, OthersKept
<1>3. h \in Context
  <2>1. PICK B \in [Unit -> Word] : B = [g.bound EXCEPT ![0] = w]
    BY DEF Context
  <2>2. h = [g EXCEPT !.bound = B, !.client = c, !.active = a]
    BY <1>2, <2>1
  <2> QED BY <2>2 DEF Context
<1>4. /\ h.bound = [g.bound EXCEPT ![0] = w] /\ h.active = a /\ h.client = c
      /\ h.on = g.on /\ h.texCoord = g.texCoord /\ h.vertex = g.vertex
      /\ h.arrayBuffer = g.arrayBuffer /\ h.projection = g.projection
      /\ h.modelview = g.modelview /\ h.unpack = g.unpack
  BY <1>2 DEF Context
<1>5. h.bound = b.bound
  <2>1. g.bound \in [Unit -> Word] /\ b.bound \in [Unit -> Word] /\ h.bound \in [Unit -> Word]
    BY <1>3 DEF Context
  <2>2. \A u \in Unit : h.bound[u] = b.bound[u]
    BY <1>1, <1>4, <2>1 DEF OthersKept, Unit
  <2> QED BY <2>1, <2>2
<1> QED BY <1>1, <1>3, <1>4, <1>5 DEF OthersKept

\* And the switches, which mean the engine's units.
LEMMA SwitchesRestored ==
  ASSUME NEW g \in Context, NEW b \in Context, g.active = b.active, g.client = b.client,
         NEW l, Holds(l, b), NEW h, h = Switches(g, l)
  PROVE  /\ h \in Context /\ \E N : h = [g EXCEPT !.on = N]
         /\ \A s \in Switch : s \notin {"ALPHA_TEST", "LIGHTING"} \/ Means(g, s) \notin g.on
               => (Means(g, s) \in h.on <=> Means(b, s) \in b.on)
         /\ \A s \in Switch, u \in Unit :
               Means(g, s) # <<s, u>> => (<<s, u>> \in h.on <=> <<s, u>> \in g.on)
<1>1. \A s \in Switch : Means(g, s) = Means(b, s) /\ Means(g, s)[1] = s
  BY DEF Means
<1>2. PICK W \in SUBSET Switch : W = l.was /\ \A s \in Switch : s \in W <=> Means(b, s) \in b.on
  <2>1. l.was = {s \in Switch : Means(b, s) \in b.on}
    BY DEF Holds, IsEnabled
  <2> QED BY <2>1
<1>3. PICK X \in SUBSET Switch : X = Switch \ (W \cup {"ALPHA_TEST", "LIGHTING"})
  OBVIOUS
<1>4. PICK off : off = Disable(g, X)
  OBVIOUS
<1>5. h = Enable(off, W)
  BY <1>2, <1>3, <1>4 DEF Switches
<1>6. off \in Context /\ h \in Context
  BY <1>4, <1>5, SwitchesTyped
<1>7. off = [g EXCEPT !.on = g.on \ {Means(g, s) : s \in X}]
  BY <1>4 DEF Disable
<1>8. off.on = g.on \ {Means(g, s) : s \in X} /\ off.active = g.active /\ off.client = g.client
  BY <1>6, <1>7, SwitchesOnly
<1>9. \A s \in Switch : Means(off, s) = Means(g, s)
  BY <1>8 DEF Means
<1>10. h = [off EXCEPT !.on = off.on \cup {Means(off, s) : s \in W}]
  BY <1>5 DEF Enable
<1>11. h.on = off.on \cup {Means(off, s) : s \in W}
  BY <1>6, <1>10, SwitchesOnly
<1>12. h.on = (g.on \ {Means(g, s) : s \in X}) \cup {Means(g, s) : s \in W}
  BY <1>8, <1>9, <1>11
<1>13. ASSUME NEW s \in Switch, s \notin {"ALPHA_TEST", "LIGHTING"} \/ Means(g, s) \notin g.on
       PROVE  Means(g, s) \in h.on <=> Means(b, s) \in b.on
  BY <1>1, <1>2, <1>3, <1>12, <1>13
<1>14. ASSUME NEW s \in Switch, NEW u \in Unit, Means(g, s) # <<s, u>>
       PROVE  <<s, u>> \in h.on <=> <<s, u>> \in g.on
  <2>1. \A t \in Switch : Means(g, t) # <<s, u>>
    BY <1>1, <1>14
  <2> QED BY <1>12, <2>1
<1>15. h = [g EXCEPT !.on = h.on]
  BY <1>6, <1>7, <1>10, <1>11
<1> QED BY <1>6, <1>13, <1>14, <1>15

\* After them the context is given back.
LEMMA Restored ==
  ASSUME NEW g \in Context, NEW b \in Context, Drawn(g, b), NEW l, Holds(l, b), NEW h,
         h = LET k == [Units(Sources(g, l), l) EXCEPT !.blendFunc = l.blendFunc]
             IN  [Switches(k, l) EXCEPT !.color = "neutral"]
  PROVE  h \in Context /\ GivenBack(h, b)
<1>1. PICK s : s = Sources(g, l)
  OBVIOUS
<1>2. PICK u : u = Units(s, l)
  OBVIOUS
<1>3. PICK k : k = [u EXCEPT !.blendFunc = l.blendFunc]
  OBVIOUS
<1>4. PICK w : w = Switches(k, l)
  OBVIOUS
<1>5. /\ s \in Context /\ OthersKept(s, b) /\ s.on = g.on
      /\ s.projection = b.projection /\ s.modelview = b.modelview
      /\ s.arrayBuffer = b.arrayBuffer /\ s.vertex = Pointer(b.vertex.data, b.arrayBuffer)
      /\ s.texCoord[0] = Pointer(b.texCoord[0].data, b.arrayBuffer)
  BY <1>1, SourcesRestored
<1>6. /\ u \in Context /\ u.bound = b.bound /\ u.active = b.active /\ u.client = b.client
      /\ u.on = s.on /\ u.texCoord = s.texCoord /\ u.vertex = s.vertex
      /\ u.arrayBuffer = s.arrayBuffer /\ u.projection = s.projection
      /\ u.modelview = s.modelview /\ u.unpack = b.unpack
  BY <1>2, <1>5, UnitsRestored
<1>7. /\ k \in Context /\ k.blendFunc = b.blendFunc /\ k.bound = u.bound /\ k.active = u.active
      /\ k.client = u.client /\ k.on = u.on /\ k.texCoord = u.texCoord /\ k.vertex = u.vertex
      /\ k.arrayBuffer = u.arrayBuffer /\ k.projection = u.projection
      /\ k.modelview = u.modelview /\ k.unpack = u.unpack
  <2>1. PICK f \in Word : f = b.blendFunc /\ f = l.blendFunc
    BY DEF Context, Holds
  <2>2. k = [u EXCEPT !.blendFunc = f]
    BY <1>3, <2>1
  <2> QED BY <1>6, <2>1, <2>2 DEF Context
<1>8. /\ w \in Context /\ \E N : w = [k EXCEPT !.on = N]
      /\ \A t \in Switch : t \notin {"ALPHA_TEST", "LIGHTING"} \/ Means(k, t) \notin k.on
            => (Means(k, t) \in w.on <=> Means(b, t) \in b.on)
      /\ \A t \in Switch, v \in Unit :
            Means(k, t) # <<t, v>> => (<<t, v>> \in w.on <=> <<t, v>> \in k.on)
  <2>1. k \in Context /\ k.active = b.active /\ k.client = b.client
    BY <1>6, <1>7
  <2> QED BY <1>4, <2>1, SwitchesRestored
<1>9. /\ w.bound = k.bound /\ w.active = k.active /\ w.client = k.client
      /\ w.texCoord = k.texCoord /\ w.vertex = k.vertex /\ w.blendFunc = k.blendFunc
      /\ w.arrayBuffer = k.arrayBuffer /\ w.projection = k.projection
      /\ w.modelview = k.modelview /\ w.unpack = k.unpack
  BY <1>7, <1>8, SwitchesOnly
<1>10. h = [w EXCEPT !.color = "neutral"]
  BY <1>1, <1>2, <1>3, <1>4
<1>11. /\ h \in Context /\ h.on = w.on /\ h.bound = w.bound /\ h.active = w.active
       /\ h.client = w.client
       /\ h.texCoord = w.texCoord /\ h.vertex = w.vertex /\ h.blendFunc = w.blendFunc
       /\ h.arrayBuffer = w.arrayBuffer /\ h.projection = w.projection
       /\ h.modelview = w.modelview /\ h.unpack = w.unpack
  <2>1. "neutral" \in Word
    BY DEF Word
  <2> QED BY <1>8, <1>10, <2>1 DEF Context
<1>12. /\ h.active = b.active /\ h.client = b.client /\ h.bound = b.bound
       /\ h.arrayBuffer = b.arrayBuffer /\ h.blendFunc = b.blendFunc
       /\ h.projection = b.projection /\ h.modelview = b.modelview /\ h.unpack = b.unpack
       /\ h.vertex = Pointer(b.vertex.data, b.arrayBuffer) /\ h.texCoord = s.texCoord
       /\ h.on = w.on /\ k.on = g.on /\ k.active = b.active /\ k.client = b.client
  BY <1>5, <1>6, <1>7, <1>9, <1>11
<1>13. ASSUME NEW t \in OneFor PROVE IsEnabled(h, t) = IsEnabled(b, t)
  <2>1. t \in Switch /\ Means(k, t) = <<t, 0>> /\ Means(h, t) = <<t, 0>> /\ Means(b, t) = <<t, 0>>
    BY DEF Means, Switch, OneFor
  <2>2. t \notin {"ALPHA_TEST", "LIGHTING"} \/ <<t, 0>> \notin k.on
    BY <1>12 DEF Drawn
  <2> QED BY <1>8, <1>12, <2>1, <2>2 DEF IsEnabled
<1>14. ASSUME NEW v \in Unit, v # 0 \/ b.active = 0
       PROVE  <<"TEXTURE_2D", v>> \in h.on <=> <<"TEXTURE_2D", v>> \in b.on
  <2>1. /\ "TEXTURE_2D" \in Switch /\ "TEXTURE_2D" \in PerUnit
        /\ Means(k, "TEXTURE_2D") = <<"TEXTURE_2D", b.active>>
        /\ Means(b, "TEXTURE_2D") = <<"TEXTURE_2D", b.active>>
    BY <1>12 DEF Means, Switch, PerUnit
  <2>2. CASE v = b.active
    BY <1>8, <1>12, <2>1, <2>2
  <2>3. CASE v # b.active
    <3>1. v # 0 /\ <<"TEXTURE_2D", b.active>> # <<"TEXTURE_2D", v>>
      BY <1>14, <2>3
    <3> QED BY <1>8, <1>12, <2>1, <3>1 DEF Drawn, OthersKept
  <2> QED BY <2>2, <2>3
<1>15. ASSUME NEW v \in Unit, v # 0 \/ b.client = 0
       PROVE  <<"TEXTURE_COORD_ARRAY", v>> \in h.on <=> <<"TEXTURE_COORD_ARRAY", v>> \in b.on
  <2>1. /\ "TEXTURE_COORD_ARRAY" \in Switch /\ "TEXTURE_COORD_ARRAY" \in PerUnit
        /\ Means(k, "TEXTURE_COORD_ARRAY") = <<"TEXTURE_COORD_ARRAY", b.client>>
        /\ Means(b, "TEXTURE_COORD_ARRAY") = <<"TEXTURE_COORD_ARRAY", b.client>>
    BY <1>12 DEF Means, Switch, PerUnit
  <2>2. CASE v = b.client
    BY <1>8, <1>12, <2>1, <2>2
  <2>3. CASE v # b.client
    <3>1. v # 0 /\ <<"TEXTURE_COORD_ARRAY", b.client>> # <<"TEXTURE_COORD_ARRAY", v>>
      BY <1>15, <2>3
    <3> QED BY <1>8, <1>12, <2>1, <3>1 DEF Drawn, OthersKept
  <2> QED BY <2>2, <2>3
<1>16. /\ h.vertex.data = b.vertex.data
       /\ b.vertex.buffer = b.arrayBuffer => h.vertex = b.vertex
  BY <1>12 DEF Pointer, Context, Source
<1>17. ASSUME NEW v \in Unit
       PROVE  /\ h.texCoord[v].data = b.texCoord[v].data
              /\ v # 0 \/ b.texCoord[v].buffer = b.arrayBuffer => h.texCoord[v] = b.texCoord[v]
  <2>1. CASE v = 0
    <3>1. b.texCoord[0] \in Source
      BY DEF Context, Unit
    <3> QED BY <1>5, <1>12, <2>1, <3>1 DEF Pointer, Source
  <2>2. CASE v # 0
    BY <1>5, <1>12, <2>2 DEF OthersKept
  <2> QED BY <2>1, <2>2
<1>18. \A f \in {"active", "client", "bound", "arrayBuffer", "blendFunc", "projection",
                 "modelview", "unpack"} : h[f] = b[f]
  BY <1>11, <1>12 DEF Context
<1> QED BY <1>11, <1>13, <1>14, <1>15, <1>16, <1>17, <1>18 DEF GivenBack

LEMMA RestoreKept == DrawInv /\ RestoreState => DrawInv'
<1> SUFFICES ASSUME DrawInv, RestoreState PROVE DrawInv'
  OBVIOUS
<1>1. /\ gl \in Context /\ before \in Context /\ Drawn(gl, before) /\ Holds(locals, before)
      /\ before' = before /\ drawing' = "no"
  BY DEF DrawInv, RestoreState
<1>2. gl' \in Context /\ GivenBack(gl', before)
  BY <1>1, Restored DEF RestoreState
<1> QED BY <1>1, <1>2 DEF DrawInv

\* The overlay gives the engine's context back as it found it, within the
\* exceptions that GivenBack names: for every set of buffer objects, every number
\* of the engine's calls, and whatever libpng makes of cursor.png.
THEOREM ContextGivenBack == DrawSpec => []EngineStateKept
<1>1. DrawInit => DrawInv
  <2> SUFFICES ASSUME DrawInit PROVE DrawInv
    OBVIOUS
  <2>1. NewContext \in Context
    BY DEF NewContext, Context, Word, Source, Pointer, Unit, Switch
  <2>2. Same(NewContext, NewContext)
    BY DEF Same, SameRest
  <2> QED BY <2>1, <2>2, SameKept DEF DrawInit, DrawInv
<1>2. DrawInv /\ [DrawNext]_drawvars => DrawInv'
  <2>1. DrawInv /\ UNCHANGED drawvars => DrawInv'
    BY DEF DrawInv, drawvars
  <2> QED BY <2>1, EngineKept, UploadKept, SaveKept, DrawKept, RestoreKept DEF DrawNext
<1>3. DrawInv => EngineStateKept
  BY DEF DrawInv, EngineStateKept
<1> QED BY <1>1, <1>2, <1>3, PTL DEF DrawSpec

-------------------------------------------------------------------------------
(* The samples of the mouse. *)

\* The sum of a field over a set of samples, and the function MapThenSumSet recurs by.
SumOf(s, field, S) == MapThenSumSet(LAMBDA i : s[i][field], S)

OneOf(S) == CHOOSE x \in S : TRUE

Adding(s, field, S, g) ==
    g = [t \in SUBSET S |-> IF t = {} THEN 0 ELSE s[OneOf(t)][field] + g[t \ {OneOf(t)}]]

\* Induction on finite sets: a family of finite sets has a smallest one.
Smallest(x, T) == x \in T /\ \A y \in T : y \subseteq x => y = x

LEMMA SmallestSet ==
  ASSUME NEW S, NEW T, T \subseteq FiniteSubsetsOf(S), T # {}
  PROVE  \E x : Smallest(x, T)
<1>1. \E x \in T : \A y \in T : <<y, x>> \notin StrictSubsetOrdering(S)
  BY FS_StrictSubsetOrderingWellFounded, WFMin
<1> QED BY <1>1 DEF StrictSubsetOrdering, FiniteSubsetsOf, Smallest

LEMMA OneLess ==
  ASSUME NEW S, IsFiniteSet(S), S # {}
  PROVE  /\ OneOf(S) \in S /\ S \ {OneOf(S)} \subseteq S /\ S \ {OneOf(S)} # S
         /\ IsFiniteSet(S \ {OneOf(S)})
<1>1. OneOf(S) \in S
  BY DEF OneOf
<1> QED BY <1>1, FS_Subset

LEMMA AddingIs ==
  ASSUME NEW s, NEW field, NEW S, NEW g, Adding(s, field, S, g), NEW t \in SUBSET S
  PROVE  g[t] = IF t = {} THEN 0 ELSE s[OneOf(t)][field] + g[t \ {OneOf(t)}]
  BY DEF Adding

LEMMA AddingsAgree ==
  ASSUME NEW s, NEW field, NEW S, NEW g, Adding(s, field, S, g),
         NEW R, NEW h, Adding(s, field, R, h), NEW t, IsFiniteSet(t), t \subseteq S, t \subseteq R
  PROVE  g[t] = h[t]
<1>1. ASSUME NEW T, T = {u \in SUBSET t : g[u] # h[u]}, T # {} PROVE FALSE
  <2>1. T \subseteq FiniteSubsetsOf(t)
    BY <1>1, FS_Subset DEF FiniteSubsetsOf
  <2>0. T # {}
    BY <1>1
  <2>2. PICK x : Smallest(x, T)
    BY <2>0, <2>1, SmallestSet
  <2>3. x \subseteq t /\ IsFiniteSet(x) /\ g[x] # h[x] /\ x \in SUBSET S /\ x \in SUBSET R
    BY <1>1, <2>2, FS_Subset DEF Smallest
  <2>4. x # {}
    <3>1. x = {} => g[x] = 0 /\ h[x] = 0
      BY <2>3, AddingIs
    <3> QED BY <2>3, <3>1
  <2>5. /\ x \ {OneOf(x)} \subseteq x /\ x \ {OneOf(x)} # x
    BY <2>3, <2>4, OneLess
  <2>6. g[x \ {OneOf(x)}] = h[x \ {OneOf(x)}]
    BY <1>1, <2>2, <2>3, <2>5 DEF Smallest
  <2>7. /\ g[x] = s[OneOf(x)][field] + g[x \ {OneOf(x)}]
        /\ h[x] = s[OneOf(x)][field] + h[x \ {OneOf(x)}]
    BY <2>3, <2>4, AddingIs
  <2> QED BY <2>3, <2>6, <2>7
<1> QED BY <1>1

\* The function exists, and SumOf is its value.
Adder(s, field, S) == CHOOSE g : Adding(s, field, S, g)
SumIn(s, field, S) == Adder(s, field, S)[S]

LEMMA SumInStep ==
  ASSUME NEW s, NEW field, NEW S, IsFiniteSet(S), S # {},
         \E g : Adding(s, field, S, g), \E g : Adding(s, field, S \ {OneOf(S)}, g)
  PROVE  SumIn(s, field, S) = s[OneOf(S)][field] + SumIn(s, field, S \ {OneOf(S)})
<1> DEFINE R == S \ {OneOf(S)}
<1>1. Adding(s, field, S, Adder(s, field, S)) /\ Adding(s, field, R, Adder(s, field, R))
  BY DEF Adder
<1>2. R \subseteq S /\ IsFiniteSet(R)
  BY OneLess
<1>3. Adder(s, field, S)[S] = s[OneOf(S)][field] + Adder(s, field, S)[R]
  BY <1>1, AddingIs
<1>4. Adder(s, field, S)[R] = Adder(s, field, R)[R]
  BY <1>1, <1>2, AddingsAgree
<1> QED BY <1>3, <1>4 DEF SumIn

LEMMA AddingExists ==
  ASSUME NEW s, NEW field, NEW S, IsFiniteSet(S)
  PROVE  \E g : Adding(s, field, S, g)
<1>1. ASSUME NEW T, T = {u \in SUBSET S : ~ \E g : Adding(s, field, u, g)}, T # {} PROVE FALSE
  <2>1. T \subseteq FiniteSubsetsOf(S)
    BY <1>1, FS_Subset DEF FiniteSubsetsOf
  <2>0. T # {}
    BY <1>1
  <2>2. PICK x : Smallest(x, T)
    BY <2>0, <2>1, SmallestSet
  <2>3. /\ x \subseteq S /\ IsFiniteSet(x) /\ ~ \E g : Adding(s, field, x, g)
    BY <1>1, <2>2, FS_Subset DEF Smallest
  <2>4. \A u : u \subseteq x /\ u # x => \E g : Adding(s, field, u, g)
    BY <1>1, <2>2, <2>3 DEF Smallest
  <2> DEFINE g == [t \in SUBSET x |-> IF t = {} THEN 0
                     ELSE s[OneOf(t)][field] + SumIn(s, field, t \ {OneOf(t)})]
  <2>5. ASSUME NEW t \in SUBSET x, t # {}
        PROVE  g[t \ {OneOf(t)}] = SumIn(s, field, t \ {OneOf(t)})
    <3> DEFINE u == t \ {OneOf(t)}
    <3>1. OneOf(t) \in t /\ IsFiniteSet(u)
      BY <2>3, <2>5, OneLess, FS_Subset
    <3>2. u \subseteq x /\ u # x
      BY <3>1
    <3>3. \E h : Adding(s, field, u, h)
      BY <2>4, <3>2
    <3> HIDE DEF u
    <3>4. CASE u = {}
      <4>1. Adding(s, field, u, Adder(s, field, u))
        BY <3>3 DEF Adder
      <4>2. Adder(s, field, u)[u] = 0
        BY <4>1, <3>4, AddingIs
      <4> QED BY <4>2, <3>4 DEF SumIn, u
    <3>5. CASE u # {}
      <4>1. /\ u \ {OneOf(u)} \subseteq x /\ u \ {OneOf(u)} # x
        BY <3>1, <3>2, <3>5, OneLess
      <4>2. SumIn(s, field, u) = s[OneOf(u)][field] + SumIn(s, field, u \ {OneOf(u)})
        BY <4>1, <3>1, <3>3, <3>5, <2>4, SumInStep
      <4> QED BY <4>2, <3>2, <3>5 DEF u
    <3> QED BY <3>4, <3>5
  <2>6. \A t \in SUBSET x : g[t] = IF t = {} THEN 0 ELSE s[OneOf(t)][field] + g[t \ {OneOf(t)}]
    BY <2>5
  <2>7. g = [t \in SUBSET x |-> g[t]]
    OBVIOUS
  <2> HIDE DEF g
  <2>8. Adding(s, field, x, g)
    BY <2>6, <2>7 DEF Adding
  <2> QED BY <2>8, <2>3
<1> QED BY <1>1, FS_Subset

LEMMA SumStep ==
  ASSUME NEW s, NEW field, NEW S, IsFiniteSet(S)
  PROVE  SumOf(s, field, S) =
           IF S = {} THEN 0 ELSE s[OneOf(S)][field] + SumOf(s, field, S \ {OneOf(S)})
<1>1. \A R : SumOf(s, field, R) = SumIn(s, field, R)
  BY DEF SumOf, SumIn, Adder, Adding, OneOf, MapThenSumSet, MapThenFoldSet
<1>2. \E g : Adding(s, field, S, g)
  BY AddingExists
<1>3. CASE S = {}
  <2>1. Adding(s, field, S, Adder(s, field, S))
    BY <1>2 DEF Adder
  <2> QED BY <1>1, <1>3, <2>1, AddingIs DEF SumIn
<1>4. CASE S # {}
  <2>1. \E g : Adding(s, field, S \ {OneOf(S)}, g)
    BY <1>4, OneLess, AddingExists
  <2> QED BY <1>1, <1>2, <1>4, <2>1, SumInStep
<1> QED BY <1>3, <1>4

LEMMA SumInt ==
  ASSUME NEW s, NEW field, NEW S, IsFiniteSet(S), \A i \in S : s[i][field] \in Int
  PROVE  SumOf(s, field, S) \in Int
<1>1. ASSUME NEW T, T = {u \in SUBSET S : SumOf(s, field, u) \notin Int}, T # {} PROVE FALSE
  <2>1. T \subseteq FiniteSubsetsOf(S)
    BY <1>1, FS_Subset DEF FiniteSubsetsOf
  <2>2. T # {}
    BY <1>1
  <2>3. PICK x : Smallest(x, T)
    BY <2>1, <2>2, SmallestSet
  <2>4. x \subseteq S /\ IsFiniteSet(x) /\ SumOf(s, field, x) \notin Int
    BY <1>1, <2>3, FS_Subset DEF Smallest
  <2>5. SumOf(s, field, x) =
          IF x = {} THEN 0 ELSE s[OneOf(x)][field] + SumOf(s, field, x \ {OneOf(x)})
    BY <2>4, SumStep
  <2>6. x # {}
    BY <2>4, <2>5
  <2>7. OneOf(x) \in x
    BY <2>6 DEF OneOf
  <2>8. SumOf(s, field, x \ {OneOf(x)}) \in Int
    BY <1>1, <2>3, <2>4, <2>7 DEF Smallest
  <2> QED BY <2>4, <2>5, <2>6, <2>7, <2>8
<1> QED BY <1>1

\* It does not matter which sample is added first.
LEMMA SumTake ==
  ASSUME NEW s, NEW field, NEW S, IsFiniteSet(S), \A i \in S : s[i][field] \in Int, NEW p \in S
  PROVE  SumOf(s, field, S) = s[p][field] + SumOf(s, field, S \ {p})
<1> DEFINE Sum(R) == SumOf(s, field, R)
<1>1. ASSUME NEW T, T = {u \in SUBSET S : \E q \in u : Sum(u) # s[q][field] + Sum(u \ {q})},
             T # {}
      PROVE  FALSE
  <2>1. T \subseteq FiniteSubsetsOf(S)
    BY <1>1, FS_Subset DEF FiniteSubsetsOf
  <2>2. T # {}
    BY <1>1
  <2>3. PICK x : Smallest(x, T)
    BY <2>1, <2>2, SmallestSet
  <2>4. x \subseteq S /\ IsFiniteSet(x)
    BY <1>1, <2>3, FS_Subset DEF Smallest
  <2>5. PICK q \in x : Sum(x) # s[q][field] + Sum(x \ {q})
    BY <1>1, <2>3 DEF Smallest
  <2>6. PICK f : f = OneOf(x)
    OBVIOUS
  <2>7. f \in x
    BY <2>5, <2>6 DEF OneOf
  <2>8. Sum(x) = s[f][field] + Sum(x \ {f})
    BY <2>4, <2>5, <2>6, SumStep
  <2>9. f # q
    BY <2>5, <2>8
  <2>10. ASSUME NEW a \in x, NEW b \in x, a # b
         PROVE  Sum(x \ {a}) = s[b][field] + Sum(x \ {a, b})
    <3>1. x \ {a} \in SUBSET S /\ x \ {a} \notin T
      BY <1>1, <2>3, <2>4 DEF Smallest
    <3>2. b \in x \ {a} /\ (x \ {a}) \ {b} = x \ {a, b}
      BY <2>10
    <3> QED BY <1>1, <3>1, <3>2
  <2>11. Sum(x \ {f}) = s[q][field] + Sum(x \ {f, q}) /\ Sum(x \ {q}) = s[f][field] + Sum(x \ {f, q})
    <3>1. {f, q} = {q, f}
      OBVIOUS
    <3> QED BY <2>5, <2>7, <2>9, <2>10, <3>1
  <2>12. Sum(x \ {f, q}) \in Int /\ s[f][field] \in Int /\ s[q][field] \in Int
    <3>1. x \ {f, q} \subseteq S /\ IsFiniteSet(x \ {f, q})
      BY <2>4, FS_Subset
    <3> QED BY <2>4, <2>5, <2>7, <3>1, SumInt
  <2> QED BY <2>5, <2>8, <2>11, <2>12
<1>2. {u \in SUBSET S : \E q \in u : Sum(u) # s[q][field] + Sum(u \ {q})} = {}
  BY <1>1
<1>3. S \in SUBSET S /\ p \in S
  OBVIOUS
<1> QED BY <1>2, <1>3

\* The samples of two frames add up.
LEMMA SumUnion ==
  ASSUME NEW s, NEW field, NEW A, NEW B, IsFiniteSet(A), IsFiniteSet(B), A \cap B = {},
         \A i \in A \cup B : s[i][field] \in Int
  PROVE  SumOf(s, field, A \cup B) = SumOf(s, field, A) + SumOf(s, field, B)
<1> DEFINE Sum(R) == SumOf(s, field, R)
<1>1. ASSUME NEW T, T = {u \in SUBSET B : Sum(A \cup u) # Sum(A) + Sum(u)}, T # {} PROVE FALSE
  <2>1. T \subseteq FiniteSubsetsOf(B)
    BY <1>1, FS_Subset DEF FiniteSubsetsOf
  <2>2. T # {}
    BY <1>1
  <2>3. PICK x : Smallest(x, T)
    BY <2>1, <2>2, SmallestSet
  <2>4. x \subseteq B /\ IsFiniteSet(x) /\ Sum(A \cup x) # Sum(A) + Sum(x)
    BY <1>1, <2>3, FS_Subset DEF Smallest
  <2>5. Sum(A) \in Int /\ IsFiniteSet(A \cup x)
    BY <2>4, SumInt, FS_Union
  <2>6. x # {}
    <3>1. SUFFICES ASSUME x = {} PROVE FALSE
      OBVIOUS
    <3>2. Sum(x) = 0
      BY <2>4, <3>1, SumStep
    <3>3. A \cup x = A
      BY <3>1
    <3> QED BY <2>4, <2>5, <3>2, <3>3
  <2>7. PICK q : q \in x
    BY <2>6
  <2>8. Sum(x) = s[q][field] + Sum(x \ {q})
    BY <2>4, <2>7, SumTake
  <2>9. (A \cup x) \ {q} = A \cup (x \ {q})
    BY <2>4, <2>7
  <2>10. Sum(A \cup x) = s[q][field] + Sum(A \cup (x \ {q}))
    <3>1. q \in A \cup x /\ \A i \in A \cup x : s[i][field] \in Int
      BY <2>4, <2>7
    <3> QED BY <2>5, <2>9, <3>1, SumTake
  <2>11. Sum(A \cup (x \ {q})) = Sum(A) + Sum(x \ {q})
    BY <1>1, <2>3, <2>4, <2>7 DEF Smallest
  <2>12. Sum(x \ {q}) \in Int /\ s[q][field] \in Int
    <3>1. x \ {q} \subseteq B /\ IsFiniteSet(x \ {q})
      BY <2>4, FS_Subset
    <3> QED BY <2>4, <2>7, <3>1, SumInt
  <2> QED BY <2>4, <2>5, <2>8, <2>10, <2>11, <2>12
<1> QED BY <1>1

\* What is sampled later does not change the sum of what was sampled before.
LEMMA SumSame ==
  ASSUME NEW s, NEW r, NEW field, NEW S, IsFiniteSet(S), \A i \in S : s[i] = r[i]
  PROVE  SumOf(s, field, S) = SumOf(r, field, S)
<1>1. ASSUME NEW T, T = {u \in SUBSET S : SumOf(s, field, u) # SumOf(r, field, u)}, T # {}
      PROVE  FALSE
  <2>1. T \subseteq FiniteSubsetsOf(S)
    BY <1>1, FS_Subset DEF FiniteSubsetsOf
  <2>2. T # {}
    BY <1>1
  <2>3. PICK x : Smallest(x, T)
    BY <2>1, <2>2, SmallestSet
  <2>4. x \subseteq S /\ IsFiniteSet(x) /\ SumOf(s, field, x) # SumOf(r, field, x)
    BY <1>1, <2>3, FS_Subset DEF Smallest
  <2>5. x # {}
    BY <2>4, SumStep
  <2>6. OneOf(x) \in x
    BY <2>5 DEF OneOf
  <2>7. SumOf(s, field, x \ {OneOf(x)}) = SumOf(r, field, x \ {OneOf(x)})
    BY <1>1, <2>3, <2>4, <2>6 DEF Smallest
  <2>8. /\ SumOf(s, field, x) = s[OneOf(x)][field] + SumOf(s, field, x \ {OneOf(x)})
        /\ SumOf(r, field, x) = r[OneOf(x)][field] + SumOf(r, field, x \ {OneOf(x)})
    BY <2>4, <2>5, SumStep
  <2> QED BY <2>4, <2>6, <2>7, <2>8
<1> QED BY <1>1

LEMMA SumZero ==
  ASSUME NEW s, NEW field, NEW S, IsFiniteSet(S), \A i \in S : s[i][field] = 0
  PROVE  SumOf(s, field, S) = 0
<1>1. ASSUME NEW T, T = {u \in SUBSET S : SumOf(s, field, u) # 0}, T # {}
      PROVE  FALSE
  <2>1. T \subseteq FiniteSubsetsOf(S)
    BY <1>1, FS_Subset DEF FiniteSubsetsOf
  <2>2. T # {}
    BY <1>1
  <2>3. PICK x : Smallest(x, T)
    BY <2>1, <2>2, SmallestSet
  <2>4. x \subseteq S /\ IsFiniteSet(x) /\ SumOf(s, field, x) # 0
    BY <1>1, <2>3, FS_Subset DEF Smallest
  <2>5. x # {}
    BY <2>4, SumStep
  <2>6. OneOf(x) \in x
    BY <2>5 DEF OneOf
  <2>7. SumOf(s, field, x \ {OneOf(x)}) = 0
    BY <1>1, <2>3, <2>4, <2>6 DEF Smallest
  <2>8. SumOf(s, field, x) = s[OneOf(x)][field] + SumOf(s, field, x \ {OneOf(x)})
    BY <2>4, <2>5, SumStep
  <2> QED BY <2>4, <2>6, <2>7, <2>8
<1> QED BY <1>1


-------------------------------------------------------------------------------
(* The samples of the mouse. *)

\* What the wheel did over a set of samples.
WheelIn(s, set) ==
    IF SumOf(s, "wheel_y", set) # 0 THEN SumOf(s, "wheel_y", set) ELSE SumOf(s, "wheel_x", set)

MouseTypes ==
    /\ samples \in Seq(Sample) /\ overrun \subseteq DOMAIN samples
    /\ s_mouse_seen \in Nat /\ synced \in 0..Len(samples)
    /\ travelled \in Int /\ s_mouse_sens \in Int

\* What was seen last, and where the mouse was when it was first seen.
SeenSoFar ==
    /\ s_mouse_seen = 0 => travelled = 0 /\ s_mouse_sens = StartSens
    /\ s_mouse_seen # 0 => Number(synced) <= s_mouse_seen /\ s_mouse_seen <= Number(Len(samples))

\* The samples that have left the ring unseen, and no others, are overrun.
OverrunIs ==
    /\ \A i \in overrun : i <= Len(samples) - Ring
    /\ \A i \in DOMAIN samples :
          i <= Len(samples) - Ring /\ Number(i) > s_mouse_seen => i \in overrun

MouseInv == MouseTypes /\ SeenSoFar /\ OverrunIs /\ EverySampleCounts

Samples(s) == s \in Seq(Sample)

LEMMA FieldsInt ==
  ASSUME NEW s, Samples(s), NEW i \in DOMAIN s
  PROVE  s[i]["dx"] \in Int /\ s[i]["wheel_y"] \in Int /\ s[i]["wheel_x"] \in Int
<1>1. s[i] \in Sample
  BY ElementOfSeq DEF Samples
<1> QED BY <1>1, SampleAssumption

LEMMA IndicesFinite ==
  ASSUME NEW s, Samples(s), NEW S, S \subseteq DOMAIN s
  PROVE  IsFiniteSet(S)
<1>1. Len(s) \in Nat /\ DOMAIN s = 1..Len(s)
  BY LenProperties DEF Samples
<1>2. IsFiniteSet(1..Len(s))
  BY <1>1, FS_Interval
<1> QED BY <1>1, <1>2, FS_Subset

\* The motion and the notches of two frames add up, whichever axis the wheel is on.
LEMMA FramesAddUp ==
  ASSUME NEW s, Samples(s), NEW A, NEW B, A \subseteq DOMAIN s, B \subseteq DOMAIN s, A \cap B = {}
  PROVE  /\ SumOf(s, "dx", A \cup B) = SumOf(s, "dx", A) + SumOf(s, "dx", B)
         /\ WheelIn(s, A \cup B) = WheelIn(s, A) + WheelIn(s, B)
         /\ SumOf(s, "dx", B) \in Int /\ WheelIn(s, A) \in Int /\ WheelIn(s, B) \in Int
<1>1. IsFiniteSet(A) /\ IsFiniteSet(B)
  BY IndicesFinite
<1>2. \A i \in A \cup B :
         s[i]["dx"] \in Int /\ s[i]["wheel_y"] \in Int /\ s[i]["wheel_x"] \in Int
  BY FieldsInt
<1>3. /\ SumOf(s, "dx", A \cup B) = SumOf(s, "dx", A) + SumOf(s, "dx", B)
      /\ SumOf(s, "wheel_y", A \cup B) = SumOf(s, "wheel_y", A) + SumOf(s, "wheel_y", B)
      /\ SumOf(s, "wheel_x", A \cup B) = SumOf(s, "wheel_x", A) + SumOf(s, "wheel_x", B)
  BY <1>1, <1>2, SumUnion
<1>4. /\ SumOf(s, "dx", B) \in Int
      /\ SumOf(s, "wheel_y", A) \in Int /\ SumOf(s, "wheel_y", B) \in Int
      /\ SumOf(s, "wheel_x", A) \in Int /\ SumOf(s, "wheel_x", B) \in Int
  BY <1>1, <1>2, SumInt
<1>5. PICK axis \in {"wheel_y", "wheel_x"} : \A t \in Sample : t[axis] = 0
  BY SampleAssumption
<1>6. \A i \in A \cup B : s[i][axis] = 0
  BY <1>5, ElementOfSeq DEF Samples
<1>7. SumOf(s, axis, A) = 0 /\ SumOf(s, axis, B) = 0
  BY <1>1, <1>6, SumZero
<1>8. WheelIn(s, A \cup B) = WheelIn(s, A) + WheelIn(s, B)
  BY <1>3, <1>4, <1>5, <1>7 DEF WheelIn
<1> QED BY <1>3, <1>4, <1>8 DEF WheelIn

\* Samples that come later do not change what earlier ones add up to.
LEMMA EarlierStay ==
  ASSUME NEW s, Samples(s), NEW t, NEW S, S \subseteq DOMAIN s, \A i \in S : t[i] = s[i]
  PROVE  SumOf(t, "dx", S) = SumOf(s, "dx", S) /\ WheelIn(t, S) = WheelIn(s, S)
<1>1. IsFiniteSet(S)
  BY IndicesFinite
<1>2. /\ SumOf(t, "dx", S) = SumOf(s, "dx", S)
      /\ SumOf(t, "wheel_y", S) = SumOf(s, "wheel_y", S)
      /\ SumOf(t, "wheel_x", S) = SumOf(s, "wheel_x", S)
  BY <1>1, SumSame
<1> QED BY <1>2 DEF WheelIn

LEMMA CountsIs ==
  /\ EverySampleCounts <=>
       (s_mouse_seen # 0 =>
          /\ travelled = SumOf(samples, "dx", Due)
          /\ s_mouse_sens = StartSens + WheelIn(samples, Due) \/ curbed)
  /\ EverySampleCounts' <=>
       (s_mouse_seen' # 0 =>
          /\ travelled' = SumOf(samples', "dx", Due')
          /\ s_mouse_sens' = StartSens + WheelIn(samples', Due') \/ curbed')
<1>1. \A f, S : Total(f, S) = SumOf(samples, f, S)
  BY DEF Total, SumOf
<1>2. \A S : WheelOf(S) = WheelIn(samples, S)
  BY <1>1 DEF WheelOf, WheelIn
<1>3. /\ Total("dx", Due)' = SumOf(samples', "dx", Due')
      /\ Total("wheel_y", Due)' = SumOf(samples', "wheel_y", Due')
      /\ Total("wheel_x", Due)' = SumOf(samples', "wheel_x", Due')
  BY DEF Total, SumOf, MapThenSumSet, MapThenFoldSet
<1>4. WheelOf(Due)' = WheelIn(samples', Due')
  BY <1>3 DEF WheelOf, WheelIn
<1> QED BY <1>1, <1>2, <1>3, <1>4 DEF EverySampleCounts

LEMMA HidSamplesKeeps == MouseInv /\ HidSamples => MouseInv'
<1> SUFFICES ASSUME MouseInv, HidSamples PROVE MouseInv'
  OBVIOUS
<1>1. /\ Samples(samples) /\ Len(samples) \in Nat /\ DOMAIN samples = 1..Len(samples)
      /\ overrun \subseteq DOMAIN samples /\ synced \in 0..Len(samples) /\ s_mouse_seen \in Nat
  BY LenProperties DEF MouseInv, MouseTypes, Samples
<1>2. Ring \in Nat \ {0} /\ FirstNumber \in Nat
  BY MouseAssumption
<1>3. /\ samples' \in Seq(Sample) /\ Len(samples') = Len(samples) + 1
      /\ DOMAIN samples' = 1..(Len(samples) + 1)
      /\ \A i \in DOMAIN samples : samples'[i] = samples[i]
  <2>1. PICK s \in Sample : samples' = Append(samples, s)
    BY DEF HidSamples
  <2> QED BY <1>1, <2>1, AppendProperties, LenProperties DEF Samples
<1>4. /\ s_mouse_seen' = s_mouse_seen /\ travelled' = travelled
      /\ s_mouse_sens' = s_mouse_sens /\ synced' = synced /\ curbed' = curbed
  BY DEF HidSamples
<1>5. /\ \A i \in overrun' : i \in overrun \/ (i \in DOMAIN samples /\ i <= Len(samples) + 1 - Ring
                                              /\ Number(i) > s_mouse_seen)
      /\ overrun \subseteq overrun'
      /\ \A i \in DOMAIN samples : i > Len(samples) - Ring /\ i <= Len(samples) + 1 - Ring
                                   /\ Number(i) > s_mouse_seen => i \in overrun'
  BY DEF HidSamples, Buffered
<1>6. MouseTypes'
  BY <1>1, <1>3, <1>4, <1>5 DEF MouseInv, MouseTypes
<1>7. SeenSoFar'
  BY <1>1, <1>2, <1>3, <1>4 DEF MouseInv, SeenSoFar, Number
<1>8. OverrunIs'
  <2>1. ASSUME NEW i \in overrun' PROVE i <= Len(samples') - Ring
    BY <1>1, <1>2, <1>3, <1>5, <2>1 DEF MouseInv, OverrunIs
  <2>2. ASSUME NEW i \in DOMAIN samples', i <= Len(samples') - Ring, Number(i) > s_mouse_seen'
        PROVE  i \in overrun'
    <3>1. i \in DOMAIN samples
      BY <1>1, <1>2, <1>3, <2>2
    <3>2. CASE i <= Len(samples) - Ring
      BY <1>4, <1>5, <2>2, <3>1, <3>2 DEF MouseInv, OverrunIs
    <3>3. CASE ~(i <= Len(samples) - Ring)
      BY <1>1, <1>2, <1>3, <1>4, <1>5, <2>2, <3>1, <3>3
    <3> QED BY <3>2, <3>3
  <2> QED BY <2>1, <2>2 DEF OverrunIs, Number
<1>9. EverySampleCounts'
  <2>1. SUFFICES ASSUME s_mouse_seen # 0 PROVE EverySampleCounts'
    BY <1>4, CountsIs
  <2>2. Due \subseteq DOMAIN samples
    BY DEF Due
  <2>3. s_mouse_seen <= Number(Len(samples))
    BY <2>1 DEF MouseInv, SeenSoFar
  <2>4. Due' = Due
    <3>1. ASSUME NEW i \in Due' PROVE i \in Due
      BY <1>1, <1>2, <1>3, <1>4, <1>5, <2>3, <3>1 DEF Due, Number
    <3>2. ASSUME NEW i \in Due PROVE i \in Due'
      BY <1>1, <1>2, <1>3, <1>4, <1>5, <3>2 DEF Due, Number
    <3> QED BY <3>1, <3>2
  <2>5. /\ SumOf(samples', "dx", Due) = SumOf(samples, "dx", Due)
        /\ WheelIn(samples', Due) = WheelIn(samples, Due)
    BY <1>1, <1>3, <2>2, EarlierStay
  <2> QED BY <1>4, <2>4, <2>5, CountsIs DEF MouseInv
<1> QED BY <1>6, <1>7, <1>8, <1>9 DEF MouseInv

LEMMA ReadMouseKeeps == MouseInv /\ ReadMouse => MouseInv'
<1> SUFFICES ASSUME MouseInv, ReadMouse PROVE MouseInv'
  OBVIOUS
<1>1. /\ Samples(samples) /\ Len(samples) \in Nat /\ DOMAIN samples = 1..Len(samples)
      /\ overrun \subseteq DOMAIN samples /\ synced \in 0..Len(samples) /\ s_mouse_seen \in Nat
      /\ travelled \in Int /\ s_mouse_sens \in Int
  BY LenProperties DEF MouseInv, MouseTypes, Samples
<1>2. /\ Ring \in Nat \ {0} /\ FirstNumber \in Nat /\ StartSens \in Int
      /\ MinSens \in Int /\ MaxSens \in Int
  BY MouseAssumption
<1>3. Len(samples) >= 1
  BY <1>1 DEF ReadMouse, Buffered
<1>4. /\ s_mouse_seen' = Number(Len(samples)) /\ samples' = samples /\ overrun' = overrun
  BY DEF ReadMouse
<1>5. OverrunIs'
  BY <1>1, <1>2, <1>4 DEF MouseInv, OverrunIs, Number
<1>6. CASE s_mouse_seen = 0
  <2>1. /\ synced' = Len(samples) /\ travelled' = travelled
        /\ s_mouse_sens' = s_mouse_sens /\ curbed' = curbed
    BY <1>6 DEF ReadMouse
  <2>2. travelled = 0 /\ s_mouse_sens = StartSens
    BY <1>6 DEF MouseInv, SeenSoFar
  <2>3. MouseTypes' /\ SeenSoFar'
    BY <1>1, <1>2, <1>3, <1>4, <2>1, <2>2 DEF MouseTypes, SeenSoFar, Number, Samples
  <2>4. Due' = {}
    BY <1>1, <1>4, <2>1 DEF Due
  <2>5. SumOf(samples, "dx", {}) = 0 /\ WheelIn(samples, {}) = 0
    BY SumStep, FS_EmptySet DEF WheelIn
  <2>6. EverySampleCounts'
    BY <1>2, <1>4, <2>1, <2>2, <2>4, <2>5, CountsIs
  <2> QED BY <1>5, <2>3, <2>6 DEF MouseInv
<1>7. CASE s_mouse_seen # 0
  <2>1. Number(synced) <= s_mouse_seen /\ s_mouse_seen <= Number(Len(samples))
    BY <1>7 DEF MouseInv, SeenSoFar
  <2>2. Due' = Due \cup Fresh /\ Due \cap Fresh = {}
    <3>1. \A i \in DOMAIN samples : i \in Due' <=> i \in Due \/ i \in Fresh
      <4> SUFFICES ASSUME NEW i \in DOMAIN samples PROVE i \in Due' <=> i \in Due \/ i \in Fresh
        OBVIOUS
      <4>1. synced' = synced
        BY <1>7 DEF ReadMouse
      <4>2. i \in Due' <=> i > synced /\ i \notin overrun
        BY <1>1, <1>2, <1>4, <4>1 DEF Due, Number
      <4>3. i \in Due <=> i > synced /\ i \notin overrun /\ Number(i) <= s_mouse_seen
        BY DEF Due
      <4>4. i \in Fresh <=> i > Len(samples) - Ring /\ Number(i) > s_mouse_seen
        BY DEF Fresh, Buffered
      <4>5. Number(i) > s_mouse_seen => i > synced
        BY <1>1, <1>2, <2>1 DEF Number
      <4>6. i \in overrun => i <= Len(samples) - Ring
        BY DEF MouseInv, OverrunIs
      <4>7. i <= Len(samples) - Ring /\ Number(i) > s_mouse_seen => i \in overrun
        BY DEF MouseInv, OverrunIs
      <4>8. Number(i) \in Int /\ Len(samples) - Ring \in Int
        BY <1>1, <1>2 DEF Number
      <4> QED BY <1>1, <4>2, <4>3, <4>4, <4>5, <4>6, <4>7, <4>8
    <3>2. Due' \subseteq DOMAIN samples /\ Due \subseteq DOMAIN samples /\ Fresh \subseteq DOMAIN samples
      BY <1>4 DEF Due, Fresh, Buffered
    <3>3. \A i \in DOMAIN samples : ~(i \in Due /\ i \in Fresh)
      BY <1>1, <1>2 DEF Due, Fresh, Number
    <3> QED BY <3>1, <3>2, <3>3
  <2>3. Due \subseteq DOMAIN samples /\ Fresh \subseteq DOMAIN samples
    BY DEF Due, Fresh, Buffered
  <2>4. /\ SumOf(samples, "dx", Due \cup Fresh)
             = SumOf(samples, "dx", Due) + SumOf(samples, "dx", Fresh)
        /\ WheelIn(samples, Due \cup Fresh) = WheelIn(samples, Due) + WheelIn(samples, Fresh)
        /\ SumOf(samples, "dx", Fresh) \in Int
        /\ WheelIn(samples, Due) \in Int /\ WheelIn(samples, Fresh) \in Int
    <3>1. Due \cap Fresh = {}
      BY <2>2
    <3>2. Samples(samples)
      BY <1>1
    <3> QED BY <2>3, <3>1, <3>2, FramesAddUp
  <2>5. \A f : Total(f, Fresh) = SumOf(samples, f, Fresh)
    BY DEF Total, SumOf
  <2>6. WheelOf(Fresh) = WheelIn(samples, Fresh)
    BY <2>5 DEF WheelOf, WheelIn
  <2>7. /\ travelled' = travelled + SumOf(samples, "dx", Fresh)
        /\ s_mouse_sens' = SensClamped(s_mouse_sens + Notches(WheelIn(samples, Fresh)))
        /\ curbed' <=> (curbed \/ s_mouse_sens' # s_mouse_sens + WheelIn(samples, Fresh))
        /\ synced' = synced
    BY <1>7, <2>5, <2>6 DEF ReadMouse
  <2>8. s_mouse_sens' \in Int
    <3>1. Notches(WheelIn(samples, Fresh)) \in Int
      BY <2>4, MouseAssumption DEF Notches
    <3> QED BY <1>1, <1>2, <2>7, <3>1 DEF SensClamped
  <2>9. MouseTypes' /\ SeenSoFar'
    <3>1. PICK total : total = SumOf(samples, "dx", Fresh)
      OBVIOUS
    <3>2. travelled' = travelled + total /\ total \in Int
      BY <2>4, <2>7, <3>1
    <3>3. s_mouse_seen' \in Nat /\ travelled' \in Int /\ synced' \in 0..Len(samples)
      BY <1>1, <1>2, <1>3, <1>4, <2>7, <3>2 DEF Number
    <3>4. MouseTypes'
      BY <1>1, <1>4, <2>8, <3>3 DEF MouseTypes, Samples
    <3>5. SeenSoFar'
      BY <1>1, <1>2, <1>3, <1>4, <1>7, <2>1, <2>7 DEF SeenSoFar, Number
    <3> QED BY <3>4, <3>5
  <2>10. EverySampleCounts'
    <3>1. travelled = SumOf(samples, "dx", Due)
      BY <1>7, CountsIs DEF MouseInv
    <3>2. s_mouse_sens = StartSens + WheelIn(samples, Due) \/ curbed
      BY <1>7, CountsIs DEF MouseInv
    <3>3. travelled' = SumOf(samples', "dx", Due')
      BY <1>4, <2>2, <2>4, <2>7, <3>1
    <3>4. s_mouse_sens' = StartSens + WheelIn(samples', Due') \/ curbed'
      BY <1>1, <1>2, <1>4, <2>2, <2>4, <2>7, <3>2
    <3> QED BY <3>3, <3>4, CountsIs
  <2> QED BY <1>5, <2>9, <2>10 DEF MouseInv
<1> QED BY <1>6, <1>7

\* Every sample of the mouse counts once, whatever HID samples and however many of
\* its samples leave the ring between two frames.
THEOREM SamplesCount == MouseSpec => []EverySampleCounts
<1>1. MouseInit => MouseInv
  <2> SUFFICES ASSUME MouseInit PROVE MouseInv
    OBVIOUS
  <2>1. samples = <<>> /\ samples \in Seq(Sample) /\ Len(samples) = 0 /\ DOMAIN samples = {}
    BY DEF MouseInit
  <2>2. MouseTypes /\ SeenSoFar /\ OverrunIs
    BY <2>1, MouseAssumption DEF MouseInit, MouseTypes, SeenSoFar, OverrunIs
  <2>3. EverySampleCounts
    BY DEF MouseInit, EverySampleCounts
  <2> QED BY <2>2, <2>3 DEF MouseInv
<1>2. MouseInv /\ UNCHANGED mousevars => MouseInv'
  BY CountsIs DEF MouseInv, MouseTypes, SeenSoFar, OverrunIs, mousevars, Due
<1>3. MouseInv /\ [MouseNext]_mousevars => MouseInv'
  BY <1>2, HidSamplesKeeps, ReadMouseKeeps DEF MouseNext
<1>4. MouseInv => EverySampleCounts
  BY DEF MouseInv
<1> QED BY <1>1, <1>3, <1>4, PTL DEF MouseSpec
===============================================================================
