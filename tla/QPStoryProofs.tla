--------------------------- MODULE QPStoryProofs -----------------------------
(***************************************************************************)
(* The power round and the bits of the queue tell the same story: what a   *)
(* slot, a round, an operation or a block makes of it.                     *)
(***************************************************************************)
EXTENDS QPRegistryProofs

-----------------------------------------------------------------------------
(* The story of a round *)

On(q, s) == BitForSlot(q, s) \in q.vchBlockStats

\* Element e of a power round is about slot s.
About(q, e, s) == q.vStakerIDs[s + 1] = e.nStakerID

Slots(q) == 0..(Size(q) - 1)

\* Every element is about a slot that was passed, or that is current and produced.
ElementsTold(p, q) ==
    \A j \in 1..Len(p) : \E s \in Slots(q) :
        /\ About(q, p[j], s)
        /\ s <= q.nCurrentSlot
        /\ p[j].fDidProduceBlock <=> On(q, s)
        /\ p[j].fDidProduceBlock \/ s < q.nCurrentSlot

Told(p, q, s) == \E j \in 1..Len(p) : About(q, p[j], s)

\* No bit is on ahead of the current slot, and every bit that is on has its element.
BitsTold(p, q) ==
    \A s \in Slots(q) : On(q, s) => s <= q.nCurrentSlot /\ Told(p, q, s)

\* Slots that were passed have their element, in the rounds and before the fork
\* RoundMirrorsQueue names.
PassedTold(p, prev, q, h) ==
    prev # << >> /\ h < ForkFeeless2 => \A s \in 0..(q.nCurrentSlot - 1) : Told(p, q, s)

\* The parts of a registry the story is about: the power rounds p and prev, the queue q,
\* fCurrentBlockWasProduced and the height h.  Before qPoS there is no element.
Story(p, prev, q, f, h) ==
    /\ ElementsTold(p, q)
    /\ BitsTold(p, q)
    /\ PassedTold(p, prev, q, h)
    /\ IF Size(q) > 0 THEN f <=> On(q, q.nCurrentSlot) ELSE ~f
    /\ h < ForkQPoS => p = << >> /\ prev = << >>

StoryOf(r) ==
    Story(r.powerRoundCurrent, r.powerRoundPrev, r.queue, r.fCurrentBlockWasProduced,
          r.nBlockHeight)

-----------------------------------------------------------------------------
(* How the story goes on *)

\* An element added to a round leaves the others where they are.
LEMMA AppendElement ==
    ASSUME NEW p \in Seq(PowerElements), NEW e \in PowerElements, NEW t, t = Append(p, e)
    PROVE  /\ t \in Seq(PowerElements) /\ Len(t) = Len(p) + 1 /\ Len(p) \in Nat
           /\ \A j \in 1..Len(p) : t[j] = p[j]
           /\ t[Len(p) + 1] = e
  OBVIOUS

\* What was told stays told.
LEMMA ToldStays ==
    ASSUME NEW p \in Seq(PowerElements), NEW e \in PowerElements, NEW t, t = Append(p, e),
           NEW q, NEW s
    PROVE  /\ Told(p, q, s) => Told(t, q, s)
           /\ About(q, e, s) => Told(t, q, s)
<1>1. /\ Len(t) = Len(p) + 1 /\ Len(p) \in Nat
      /\ \A j \in 1..Len(p) : t[j] = p[j]
      /\ t[Len(p) + 1] = e
  BY AppendElement
<1> QED
  BY <1>1 DEF Told, About

\* The bits of two slots differ, and lie inside the vector.
LEMMA BitsDiffer ==
    ASSUME NEW q \in Queues, NEW s \in Slots(q), NEW u \in Slots(q)
    PROVE  /\ BitForSlot(q, s) = BitForSlot(q, u) => s = u
           /\ BitForSlot(q, s) < StatsBits(q)
<1> DEFINE k == Size(q)
           b == StatsBits(q)
<1>1. k \in Nat
  BY DEF Queues, Size
<1>2. b \in Nat
  <2>1. b = 8 * ((k + 7) \div 8)
    BY DEF StatsBits
  <2> HIDE DEF k, b
  <2> QED
    BY <1>1, <2>1, SMT
<1>3. BitForSlot(q, s) = s + b - k /\ BitForSlot(q, u) = u + b - k
  BY DEF BitForSlot
<1>4. s \in 0..(k - 1) /\ u \in 0..(k - 1)
  BY DEF Slots
<1> HIDE DEF k, b
<1>5. s + b - k < b /\ (s + b - k = u + b - k => s = u)
  BY <1>1, <1>2, <1>4
<1> QED
  BY <1>3, <1>5 DEF b

\* A new round has nothing to tell yet.
LEMMA StoryNew ==
    ASSUME NEW p, NEW h, h < ForkQPoS => p = << >>,
           NEW d, d.nCurrentSlot = 0, d.vchBlockStats = {}, Size(d) > 0
    PROVE  Story(<< >>, p, d, FALSE, h)
  BY DEF Story, ElementsTold, BitsTold, PassedTold, Told, On

\* The clock passes a slot that was produced, or that nobody is blamed for.
LEMMA StoryPass ==
    ASSUME NEW p \in Seq(PowerElements), NEW prev, NEW q \in Queues, NEW f \in BOOLEAN, NEW h,
           Story(p, prev, q, f, h), Size(q) > 0,
           f \/ prev = << >> \/ ~(h < ForkFeeless2),
           NEW d \in Queues, d.vStakerIDs = q.vStakerIDs, d.vchBlockStats = q.vchBlockStats,
           d.nCurrentSlot = q.nCurrentSlot + 1, q.nCurrentSlot + 1 < Size(q)
    PROVE  Story(p, prev, d, FALSE, h)
<1> DEFINE c == q.nCurrentSlot
<1>1. c \in Nat /\ Size(q) \in Nat /\ Size(d) = Size(q) /\ c + 1 \in Slots(q) /\ Slots(d) = Slots(q)
      /\ c \in Slots(q)
  BY DEF Queues, Size, Slots
<1>2. \A s : On(d, s) <=> On(q, s)
  BY DEF On, BitForSlot, StatsBits, Size
<1>3. \A s : Told(p, d, s) <=> Told(p, q, s)
  BY DEF Told, About
<1>4. ElementsTold(p, d)
  <2> SUFFICES ASSUME NEW j \in 1..Len(p)
               PROVE  \E s \in Slots(d) :
                          /\ About(d, p[j], s)
                          /\ s <= d.nCurrentSlot
                          /\ p[j].fDidProduceBlock <=> On(d, s)
                          /\ p[j].fDidProduceBlock \/ s < d.nCurrentSlot
    BY DEF ElementsTold
  <2>1. PICK s \in Slots(q) :
               /\ About(q, p[j], s)
               /\ s <= c
               /\ p[j].fDidProduceBlock <=> On(q, s)
               /\ p[j].fDidProduceBlock \/ s < c
    BY DEF Story, ElementsTold
  <2>2. s \in Int /\ s <= c + 1 /\ (s < c => s < c + 1)
    BY <1>1, <2>1 DEF Slots
  <2>3. About(d, p[j], s)
    BY <2>1 DEF About
  <2> QED
    BY <1>1, <1>2, <2>1, <2>2, <2>3
<1>5. BitsTold(p, d)
  <2> SUFFICES ASSUME NEW s \in Slots(q), On(q, s)
               PROVE  s <= c + 1 /\ Told(p, q, s)
    BY <1>1, <1>2, <1>3 DEF BitsTold
  <2>1. s <= c /\ Told(p, q, s)
    BY DEF Story, BitsTold
  <2> QED
    BY <1>1, <2>1 DEF Slots
<1>6. PassedTold(p, prev, d, h)
  <2> SUFFICES ASSUME prev # << >>, h < ForkFeeless2, NEW s \in 0..c
               PROVE  Told(p, q, s)
    BY <1>1, <1>3 DEF PassedTold
  <2>1. CASE s = c
    BY <1>1, <2>1 DEF Story, BitsTold
  <2>2. CASE s # c
    BY <1>1, <2>2 DEF Story, PassedTold
  <2> QED
    BY <2>1, <2>2
<1>7. ~On(d, d.nCurrentSlot)
  <2>1. ~(c + 1 <= c)
    BY <1>1
  <2>2. ~On(q, c + 1)
    BY <1>1, <2>1 DEF Story, BitsTold
  <2> QED
    BY <1>2, <2>2
<1> QED
  BY <1>1, <1>4, <1>5, <1>6, <1>7 DEF Story

\* The clock passes a slot as missed.
LEMMA StoryMissed ==
    ASSUME NEW p \in Seq(PowerElements), NEW prev, NEW q \in Queues, NEW h,
           Story(p, prev, q, FALSE, h), Size(q) > 0, ~(h < ForkQPoS),
           NEW e \in PowerElements, e.nStakerID = GetCurrentID(q), e.fDidProduceBlock = FALSE,
           NEW t, t = Append(p, e),
           NEW d \in Queues, d.vStakerIDs = q.vStakerIDs, d.vchBlockStats = q.vchBlockStats,
           d.nCurrentSlot = q.nCurrentSlot + 1, q.nCurrentSlot + 1 < Size(q)
    PROVE  Story(t, prev, d, FALSE, h)
<1> DEFINE c == q.nCurrentSlot
<1>1. c \in Nat /\ Size(q) \in Nat /\ Size(d) = Size(q) /\ c + 1 \in Slots(q) /\ Slots(d) = Slots(q)
      /\ c \in Slots(q)
  BY DEF Queues, Size, Slots
<1>2. \A s : On(d, s) <=> On(q, s)
  BY DEF On, BitForSlot, StatsBits, Size
<1>3. \A u, s : Told(u, d, s) <=> Told(u, q, s)
  BY DEF Told, About
<1>4. /\ Len(t) = Len(p) + 1 /\ Len(p) \in Nat
      /\ \A j \in 1..Len(p) : t[j] = p[j]
      /\ t[Len(p) + 1] = e
  BY AppendElement
<1>5. About(q, e, c) /\ ~On(q, c)
  BY <1>1 DEF About, GetCurrentID, Story
<1>6. ElementsTold(t, d)
  <2> SUFFICES ASSUME NEW j \in 1..Len(t)
               PROVE  \E s \in Slots(d) :
                          /\ About(d, t[j], s)
                          /\ s <= d.nCurrentSlot
                          /\ t[j].fDidProduceBlock <=> On(d, s)
                          /\ t[j].fDidProduceBlock \/ s < d.nCurrentSlot
    BY DEF ElementsTold
  <2>1. CASE j = Len(p) + 1
    <3>1. t[j] = e /\ About(d, e, c) /\ c < d.nCurrentSlot /\ c <= d.nCurrentSlot
      BY <1>1, <1>4, <1>5, <2>1 DEF About
    <3> QED
      BY <1>1, <1>2, <1>5, <3>1
  <2>2. CASE j # Len(p) + 1
    <3>1. j \in 1..Len(p) /\ t[j] = p[j]
      BY <1>4, <2>2
    <3>2. PICK s \in Slots(q) :
                 /\ About(q, p[j], s)
                 /\ s <= c
                 /\ p[j].fDidProduceBlock <=> On(q, s)
                 /\ p[j].fDidProduceBlock \/ s < c
      BY <3>1 DEF Story, ElementsTold
    <3>3. s \in Int /\ s <= c + 1 /\ (s < c => s < c + 1)
      BY <1>1, <3>2 DEF Slots
    <3>4. About(d, p[j], s)
      BY <3>2 DEF About
    <3> QED
      BY <1>1, <1>2, <3>1, <3>2, <3>3, <3>4
  <2> QED
    BY <2>1, <2>2
<1>7. BitsTold(t, d)
  <2> SUFFICES ASSUME NEW s \in Slots(q), On(q, s)
               PROVE  s <= c + 1 /\ Told(t, q, s)
    BY <1>1, <1>2, <1>3 DEF BitsTold
  <2>1. s <= c /\ Told(p, q, s)
    BY DEF Story, BitsTold
  <2>2. Told(t, q, s)
    BY <2>1, ToldStays
  <2> QED
    BY <1>1, <2>1, <2>2 DEF Slots
<1>8. PassedTold(t, prev, d, h)
  <2> SUFFICES ASSUME prev # << >>, h < ForkFeeless2, NEW s \in 0..c
               PROVE  Told(t, q, s)
    BY <1>1, <1>3 DEF PassedTold
  <2>1. CASE s = c
    BY <1>5, <2>1, ToldStays
  <2>2. CASE s # c
    <3>1. Told(p, q, s)
      BY <1>1, <2>2 DEF Story, PassedTold
    <3> QED
      BY <3>1, ToldStays
  <2> QED
    BY <2>1, <2>2
<1>9. ~On(d, d.nCurrentSlot)
  <2>1. ~(c + 1 <= c)
    BY <1>1
  <2>2. ~On(q, c + 1)
    BY <1>1, <2>1 DEF Story, BitsTold
  <2> QED
    BY <1>2, <2>2
<1> QED
  BY <1>1, <1>6, <1>7, <1>8, <1>9 DEF Story

\* A block is counted for the current slot.  In replay mode it may be the second one there.
LEMMA StoryProduced ==
    ASSUME NEW p \in Seq(PowerElements), NEW prev, NEW q \in Queues, NEW f, NEW h \in Nat,
           Story(p, prev, q, f, h), q.nCurrentSlot \in Slots(q),
           NEW n \in Nat, h <= n, n >= ForkQPoS,
           NEW e \in PowerElements, e.nStakerID = GetCurrentID(q), e.fDidProduceBlock = TRUE,
           NEW t, t = Append(p, e), NEW d, d = SlotProduced(q, q.nCurrentSlot)
    PROVE  Story(t, prev, d, TRUE, n)
<1> DEFINE c == q.nCurrentSlot
           b == q.vchBlockStats \cup {BitForSlot(q, c)}
<1>1. c \in Nat /\ Size(q) \in Nat /\ Size(q) > 0
  BY DEF Queues, Size, Slots
<1>2. /\ d.vStakerIDs = q.vStakerIDs /\ d.nCurrentSlot = c /\ d.vchBlockStats = b
  <2>1. d = [q EXCEPT !.vchBlockStats = b]
    BY Zenon DEF SlotProduced
  <2> HIDE DEF b
  <2> QED
    BY <2>1 DEF Queues
<1>3. Slots(d) = Slots(q) /\ Size(d) = Size(q)
  BY <1>2 DEF Slots, Size
<1>4. \A s \in Slots(q) : On(d, s) <=> On(q, s) \/ s = c
  <2>1. \A s : BitForSlot(d, s) = BitForSlot(q, s)
    BY <1>2 DEF BitForSlot, StatsBits, Size
  <2>2. \A s \in Slots(q) : BitForSlot(q, s) = BitForSlot(q, c) => s = c
    BY BitsDiffer
  <2> QED
    BY <1>2, <2>1, <2>2 DEF On
<1>5. \A u, s : Told(u, d, s) <=> Told(u, q, s)
  BY <1>2 DEF Told, About
<1>6. /\ Len(t) = Len(p) + 1 /\ Len(p) \in Nat
      /\ \A j \in 1..Len(p) : t[j] = p[j]
      /\ t[Len(p) + 1] = e
  BY AppendElement
<1>7. About(q, e, c)
  BY DEF About, GetCurrentID
<1>8. ElementsTold(t, d)
  <2> SUFFICES ASSUME NEW j \in 1..Len(t)
               PROVE  \E s \in Slots(d) :
                          /\ About(d, t[j], s)
                          /\ s <= d.nCurrentSlot
                          /\ t[j].fDidProduceBlock <=> On(d, s)
                          /\ t[j].fDidProduceBlock \/ s < d.nCurrentSlot
    BY DEF ElementsTold
  <2>1. CASE j = Len(p) + 1
    <3>1. t[j] = e /\ About(d, e, c) /\ c <= d.nCurrentSlot
      BY <1>1, <1>2, <1>6, <1>7, <2>1 DEF About
    <3> QED
      BY <1>3, <1>4, <3>1
  <2>2. CASE j # Len(p) + 1
    <3>1. j \in 1..Len(p) /\ t[j] = p[j]
      BY <1>6, <2>2
    <3>2. PICK s \in Slots(q) :
                 /\ About(q, p[j], s)
                 /\ s <= c
                 /\ p[j].fDidProduceBlock <=> On(q, s)
                 /\ p[j].fDidProduceBlock \/ s < c
      BY <3>1 DEF Story, ElementsTold
    <3>3. s = c => On(q, s)
      BY <1>1, <3>2
    <3>4. About(d, p[j], s)
      BY <1>2, <3>2 DEF About
    <3> QED
      BY <1>2, <1>3, <1>4, <3>1, <3>2, <3>3, <3>4
  <2> QED
    BY <2>1, <2>2
<1>9. BitsTold(t, d)
  <2> SUFFICES ASSUME NEW s \in Slots(q), On(q, s) \/ s = c
               PROVE  s <= c /\ Told(t, q, s)
    BY <1>2, <1>3, <1>4, <1>5 DEF BitsTold
  <2>1. CASE s = c
    <3>1. Told(t, q, c)
      BY <1>7, ToldStays
    <3> QED
      BY <1>1, <2>1, <3>1
  <2>2. CASE On(q, s)
    <3>1. s <= c /\ Told(p, q, s)
      BY <2>2 DEF Story, BitsTold
    <3> QED
      BY <3>1, ToldStays
  <2> QED
    BY <2>1, <2>2
<1>10. PassedTold(t, prev, d, n)
  <2> SUFFICES ASSUME prev # << >>, n < ForkFeeless2, NEW s \in 0..(c - 1)
               PROVE  Told(t, q, s)
    BY <1>2, <1>5 DEF PassedTold
  <2>1. h < ForkFeeless2
    BY ForkAssumption
  <2>2. Told(p, q, s)
    BY <2>1 DEF Story, PassedTold
  <2> QED
    BY <2>2, ToldStays
<1>11. On(d, d.nCurrentSlot)
  BY <1>2, <1>4
<1>12. ~(n < ForkQPoS)
  BY ForkAssumption
<1> QED
  BY <1>1, <1>3, <1>8, <1>9, <1>10, <1>11, <1>12 DEF Story

\* The story is the one PowerMirrorsQueue asks for, since no staker has two slots.
LEMMA StoryMirrors ==
    ASSUME NEW r, RegOK(r), StoryOf(r)
    PROVE  RoundMirrorsQueue(r)
<1> DEFINE q == r.queue
           p == r.powerRoundCurrent
           c == q.nCurrentSlot
           E == {p[i] : i \in 1..Len(p)}
<1>1. q \in Queues /\ c \in Nat /\ Size(q) \in Nat /\ p \in Seq(PowerElements)
  BY DEF RegOK, Registries, Queues, Size
<1>2. /\ ElementsTold(p, q) /\ BitsTold(p, q) /\ PassedTold(p, r.powerRoundPrev, q, r.nBlockHeight)
  BY DEF StoryOf, Story
<1>3. \A s \in Slots(q), u \in Slots(q) : q.vStakerIDs[s + 1] = q.vStakerIDs[u + 1] => s = u
  <2> SUFFICES ASSUME NEW s \in Slots(q), NEW u \in Slots(q),
                      q.vStakerIDs[s + 1] = q.vStakerIDs[u + 1]
               PROVE  s = u
    OBVIOUS
  <2>1. s + 1 \in 1..Size(q) /\ u + 1 \in 1..Size(q) /\ s \in Int /\ u \in Int
    BY <1>1 DEF Slots
  <2>2. s + 1 = u + 1
    BY <2>1 DEF RegOK, QueueIsSound
  <2> QED
    BY <2>1, <2>2
<1>4. ASSUME NEW e, NEW s \in Slots(q), About(q, e, s)
      PROVE  HasSlotForID(q, e.nStakerID) /\ SlotOf(r, e) = s
  <2>1. s \in SlotsOf(q, e.nStakerID)
    BY <1>4 DEF SlotsOf, Slots, About
  <2>2. HasSlotForID(q, e.nStakerID)
    BY <2>1 DEF HasSlotForID
  <2>3. SlotOf(r, e) \in SlotsOf(q, e.nStakerID)
    BY <1>1, <2>2, SlotForID DEF SlotOf
  <2>4. SlotOf(r, e) \in Slots(q) /\ q.vStakerIDs[SlotOf(r, e) + 1] = e.nStakerID
    BY <2>3 DEF SlotsOf, Slots
  <2> QED
    BY <1>3, <1>4, <2>2, <2>4 DEF About
<1>5. ASSUME NEW s \in Slots(q), Told(p, q, s)
      PROVE  \E e \in E : SlotOf(r, e) = s
  BY <1>4, <1>5 DEF Told
<1>6. \A s \in Slots(q) : BitIsOn(q, BitForSlot(q, s)) <=> On(q, s)
  BY <1>1, BitsDiffer DEF BitIsOn, On
<1>7. ASSUME NEW e \in E
      PROVE  /\ HasSlotForID(q, e.nStakerID)
             /\ GetStatusForSlot(q, SlotOf(r, e)) =
                   IF e.fDidProduceBlock THEN "produced" ELSE "missed"
  <2>1. PICK j \in 1..Len(p) : e = p[j]
    OBVIOUS
  <2>2. PICK s \in Slots(q) :
               /\ About(q, e, s)
               /\ s <= c
               /\ e.fDidProduceBlock <=> On(q, s)
               /\ e.fDidProduceBlock \/ s < c
    BY <1>2, <2>1 DEF ElementsTold
  <2>3. HasSlotForID(q, e.nStakerID) /\ SlotOf(r, e) = s
    BY <1>4, <2>2
  <2>4. s \in Int /\ ~(s >= Size(q)) /\ ~(s > c) /\ (~e.fDidProduceBlock => s # c)
    BY <1>1, <2>2 DEF Slots
  <2>5. GetStatusForSlot(q, s) = IF e.fDidProduceBlock THEN "produced" ELSE "missed"
    BY <1>6, <2>2, <2>4 DEF GetStatusForSlot
  <2> QED
    BY <2>3, <2>5
<1>8. ASSUME NEW s \in Slots(q), GetStatusForSlot(q, s) = "produced"
      PROVE  \E e \in E : SlotOf(r, e) = s
  <2>1. On(q, s)
    BY <1>6, <1>8 DEF GetStatusForSlot
  <2> QED
    BY <1>2, <1>5, <2>1 DEF BitsTold
<1>9. ASSUME r.powerRoundPrev # << >>, r.nBlockHeight < ForkFeeless2, NEW s \in 0..(c - 1)
      PROVE  \E e \in E : SlotOf(r, e) = s
  <2>1. Told(p, q, s)
    BY <1>2, <1>9 DEF PassedTold
  <2>2. s \in Slots(q)
    <3>1. Size(q) > 0 => c < Size(q)
      BY DEF RegOK, QueueIsSound
    <3>2. Size(q) > 0
      <4>1. PICK j \in 1..Len(p) : About(q, p[j], s)
        BY <2>1 DEF Told
      <4>2. Slots(q) # {}
        BY <1>2, <4>1 DEF ElementsTold
      <4> QED
        BY <1>1, <4>2 DEF Slots
    <3> QED
      BY <1>1, <1>9, <3>1, <3>2 DEF Slots
  <2> QED
    BY <1>5, <2>1, <2>2
<1> QED
  BY <1>7, <1>8, <1>9 DEF RoundMirrorsQueue, Slots

-----------------------------------------------------------------------------
(* What the operations on a registry do to the story *)

\* The two registries have the same story.
SameStory(r, t) ==
    /\ t.powerRoundCurrent = r.powerRoundCurrent
    /\ t.powerRoundPrev = r.powerRoundPrev
    /\ t.queue = r.queue
    /\ t.fCurrentBlockWasProduced = r.fCurrentBlockWasProduced
    /\ t.nBlockHeight = r.nBlockHeight

LEMMA SameStoryOf ==
    ASSUME NEW r, NEW t, SameStory(r, t), StoryOf(r)
    PROVE  StoryOf(t)
  BY DEF SameStory, StoryOf

LEMMA SameRoundsStory ==
    ASSUME NEW r, NEW t, SameRounds(r, t)
    PROVE  SameStory(r, t)
  BY DEF SameRounds, SameStory

\* Changes to the statistics of stakers do not touch it.
LEMMA StakersStory ==
    ASSUME NEW r \in Registries, NEW m, NEW n
    PROVE  /\ SameStory(r, [r EXCEPT !.mapStakers = m])
           /\ SameStory(r, [r EXCEPT !.nIDCounter = n, !.mapStakers = m])
  BY DEF Registries, SameStory

\* Neither do the operations of a block.
LEMMA OpsStory ==
    ASSUME NEW r \in Registries, NEW i, NEW h
    PROVE  /\ SameStory(r, ApplyPurchase(r))
           /\ SameStory(r, ApplyEnable(r, i))
           /\ SameStory(r, ApplyDisable(r, i, h))
           /\ SameStory(r, AdjustForForks(r, h))
<1>1. SameStory(r, r)
  BY DEF SameStory
<1>2. SameStory(r, ApplyPurchase(r))
  BY DEF ApplyPurchase, Registries, SameStory
<1>3. SameStory(r, ApplyEnable(r, i))
  <2>1. SameStory(r, [r EXCEPT !.mapStakers[i] = Enable(@)])
    BY DEF Registries, SameStory
  <2> QED
    BY <1>1, <2>1 DEF ApplyEnable
<1>4. SameStory(r, ApplyDisable(r, i, h))
  BY DEF ApplyDisable, Registries, SameStory
<1>5. SameStory(r, AdjustForForks(r, h))
  <2> DEFINE m1 == [j \in DOMAIN r.mapStakers |-> ResetDocked(r.mapStakers[j])]
             m2 == [j \in DOMAIN r.mapStakers |->
                       ResetDocked(IF r.mapStakers[j].fQualified THEN r.mapStakers[j]
                                   ELSE Requalify(r.mapStakers[j]))]
  <2>1. \/ AdjustForForks(r, h) = r
        \/ AdjustForForks(r, h) = [r EXCEPT !.mapStakers = m1]
        \/ AdjustForForks(r, h) = [r EXCEPT !.mapStakers = m2]
    BY Zenon DEF AdjustForForks
  <2> HIDE DEF m1, m2
  <2> QED
    BY <1>1, <2>1, StakersStory
<1> QED
  BY <1>2, <1>3, <1>4, <1>5

\* The current slot of a queue that is not empty exists, and its staker is registered.
LEMMA CurrentSlotExists ==
    ASSUME NEW r, RegOK(r), Size(r.queue) > 0
    PROVE  /\ r.queue.nCurrentSlot \in Slots(r.queue)
           /\ GetCurrentID(r.queue) \in IDs(r)
           /\ ~r.fCurrentBlockWasProduced => r.mapStakers[GetCurrentID(r.queue)].fQualified
<1>1. r.queue.nCurrentSlot \in Nat /\ Size(r.queue) \in Nat
  BY DEF RegOK, Registries, Queues, Size
<1>2. r.queue.nCurrentSlot < Size(r.queue)
  BY DEF RegOK, QueueIsSound
<1>3. r.queue.nCurrentSlot \in 0..(Size(r.queue) - 1)
  BY <1>1, <1>2
<1>4. GetCurrentID(r.queue) \in IDs(r)
  BY <1>3, SlotInRange DEF GetCurrentID
<1>5. ~r.fCurrentBlockWasProduced => r.mapStakers[GetCurrentID(r.queue)].fQualified
  BY <1>3 DEF RegOK, NoneDisqualifiedAhead, GetCurrentID
<1> QED
  BY <1>3, <1>4, <1>5 DEF Slots

\* An element for a missed slot.
Missed(q, e) ==
    /\ e \in PowerElements
    /\ e.nStakerID = GetCurrentID(q)
    /\ e.fDidProduceBlock = FALSE

\* A missed slot adds an element: its staker is not disqualified.
LEMMA MissedStory ==
    ASSUME NEW r, RegOK(r), Size(r.queue) > 0, ~r.fCurrentBlockWasProduced, NEW h,
           NEW t, t = StakerMissedBlock(r, GetCurrentID(r.queue), h)
    PROVE  /\ t.powerRoundPrev = r.powerRoundPrev
           /\ \E e : Missed(r.queue, e) /\ t.powerRoundCurrent = Append(r.powerRoundCurrent, e)
<1> DEFINE i == GetCurrentID(r.queue)
           s == MissedBlock(r.mapStakers[i], r.fPrevBlockWasProduced, h >= ForkMissFix)
           e == PowerElement(r, i, FALSE)
           p == Append(r.powerRoundCurrent, e)
           u == [r EXCEPT !.powerRoundCurrent = p, !.mapStakers[i] = s,
                          !.fPrevBlockWasProduced = FALSE]
<1>1. /\ r \in Registries /\ StakersOK(r.mapStakers) /\ i \in IDs(r) /\ r.mapStakers[i].fQualified
  BY CurrentSlotExists DEF RegOK
<1>2. Missed(r.queue, e)
  <2>1. e \in PowerElements
    BY <1>1, PowerElementOK
  <2>2. e.nStakerID = i /\ e.fDidProduceBlock = FALSE
    BY DEF PowerElement
  <2> QED
    BY <2>1, <2>2 DEF Missed
<1>3. t = u \/ t = DisableStakerIfNecessary(u, i, h)
  BY Zenon, <1>1 DEF StakerMissedBlock
<1> HIDE DEF e, s, p, i
<1>4. /\ u.powerRoundPrev = r.powerRoundPrev /\ u.powerRoundCurrent = p
      /\ \A m : /\ [u EXCEPT !.mapStakers[i] = m].powerRoundPrev = r.powerRoundPrev
                /\ [u EXCEPT !.mapStakers[i] = m].powerRoundCurrent = p
  BY <1>1 DEF Registries
<1>5. \/ DisableStakerIfNecessary(u, i, h) = u
      \/ \E m : DisableStakerIfNecessary(u, i, h) = [u EXCEPT !.mapStakers[i] = m]
  BY Zenon DEF DisableStakerIfNecessary
<1> HIDE DEF u
<1>6. t.powerRoundPrev = r.powerRoundPrev /\ t.powerRoundCurrent = p
  BY <1>3, <1>4, <1>5
<1> QED
  BY <1>2, <1>6 DEF p

\* What becomes of a slot the clock passes: nothing is told of it only if it was produced,
\* or if nobody is blamed.
Passed(r, h, t) ==
    /\ t.powerRoundPrev = r.powerRoundPrev
    /\ \/ /\ t.powerRoundCurrent = r.powerRoundCurrent
          /\ r.fCurrentBlockWasProduced \/ h < ForkQPoS \/ ~(h < ForkFeeless2)
       \/ /\ ~r.fCurrentBlockWasProduced /\ ~(h < ForkQPoS)
          /\ \E e : /\ Missed(r.queue, e)
                    /\ t.powerRoundCurrent = Append(r.powerRoundCurrent, e)

LEMMA PassStory ==
    ASSUME NEW r, RegOK(r), Size(r.queue) > 0, NEW h \in Nat, NEW n \in Nat,
           NEW t, t = PassSlot(r, h, n)
    PROVE  Passed(r, h, t)
<1>1. CASE r.fCurrentBlockWasProduced
  BY <1>1 DEF PassSlot, Passed
<1>2. CASE ~r.fCurrentBlockWasProduced /\ h >= ForkQPoS /\ (h < ForkFeeless2 \/ n <= 1)
  <2>1. t = StakerMissedBlock(r, GetCurrentID(r.queue), h)
    BY <1>2 DEF PassSlot
  <2>2. /\ t.powerRoundPrev = r.powerRoundPrev
        /\ \E e : Missed(r.queue, e) /\ t.powerRoundCurrent = Append(r.powerRoundCurrent, e)
    BY <1>2, <2>1, MissedStory
  <2>3. ~(h < ForkQPoS)
    BY <1>2, ForkAssumption
  <2> QED
    BY <1>2, <2>2, <2>3 DEF Passed
<1>3. CASE ~r.fCurrentBlockWasProduced /\ ~(h >= ForkQPoS /\ (h < ForkFeeless2 \/ n <= 1))
  <2>1. t = ExitReplayMode(r)
    BY <1>3 DEF PassSlot
  <2>2. SameRounds(r, t)
    BY <2>1, ReplayChanges DEF RegOK
  <2>3. h < ForkQPoS \/ ~(h < ForkFeeless2)
    BY <1>3, ForkAssumption
  <2> QED
    BY <2>2, <2>3 DEF SameRounds, Passed
<1> QED
  BY <1>1, <1>2, <1>3

\* A new round begins an empty story, and keeps the elements of the last round.
LEMMA NewQueueStory ==
    ASSUME NEW r, RegOK(r), EnabledIDs(r) # {}, NEW nTime0 \in Nat, NEW hash \in Hashes,
           r.nBlockHeight < ForkQPoS => r.powerRoundCurrent = << >>,
           NEW t, t = NewQueue(r, nTime0, hash)
    PROVE  Story(t.powerRoundCurrent, t.powerRoundPrev, t.queue, FALSE, t.nBlockHeight)
<1> DEFINE v == Shuffle(EnabledIDs(r), hash)
           q == MakeQueue(nTime0, v)
           k == Size(r.queue)
           n == r.nRound + 1
<1>1. Size(t.queue) > 0 /\ t.nBlockHeight = r.nBlockHeight
  BY NewQueueChanges
<1>2. t = [r EXCEPT !.nQueuePrev = k, !.queue = q, !.nRound = n,
                    !.powerRoundPrev = r.powerRoundCurrent, !.powerRoundCurrent = << >>]
  BY Zenon DEF NewQueue
<1>3. q.nCurrentSlot = 0 /\ q.vchBlockStats = {}
  BY DEF MakeQueue
<1> HIDE DEF q, k, n
<1>4. t.queue = q /\ t.powerRoundPrev = r.powerRoundCurrent /\ t.powerRoundCurrent = << >>
  BY <1>2 DEF RegOK, Registries
<1>5. Story(<< >>, r.powerRoundCurrent, q, FALSE, r.nBlockHeight)
  BY <1>1, <1>3, <1>4, StoryNew
<1> QED
  BY <1>1, <1>4, <1>5

\* The clock moves on from a slot that was passed.
LEMMA MoveOnStory ==
    ASSUME NEW r, RegOK(r), Size(r.queue) > 0, StoryOf(r), NEW n \in Nat,
           NEW u, u = PassSlot(r, r.nBlockHeight, n), CanMoveOn(u), NEW t, t = MoveOn(u)
    PROVE  StoryOf(t)
<1> DEFINE h == r.nBlockHeight
           p == r.powerRoundCurrent
           q == r.queue
           f == FALSE
<1>1. /\ h \in Nat /\ p \in Seq(PowerElements) /\ q \in Queues
      /\ r.fCurrentBlockWasProduced \in BOOLEAN
  BY DEF RegOK, Registries
<1>2. RegOK(u) /\ SameQueue(r, u)
  BY <1>1, PassSlotChanges
<1>3. /\ u.powerRoundPrev = r.powerRoundPrev
      /\ \/ /\ u.powerRoundCurrent = p
            /\ r.fCurrentBlockWasProduced \/ h < ForkQPoS \/ ~(h < ForkFeeless2)
         \/ /\ ~r.fCurrentBlockWasProduced /\ ~(h < ForkQPoS)
            /\ \E e : Missed(q, e) /\ u.powerRoundCurrent = Append(p, e)
  <2>1. Passed(r, h, u)
    BY <1>1, PassStory
  <2> QED
    BY <2>1, Zenon DEF Passed
<1>4. u.queue = q /\ u.nBlockHeight = h /\ u \in Registries
  BY <1>2 DEF SameQueue, RegOK
<1>5. Story(p, r.powerRoundPrev, q, r.fCurrentBlockWasProduced, h)
  BY DEF StoryOf
<1>6. h < ForkQPoS => p = << >> /\ r.powerRoundPrev = << >>
  BY <1>5 DEF Story
<1>7. ASSUME NEW w \in Registries, t = [w EXCEPT !.fCurrentBlockWasProduced = f],
             Story(w.powerRoundCurrent, w.powerRoundPrev, w.queue, FALSE, w.nBlockHeight)
      PROVE  StoryOf(t)
  <2>1. /\ t.powerRoundCurrent = w.powerRoundCurrent /\ t.powerRoundPrev = w.powerRoundPrev
        /\ t.queue = w.queue /\ t.nBlockHeight = w.nBlockHeight
        /\ t.fCurrentBlockWasProduced = f
    <3> HIDE DEF f
    <3> QED
      BY <1>7 DEF Registries
  <2> QED
    BY <1>7, <2>1 DEF StoryOf
<1>8. CASE CanIncrementSlot(q)
  <2> DEFINE c == q.nCurrentSlot + 1
             d == [q EXCEPT !.nCurrentSlot = c]
             w == [u EXCEPT !.queue = d]
  <2>1. t = [w EXCEPT !.fCurrentBlockWasProduced = f]
    BY <1>4, <1>8, Zenon DEF MoveOn, IncrementSlot
  <2>2. c \in Nat /\ c < Size(q)
    BY <1>1, <1>8 DEF CanIncrementSlot, Queues
  <2> HIDE DEF c
  <2>3. /\ d \in Queues /\ d.nCurrentSlot = c /\ d.vStakerIDs = q.vStakerIDs
        /\ d.vchBlockStats = q.vchBlockStats
    BY <1>1, <2>2 DEF Queues
  <2> HIDE DEF d
  <2>4. /\ w \in Registries /\ w.queue = d /\ w.powerRoundCurrent = u.powerRoundCurrent
        /\ w.powerRoundPrev = u.powerRoundPrev /\ w.nBlockHeight = h
    BY SMTT(30), ZenonT(30), <1>4, <2>3 DEF Registries
  <2>5. d.nCurrentSlot = q.nCurrentSlot + 1 /\ q.nCurrentSlot + 1 < Size(q)
    BY <2>2, <2>3 DEF c
  <2>6. Story(u.powerRoundCurrent, r.powerRoundPrev, d, FALSE, h)
    <3>1. CASE /\ u.powerRoundCurrent = p
               /\ r.fCurrentBlockWasProduced \/ h < ForkQPoS \/ ~(h < ForkFeeless2)
      <4>1. r.fCurrentBlockWasProduced \/ r.powerRoundPrev = << >> \/ ~(h < ForkFeeless2)
        BY <1>6, <3>1
      <4> HIDE DEF p, q, h
      <4>2. Size(q) > 0
        BY DEF q
      <4> QED
        BY <1>1, <1>5, <2>3, <2>5, <3>1, <4>1, <4>2, StoryPass
    <3>2. CASE /\ ~r.fCurrentBlockWasProduced /\ ~(h < ForkQPoS)
               /\ \E e : Missed(q, e) /\ u.powerRoundCurrent = Append(p, e)
      <4>1. PICK e : Missed(q, e) /\ u.powerRoundCurrent = Append(p, e)
        BY <3>2
      <4>2. Story(p, r.powerRoundPrev, q, FALSE, h)
        BY <1>1, <1>5, <3>2 DEF Story
      <4>3. Size(q) > 0 /\ ~(h < ForkQPoS)
        BY <3>2
      <4>4. /\ e \in PowerElements /\ e.nStakerID = GetCurrentID(q)
            /\ e.fDidProduceBlock = FALSE
        BY <4>1 DEF Missed
      <4> HIDE DEF p, q, h
      <4> QED
        BY <1>1, <2>3, <2>5, <4>1, <4>2, <4>3, <4>4, StoryMissed
    <3> QED
      BY <1>3, <3>1, <3>2
  <2> QED
    BY <1>3, <1>7, <2>1, <2>4, <2>6
<1>9. CASE ~CanIncrementSlot(q)
  <2> DEFINE m == GetMaxTime(q) + 1
             w == NewQueue(u, m, u.hashBlock)
  <2>1. t = [w EXCEPT !.fCurrentBlockWasProduced = f]
    BY <1>4, <1>9, Zenon DEF MoveOn
  <2>2. m \in Nat
    <3>1. q.nSlotTime0 \in Nat /\ Size(q) \in Nat
      BY <1>1 DEF Queues, Size
    <3>2. QP_TARGET_SPACING * Size(q) \in Nat
      BY <3>1, SpacingAssumption
    <3> QED
      BY <3>1, <3>2 DEF GetMaxTime
  <2>3. EnabledIDs(u) # {} /\ u.hashBlock \in Hashes
    BY <1>4, <1>9 DEF CanMoveOn, Registries
  <2>4. u.nBlockHeight < ForkQPoS => u.powerRoundCurrent = << >>
    BY <1>3, <1>4, <1>6
  <2>5. w = NewQueue(u, m, u.hashBlock)
    OBVIOUS
  <2> HIDE DEF m, w
  <2>6. RegOK(w)
    BY <1>2, <2>2, <2>3, <2>5, NewQueueChanges
  <2>7. Story(w.powerRoundCurrent, w.powerRoundPrev, w.queue, FALSE, w.nBlockHeight)
    BY <1>2, <2>2, <2>3, <2>4, <2>5, NewQueueStory
  <2>8. w \in Registries
    BY <2>6 DEF RegOK
  <2> QED
    BY <1>7, <2>1, <2>7, <2>8
<1> QED
  BY <1>8, <1>9

\* A block adds its element and its bit.
LEMMA ProduceStory ==
    ASSUME NEW r, RegOK(r), StoryOf(r), NEW i, CanProduce(r, i), NEW h \in Nat,
           r.nBlockHeight <= h, h >= ForkQPoS, NEW hash \in Hashes,
           NEW g \in BOOLEAN, NEW t, t = Produce(r, i, h, hash, g)
    PROVE  StoryOf(t)
<1> DEFINE q == r.queue
           c == q.nCurrentSlot
           e == PowerElement(r, i, TRUE)
           p == Append(r.powerRoundCurrent, e)
           s == ProducedBlock(r.mapStakers[i], r.fPrevBlockWasProduced)
           u == [r EXCEPT !.powerRoundCurrent = p, !.mapStakers[i] = s]
           f == TRUE
           made == StakerProducedBlock(r, i, g)
           m == [j \in DOMAIN made.mapStakers |->
                    IF j \in IDs(r) /\ made.mapStakers[j].fQualified
                    THEN SawBlock(made.mapStakers[j]) ELSE made.mapStakers[j]]
<1>1. /\ r \in Registries /\ StakersOK(r.mapStakers) /\ q \in Queues
      /\ r.powerRoundCurrent \in Seq(PowerElements) /\ r.nBlockHeight \in Nat
  BY DEF RegOK, Registries
<1>2. c \in SlotsOf(q, i)
  BY <1>1, SlotForID DEF CanProduce
<1>3. c \in Slots(q) /\ i = GetCurrentID(q)
  BY <1>2 DEF SlotsOf, Slots, GetCurrentID
<1>4. i \in IDs(r)
  BY <1>3, SlotInRange DEF Slots, GetCurrentID
<1>5. e \in PowerElements /\ e.nStakerID = GetCurrentID(q) /\ e.fDidProduceBlock = TRUE
  <2>1. e \in PowerElements
    BY <1>1, <1>4, PowerElementOK
  <2>2. e.nStakerID = i /\ e.fDidProduceBlock = TRUE
    BY DEF PowerElement
  <2> QED
    BY <1>3, <2>1, <2>2
<1>6. \/ made = [u EXCEPT !.fCurrentBlockWasProduced = f, !.fPrevBlockWasProduced = f]
      \/ \E x : made = [[u EXCEPT !.mapStakers[i] = x]
                          EXCEPT !.fCurrentBlockWasProduced = f, !.fPrevBlockWasProduced = f]
  <2>1. LET judged == IF r.nBlockHeight < ForkReinstate
                      THEN DisqualifyStakerIfNecessary(u, i, g) ELSE u
        IN  made = [judged EXCEPT !.fCurrentBlockWasProduced = f, !.fPrevBlockWasProduced = f]
    BY Zenon DEF StakerProducedBlock
  <2>2. \/ DisqualifyStakerIfNecessary(u, i, g) = u
        \/ DisqualifyStakerIfNecessary(u, i, g) = [u EXCEPT !.mapStakers[i] = Disqualify(u.mapStakers[i])]
    BY Zenon DEF DisqualifyStakerIfNecessary
  <2> HIDE DEF u, made, f
  <2> QED
    BY Zenon, <2>1, <2>2
<1>7. t = [made EXCEPT !.queue = SlotProduced(made.queue, made.queue.nCurrentSlot),
                       !.mapStakers = m, !.nBlockHeight = h, !.hashBlock = hash]
  BY Zenon DEF Produce
<1> HIDE DEF p, s, f, e
<1>8. /\ made \in Registries /\ made.queue = q /\ made.fCurrentBlockWasProduced
  <2>1. made = StakerProducedBlock(r, i, g)
    OBVIOUS
  <2> HIDE DEF made
  <2> QED
    BY <1>4, <2>1, ProducedChanges
<1>9. made.powerRoundCurrent = p /\ made.powerRoundPrev = r.powerRoundPrev
  <2>1. CASE made = [u EXCEPT !.fCurrentBlockWasProduced = f, !.fPrevBlockWasProduced = f]
    <3> HIDE DEF made
    <3> QED
      BY <1>1, <2>1 DEF Registries
  <2>2. CASE \E x : made = [[u EXCEPT !.mapStakers[i] = x]
                          EXCEPT !.fCurrentBlockWasProduced = f, !.fPrevBlockWasProduced = f]
    <3> HIDE DEF made
    <3> QED
      BY <1>1, <2>2 DEF Registries
  <2> QED
    BY <1>6, <2>1, <2>2
<1> HIDE DEF made, m, u
<1>10. /\ t.queue = SlotProduced(q, c) /\ t.nBlockHeight = h
       /\ t.powerRoundCurrent = p /\ t.powerRoundPrev = r.powerRoundPrev
       /\ t.fCurrentBlockWasProduced
  BY Zenon, <1>7, <1>8, <1>9 DEF Registries
<1>11. Story(p, r.powerRoundPrev, SlotProduced(q, c), TRUE, h)
  <2>1. /\ Story(r.powerRoundCurrent, r.powerRoundPrev, q, r.fCurrentBlockWasProduced, r.nBlockHeight)
        /\ p = Append(r.powerRoundCurrent, e)
    BY DEF StoryOf, p
  <2> HIDE DEF q
  <2> QED
    BY <1>1, <1>3, <1>5, <2>1, StoryProduced
<1> QED
  BY <1>10, <1>11 DEF StoryOf, Story

=============================================================================
