--------------------------- MODULE StopLoopProofs ---------------------------
(* The bound on the time a stop takes, for any work bound and interval. *)
EXTENDS StopLoop, TLAPS

\* The loop invariant is inductive.
THEOREM LoopInvariant == Spec => []LoopInv
<1> USE LoopAssumption DEF LoopInv, TypeOK, StopsWithinOnePhase, LongestPhase
<1>1. Init => LoopInv
  <2> SUFFICES ASSUME Init PROVE LoopInv
    OBVIOUS
  <2>1. TypeOK
    BY DEF Init
  <2>2. StopsWithinOnePhase
    BY DEF Init
  <2>3. stop = FALSE /\ owner = "running" /\ sinceStop = 0 /\ pc = "test"
    BY Zenon DEF Init
  <2> QED
    BY <2>1, <2>2, <2>3
<1>2. LoopInv /\ [Next]_vars => LoopInv'
  <2> SUFFICES ASSUME LoopInv, [Next]_vars PROVE LoopInv'
    OBVIOUS
  <2>1. CASE Test
    BY <2>1 DEF Test
  <2>2. CASE WorkEnds
    BY <2>2 DEF WorkEnds
  <2>3. CASE Check
    BY <2>3 DEF Check
  <2>4. CASE Block \/ SpuriousWakeup \/ TimesOut
    BY <2>4 DEF Block, SpuriousWakeup, TimesOut
  <2>5. CASE StoreStop
    BY <2>5 DEF StoreStop
  <2>6. CASE Notify \/ Join
    BY <2>6 DEF Notify, Join
  <2>7. CASE Tick
    BY <2>7 DEF Tick
  <2>8. CASE Gone \/ UNCHANGED vars
    BY <2>8 DEF Gone, vars
  <2> QED
    BY <2>1, <2>2, <2>3, <2>4, <2>5, <2>6, <2>7, <2>8 DEF Next, Thread
<1> QED
  BY <1>1, <1>2, PTL DEF Spec

\* Stopping never costs more than one piece of work or one wait, whichever is
\* longer, for every choice of the two.
THEOREM StopBounded == Spec => []StopsWithinOnePhase
BY LoopInvariant, PTL DEF LoopInv
=============================================================================
