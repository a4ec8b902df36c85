------------------------------- MODULE MCBase -------------------------------
(***************************************************************************)
(* The two things everything else rests on, one in each behaviour: the     *)
(* critical section, and the intrusive list that is used inside it.  Two   *)
(* threads, SysTick at the priority init_time gives it and the USART at    *)
(* the one the board gives it; guards nest two deep, as ready does in      *)
(* notify.  Four nodes, two of them with equal keys so that stability      *)
(* shows.                                                                  *)
(***************************************************************************)
EXTENDS Integers, FiniteSets

CONSTANTS Threads, Handlers, Priority, MaxDepth, Wrap,   \* of CriticalSection
          th1, th2, SysTick, Usart,
          Nodes, Key, Null,                        \* of SelfList
          n1, n2, n3, n4

VARIABLES part,
          nest, reg, saved, basepri, pc, depth, thread, active, pend, torn,
          head, tail, next, op, arg, prev

sectionvars == << nest, reg, saved, basepri, pc, depth, thread, active, pend, torn >>
listvars == << head, tail, next, op, arg, prev >>
basevars == << part, sectionvars, listvars >>

MCThreads == {th1, th2}
MCHandlers == {SysTick, Usart}
MCPriority == [h \in MCHandlers |-> IF h = Usart THEN 128 ELSE 255]

Section == INSTANCE CriticalSection WITH current <- thread

ASSUME SectionAssumption == Section!PriorityAssumption

MCNodes == {n1, n2, n3, n4}
MCKey == [n \in MCNodes |-> CASE n = n1 -> 1 [] n = n4 -> 3 [] OTHER -> 2]

List == INSTANCE SelfList

ASSUME ListAssumption == List!NodesAssumption

BaseInit == part \in {"section", "list"} /\ Section!Init /\ List!Init

BaseNext ==
  /\ \/ part = "section" /\ Section!Next /\ UNCHANGED listvars
     \/ part = "list" /\ List!Next /\ UNCHANGED sectionvars
  /\ UNCHANGED part

\* A call of the list, once begun, runs.
ListGoesOn == part = "list" /\ List!Step /\ UNCHANGED << part, sectionvars >>

BaseSpec == BaseInit /\ [][BaseNext]_basevars /\ WF_basevars(ListGoesOn)

-----------------------------------------------------------------------------

\* However guards nest and handlers interrupt each other, nest_ counts them, and
\* once everybody is out nothing stays masked; as long as no switch of threads
\* falls between a load and a store of nest_.
GuardsAddUp == Section!TypeOK /\ Section!NestCountsGuards /\ Section!QuietIsOpen

\* Nest-friendly (system.hpp:41): once everybody is out nest_ is 0 and nothing is masked.
NestReturnsToZero == Section!NestReturnsToZero

\* What a guard is for: no two contexts are inside the section at once.
Exclusion == Section!Exclusion

\* Whatever mixture of calls, the pointers behave as a sequence, each call has
\* the effect it is named for, and tail_ is the last node.
ListIsASequence ==
  /\ List!ImplementsListSpec
  /\ List!CallsDoWhatTheySay
  /\ [](List!TypeOK /\ List!TailIsLast)

\* Every walk of the list ends.
WalkEnds == List!WalkEnds

=============================================================================
