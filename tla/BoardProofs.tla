----------------------------- MODULE BoardProofs -----------------------------
(***************************************************************************)
(* Theorems about the parts of the board that stand beside the scheduler:  *)
(* Trap with its clock, Handles, and Console.  None of them refers to      *)
(* another's state.                                                        *)
(***************************************************************************)
EXTENDS Trap, Handles, Console, SequenceTheorems, FiniteSetTheorems,
        WellFoundedInduction, TLAPS

StackContents == [Stacks -> Seq(Threads \cup {"data"})]
SavedPointers == [Tasks -> Address]
Context == [who : Threads, stack : Stacks, mie : BOOLEAN]

\* The address in the TCB of t is on its own stack and that of its own frame.
Home(stacks, sps, t) == sps[t].stack = t /\ At(stacks, sps[t]) = t

\* The address from which main goes on when its interrupt has been served.
MainAt(stacks, f) == f.stack = "boot" /\ At(stacks, f) = "main"

TrapTyped ==
  /\ sched_ready \in BOOLEAN /\ current \in Tasks \cup {"main"}
  /\ live \in SUBSET Tasks /\ displaced \in SUBSET Tasks
  /\ sp \in SavedPointers /\ frames \in StackContents
  /\ hart \in Context /\ interrupted \in Address

\* From f the hart goes on with the current task, on its own stack, or with main.
Back(stacks, f) ==
  \/ sched_ready /\ f.stack = current /\ At(stacks, f) = current
  \/ MainAt(stacks, f)

\* A task runs on its own stack and is the current one; a handler runs on the
\* ISR stack and knows the way back.
HartInPlace ==
  /\ hart.who # "lost"
  /\ hart.who = "main" => hart.stack = "boot"
  /\ hart.who \in Tasks => sched_ready /\ hart.who = current /\ hart.stack = current
  /\ hart.who = "isr" => hart.stack = "isr" /\ Back(frames, interrupted)

\* The inductive invariant.  The task that a handler has interrupted is home as
\* well, which SavedContexts need not say.
IInv ==
  \/ astray
  \/ /\ TrapTyped /\ HartInPlace
     /\ sched_ready => current \in live
     /\ \A t \in live \ displaced : hart.who # t => Home(frames, sp, t)

-----------------------------------------------------------------------------
(* The assembly.                                                           *)

LEMMA ThreadNames ==
  /\ "main" \notin Tasks /\ "isr" \notin Tasks /\ "boot" \notin Tasks
  /\ "lost" \notin Tasks
BY TrapAssumption

\* The entry code leaves the interrupted thread's frame where it says.
LEMMA PushLemma ==
  ASSUME TrapTyped, NEW trap, hart.stack # "isr"
  PROVE  /\ Here \in Address /\ Here.stack = hart.stack
         /\ PushedBy(trap) \in StackContents
         /\ At(PushedBy(trap), Here) = hart.who
         /\ \A s \in Stacks \ {hart.stack, "isr"} : PushedBy(trap)[s] = frames[s]
<1> DEFINE pushed == [frames EXCEPT ![hart.stack] = Append(@, hart.who)]
<1>1. /\ hart.stack \in Stacks /\ hart.who \in Threads \cup {"data"}
      /\ frames \in StackContents /\ "isr" \in Stacks
  BY DEF TrapTyped, Context, Stacks
<1>2. frames[hart.stack] \in Seq(Threads \cup {"data"})
  BY <1>1 DEF StackContents
<1>3. Here \in Address /\ Here.stack = hart.stack
      /\ Here.depth = Len(frames[hart.stack]) + 1
  BY <1>1, <1>2 DEF Here, Address
<1>4. Append(frames[hart.stack], hart.who) \in Seq(Threads \cup {"data"})
  BY <1>1, <1>2
<1>5. pushed \in StackContents
  BY <1>1, <1>4 DEF StackContents
<1>6. PushedBy(trap) \in StackContents
  <2>1. << >> \in Seq(Threads \cup {"data"})
    OBVIOUS
  <2>2. [pushed EXCEPT !["isr"] = << >>] \in StackContents
    BY <1>5, <2>1 DEF StackContents
  <2> QED
    BY <1>5, <2>2 DEF PushedBy
<1>7. PushedBy(trap)[hart.stack] = Append(frames[hart.stack], hart.who)
  BY <1>1, <1>5 DEF PushedBy, StackContents
<1>8. At(PushedBy(trap), Here) = hart.who
  <2> DEFINE s == Append(frames[hart.stack], hart.who)
  <2>1. Here.depth \in DOMAIN s /\ s[Here.depth] = hart.who
    BY <1>1, <1>2, <1>3
  <2> QED
    BY <2>1, <1>3, <1>7 DEF At
<1>9. \A s \in Stacks \ {hart.stack, "isr"} : PushedBy(trap)[s] = frames[s]
  BY <1>1 DEF PushedBy, StackContents
<1> QED
  BY <1>3, <1>6, <1>8, <1>9

\* The restore enters the thread whose frame is at f and takes no other stack.
LEMMA ReturnLemma ==
  ASSUME NEW stacks \in StackContents, NEW f \in Address,
         At(stacks, f) # "lost", ReturnTo(stacks, f)
  PROVE  /\ frames' \in StackContents
         /\ hart' = [who |-> At(stacks, f), stack |-> f.stack, mie |-> TRUE]
         /\ \A s \in Stacks \ {f.stack} : frames'[s] = stacks[s]
<1>1. /\ f.stack \in Stacks /\ f.depth \in Nat
      /\ stacks[f.stack] \in Seq(Threads \cup {"data"})
  BY DEF Address, StackContents
<1>2. f.depth \in 1 .. Len(stacks[f.stack])
  BY <1>1 DEF At
<1>3. SubSeq(stacks[f.stack], 1, f.depth - 1) \in Seq(Threads \cup {"data"})
  BY <1>1, <1>2, SubSeqProperties
<1> QED
  BY <1>1, <1>3 DEF ReturnTo, StackContents

\* What ResumesOwnContext says of a step.
Own ==
  astray' \/
    /\ Executing' # Executing => Executing' = current'
    /\ hart'.who \in Tasks => hart'.who = current' /\ hart'.stack = current'

\* Behind the dispatch the hart goes to the task that next_tcb takes, or the way
\* back; everybody whose address is not lost is left at home.
LEMMA LeaveLemma ==
  ASSUME TrapTyped, NEW ret \in BOOLEAN, NEW stacks \in StackContents,
         NEW sps \in SavedPointers, NEW f \in Address, NEW choice,
         live' \in SUBSET Tasks, displaced' \in SUBSET Tasks, choice \subseteq live',
         \A t \in live' \ displaced' : Home(stacks, sps, t),
         ~(sched_ready /\ ret) => Back(stacks, f) /\ At(stacks, f) = Executing,
         sched_ready /\ ~ret => current \in live',
         Leave(ret, stacks, sps, f, choice),
         sched_ready' = sched_ready, interrupted' \in Address
  PROVE  IInv' /\ Own
<1> SUFFICES ASSUME ~astray' PROVE IInv' /\ Own
  BY DEF IInv, Own
<1> USE ThreadNames
<1>1. sp' = sps /\ \A t \in live' : t \in Tasks /\ t \in Stacks /\ sps[t] \in Address
  BY DEF Leave, SavedPointers, Stacks
<1>2. CASE sched_ready /\ ret
  <2>1. PICK t \in choice : current' = t /\ ReturnTo(stacks, sps[t])
    BY <1>2 DEF Leave
  <2>2. t \in live' \ displaced'
    BY <1>2, <2>1 DEF Leave, GoesAstray
  <2>3. sps[t].stack = t /\ At(stacks, sps[t]) = t /\ t # "lost"
    BY <2>2, <1>1 DEF Home
  <2>4. /\ frames' \in StackContents
        /\ hart' = [who |-> t, stack |-> t, mie |-> TRUE]
        /\ \A s \in Stacks \ {t} : frames'[s] = stacks[s]
    BY <2>1, <2>2, <2>3, <1>1, ReturnLemma
  <2>5. \A u \in live' \ displaced' : u # t => Home(frames', sps, u)
    BY <2>4, <1>1 DEF Home, At
  <2>6. TrapTyped'
    BY <1>1, <1>2, <2>1, <2>2, <2>4 DEF TrapTyped, Context, Threads
  <2>7. HartInPlace'
    BY <1>1, <1>2, <2>1, <2>2, <2>4 DEF HartInPlace
  <2>8. IInv'
    BY <1>1, <1>2, <2>1, <2>2, <2>4, <2>5, <2>6, <2>7 DEF IInv
  <2>9. Executing' = current'
    BY <1>1, <2>1, <2>2, <2>4 DEF Executing
  <2> QED
    BY <1>1, <2>1, <2>4, <2>8, <2>9 DEF Own
<1>3. CASE ~(sched_ready /\ ret)
  <2>1. /\ current' = current /\ ReturnTo(stacks, f)
        /\ Back(stacks, f) /\ At(stacks, f) = Executing
        /\ f.stack \in Stacks /\ At(stacks, f) # "lost"
    BY <1>3 DEF Leave, Back, MainAt, TrapTyped, Address
  <2>2. /\ frames' \in StackContents
        /\ hart' = [who |-> Executing, stack |-> f.stack, mie |-> TRUE]
        /\ \A s \in Stacks \ {f.stack} : frames'[s] = stacks[s]
    BY <2>1, ReturnLemma
  <2>3. \/ sched_ready /\ f.stack = current /\ Executing = current /\ current \in Tasks
        \/ f.stack = "boot" /\ Executing = "main"
    <3>1. sched_ready => current \in live'
      BY <1>3
    <3> QED
      BY <2>1, <3>1, <1>1 DEF Back, MainAt
  <2>4. \A u \in live' \ displaced' : hart'.who # u => Home(frames', sps, u)
    BY <2>2, <2>3, <1>1 DEF Home, At
  <2>5. TrapTyped'
    BY <1>1, <2>1, <2>2, <2>3 DEF TrapTyped, Context, Threads
  <2>6. HartInPlace'
    BY <2>1, <2>2, <2>3 DEF HartInPlace
  <2>7. IInv'
    BY <1>1, <1>3, <2>1, <2>4, <2>5, <2>6 DEF IInv
  <2>8. Executing' = Executing
    BY <2>2, <2>3 DEF Executing
  <2> QED
    BY <2>1, <2>2, <2>3, <2>7, <2>8 DEF Own
<1> QED
  BY <1>2, <1>3

-----------------------------------------------------------------------------
(* Traps.                                                                  *)

\* A trap of main or of a task: with the frame pushed and the TCB written every
\* address that is not lost is right, and Here leads back.
LEMMA EntryLemma ==
  ASSUME IInv, ~astray, NEW trap, hart.who # "isr"
  PROVE  /\ TrapTyped /\ Here \in Address
         /\ PushedBy(trap) \in StackContents /\ SavedSp \in SavedPointers
         /\ Displaced(trap) \in SUBSET Tasks
         /\ \A t \in live \ Displaced(trap) : Home(PushedBy(trap), SavedSp, t)
         /\ Back(PushedBy(trap), Here)
         /\ At(PushedBy(trap), Here) = Executing /\ Executing = hart.who
         /\ sched_ready => current \in live
<1> USE ThreadNames
<1>0. /\ TrapTyped /\ HartInPlace /\ (sched_ready => current \in live)
      /\ \A t \in live \ displaced : hart.who # t => Home(frames, sp, t)
      /\ Executing = hart.who
  BY DEF IInv, Executing
<1>1. Displaced(trap) = IF sched_ready THEN (displaced \cup {current}) \ {hart.who}
                        ELSE displaced
  BY DEF Displaced
<1>2. /\ Displaced(trap) \in SUBSET Tasks
      /\ SavedSp = IF sched_ready THEN [sp EXCEPT ![current] = Here] ELSE sp
  BY <1>0, <1>1 DEF TrapTyped, SavedSp
<1>3. CASE hart.who = "main"
  <2>1. hart.stack = "boot"
    BY <1>0, <1>3 DEF HartInPlace
  <2>2. /\ Here \in Address /\ Here.stack = "boot"
        /\ PushedBy(trap) \in StackContents
        /\ At(PushedBy(trap), Here) = "main"
        /\ \A s \in Stacks \ {"boot", "isr"} : PushedBy(trap)[s] = frames[s]
    BY <1>0, <1>3, <2>1, PushLemma
  <2>3. SavedSp \in SavedPointers
    BY <1>0, <1>2, <2>2 DEF TrapTyped, SavedPointers
  <2>4. ASSUME NEW t \in live \ Displaced(trap)
        PROVE  Home(PushedBy(trap), SavedSp, t)
    <3>1. t \in Tasks /\ SavedSp[t] = sp[t] /\ Home(frames, sp, t)
      BY <1>0, <1>1, <1>2, <1>3, <2>4 DEF TrapTyped, SavedPointers
    <3> QED
      BY <2>2, <3>1 DEF Home, At, Stacks
  <2> QED
    BY <1>0, <1>2, <1>3, <2>2, <2>3, <2>4 DEF Back, MainAt
<1>4. CASE hart.who \in Tasks
  <2>1. /\ sched_ready /\ hart.who = current /\ hart.stack = current
        /\ current \in live /\ current \in Tasks
    BY <1>0, <1>4 DEF HartInPlace
  <2>2. /\ Here \in Address /\ Here.stack = current
        /\ PushedBy(trap) \in StackContents
        /\ At(PushedBy(trap), Here) = current
        /\ \A s \in Stacks \ {current, "isr"} : PushedBy(trap)[s] = frames[s]
    BY <1>0, <2>1, PushLemma
  <2>3. SavedSp \in SavedPointers /\ SavedSp[current] = Here
    BY <1>0, <1>2, <2>1, <2>2 DEF SavedPointers, TrapTyped
  <2>4. ASSUME NEW t \in live \ Displaced(trap)
        PROVE  Home(PushedBy(trap), SavedSp, t)
    <3>1. CASE t = current
      BY <2>2, <2>3, <3>1 DEF Home
    <3>2. CASE t # current
      <4>1. t \in Tasks /\ SavedSp[t] = sp[t] /\ Home(frames, sp, t)
        BY <1>0, <1>1, <1>2, <2>1, <2>4, <3>2 DEF TrapTyped, SavedPointers
      <4> QED
        BY <4>1, <2>2, <3>2 DEF Home, At, Stacks
    <3> QED
      BY <3>1, <3>2
  <2> QED
    BY <1>0, <1>2, <2>1, <2>2, <2>3, <2>4 DEF Back
<1> QED
  BY <1>0, <1>3, <1>4 DEF TrapTyped, Context, Threads, HartInPlace

\* A trap that main or a task takes, with `choice` for next_tcb.
LEMMA TrapIInv ==
  ASSUME IInv, ~astray, NEW trap, NEW ret \in BOOLEAN, NEW choice,
         hart.who # "isr", Traps(trap),
         live' \in SUBSET live, choice \subseteq live', ~ret => live' = live,
         Leave(ret, PushedBy(trap), SavedSp, Here, choice),
         sched_ready' = sched_ready, interrupted' = interrupted
  PROVE  IInv' /\ Own
<1>1. /\ TrapTyped /\ Here \in Address
      /\ PushedBy(trap) \in StackContents /\ SavedSp \in SavedPointers
      /\ Displaced(trap) \in SUBSET Tasks
      /\ \A t \in live \ Displaced(trap) : Home(PushedBy(trap), SavedSp, t)
      /\ Back(PushedBy(trap), Here)
      /\ At(PushedBy(trap), Here) = Executing
      /\ sched_ready => current \in live
  BY EntryLemma
<1>2. /\ live' \in SUBSET Tasks /\ interrupted' \in Address
      /\ displaced' \in SUBSET Tasks
      /\ \A t \in live' \ displaced' : Home(PushedBy(trap), SavedSp, t)
  BY <1>1 DEF TrapTyped, Traps
<1> QED
  BY <1>1, <1>2, LeaveLemma

\* An interrupt in a handler.
LEMMA NestedGoesAstray ==
  ASSUME hart.who = "isr", Traps("interrupt"), NEW switch, GoesAstray(switch)
  PROVE  IInv' /\ Own
BY DEF Traps, Displaced, GoesAstray, IInv, Own

\* A fault in a handler comes and goes on the ISR stack; it costs the current
\* task its address.
LEMMA HandlerFault ==
  ASSUME IInv, ~astray, hart.who = "isr", Fault
  PROVE  IInv' /\ Own
<1> SUFFICES ASSUME ~astray' PROVE IInv' /\ Own
  BY DEF IInv, Own
<1> USE ThreadNames
<1> DEFINE pushed == PushedBy("exception")
<1>1. /\ TrapTyped /\ HartInPlace /\ (sched_ready => current \in live)
      /\ \A t \in live \ displaced : hart.who # t => Home(frames, sp, t)
  BY DEF IInv
<1>2. /\ hart.stack = "isr" /\ Back(frames, interrupted)
      /\ "isr" \in Stacks /\ "isr" \in Threads
      /\ frames["isr"] \in Seq(Threads \cup {"data"})
  BY <1>1 DEF HartInPlace, TrapTyped, StackContents, Stacks, Threads
<1>3. /\ UNCHANGED << sched_ready, live, interrupted, current >>
      /\ sp' = SavedSp /\ ReturnTo(pushed, Here)
      /\ displaced' = Displaced("exception")
  BY DEF Fault, Leave, Traps, scheduling
<1>4. pushed = [frames EXCEPT !["isr"] = Append(@, "isr")]
  BY <1>2 DEF PushedBy
<1>5. /\ Here \in Address /\ Here.stack = "isr"
      /\ Here.depth = Len(frames["isr"]) + 1
  BY <1>2 DEF Here, Address
<1>6. /\ pushed \in StackContents /\ At(pushed, Here) = "isr"
      /\ \A s \in Stacks \ {"isr"} : pushed[s] = frames[s]
  <2>1. Append(frames["isr"], "isr") \in Seq(Threads \cup {"data"})
    BY <1>2
  <2>2. pushed \in StackContents /\ pushed["isr"] = Append(frames["isr"], "isr")
    BY <1>1, <1>2, <1>4, <2>1 DEF TrapTyped, StackContents
  <2>3. Here.depth \in DOMAIN pushed["isr"] /\ pushed["isr"][Here.depth] = "isr"
    BY <1>2, <1>5, <2>2
  <2> QED
    BY <1>1, <1>4, <1>5, <2>2, <2>3 DEF At, TrapTyped, StackContents
<1>7. /\ frames' \in StackContents
      /\ hart' = [who |-> "isr", stack |-> "isr", mie |-> TRUE]
      /\ \A s \in Stacks \ {"isr"} : frames'[s] = frames[s]
  <2> HIDE DEF pushed
  <2> QED BY <1>3, <1>5, <1>6, ReturnLemma
<1>8. interrupted.stack \in Stacks \ {"isr"}
  BY <1>1, <1>2 DEF Back, MainAt, TrapTyped, Stacks
<1>9. /\ At(frames', interrupted') = At(frames, interrupted)
      /\ Back(frames, interrupted)'
      /\ Executing' = Executing
  <2>1. At(frames', interrupted') = At(frames, interrupted)
    BY <1>3, <1>7, <1>8 DEF At
  <2> QED
    BY <1>2, <1>3, <1>7, <2>1 DEF Back, MainAt, Executing
<1>10. /\ displaced' = IF sched_ready THEN (displaced \cup {current}) \ {"isr"}
                       ELSE displaced
       /\ displaced' \in SUBSET Tasks
  BY <1>1, <1>3 DEF Displaced, TrapTyped
<1>11. sp' \in SavedPointers /\ \A t \in live' \ displaced' : sp'[t] = sp[t]
  BY <1>1, <1>3, <1>5, <1>10 DEF SavedSp, SavedPointers, TrapTyped
<1>12. \A t \in live' \ displaced' : Home(frames', sp', t)
  BY <1>1, <1>3, <1>7, <1>10, <1>11 DEF Home, At, TrapTyped, Stacks
<1>13. TrapTyped' /\ HartInPlace'
  BY <1>1, <1>2, <1>3, <1>7, <1>9, <1>10, <1>11 DEF TrapTyped, HartInPlace, Context
<1> QED
  BY <1>1, <1>3, <1>7, <1>9, <1>12, <1>13 DEF IInv, Own

-----------------------------------------------------------------------------
(* Invariance.                                                             *)

LEMMA StepLemma ==
  ASSUME IInv, ~astray, Next
  PROVE  IInv' /\ Own
<1> USE ThreadNames
<1>typed. /\ TrapTyped /\ HartInPlace /\ (sched_ready => current \in live)
          /\ \A t \in live \ displaced : hart.who # t => Home(frames, sp, t)
  BY DEF IInv
<1>1. ASSUME Launch PROVE IInv' /\ Own
  <2>1. /\ hart.who = "main" /\ current' \in live /\ sched_ready' = TRUE
        /\ UNCHANGED << live, sp, frames, hart, interrupted, displaced >>
    BY <1>1 DEF Launch, Boots, contexts
  <2>2. TrapTyped' /\ HartInPlace'
    BY <2>1, <1>typed DEF TrapTyped, HartInPlace
  <2> QED
    BY <2>1, <2>2, <1>typed DEF IInv, Own, Executing, Home, At
<1>2. ASSUME StartFirstTask PROVE IInv' /\ Own
  <2>1. /\ sched_ready /\ hart.who = "main" /\ current \in live /\ current \in Tasks
        /\ sp[current] \in Address
    BY <1>2, <1>typed DEF StartFirstTask, TrapTyped, SavedPointers
  <2>2. Leave(TRUE, frames, sp, sp[current], {current})
        /\ UNCHANGED << sched_ready, live, interrupted, displaced >>
    BY <1>2, <2>1 DEF StartFirstTask, Leave, scheduling, GoesAstray
  <2>3. /\ frames \in StackContents /\ sp \in SavedPointers
        /\ interrupted' \in Address /\ displaced' \in SUBSET Tasks
        /\ live' \in SUBSET Tasks /\ {current} \subseteq live'
    BY <2>1, <2>2, <1>typed DEF TrapTyped
  <2>4. \A t \in live' \ displaced' : Home(frames, sp, t)
    BY <2>1, <2>2, <1>typed DEF TrapTyped
  <2> QED
    BY <1>typed, <2>1, <2>2, <2>3, <2>4, LeaveLemma
<1>3. ASSUME NEW t \in Tasks, Create(t) PROVE IInv' /\ Own
  <2>1. /\ t \notin live /\ live' = live \cup {t} /\ hart.who # t
        /\ sp' = [sp EXCEPT ![t] = FirstFrame(t)]
        /\ frames' = [frames EXCEPT ![t] = << t >>]
        /\ displaced' = displaced \ {t}
        /\ UNCHANGED << sched_ready, current, hart, interrupted >>
        /\ hart.who # "isr"
    BY <1>3, <1>typed DEF Create, Boots, InTask, HartInPlace
  <2>2. FirstFrame(t) \in Address /\ << t >> \in Seq(Threads \cup {"data"})
    BY DEF FirstFrame, Address, Stacks, Threads
  <2>3. TrapTyped'
    BY <2>1, <2>2, <1>typed DEF TrapTyped, SavedPointers, StackContents
  <2>4. HartInPlace'
    BY <2>1, <1>typed DEF HartInPlace
  <2>5. Home(frames', sp', t)
    BY <2>1, <1>typed DEF Home, At, FirstFrame, TrapTyped, SavedPointers, StackContents, Stacks
  <2>6. ASSUME NEW u \in live \ displaced, u # t, hart.who # u
        PROVE  Home(frames', sp', u)
    <3>1. u \in Tasks /\ Home(frames, sp, u) /\ sp'[u] = sp[u]
      BY <2>1, <2>6, <1>typed DEF TrapTyped, SavedPointers
    <3>2. frames'[u] = frames[u]
      BY <2>1, <2>6, <3>1, <1>typed DEF TrapTyped, StackContents, Stacks
    <3> QED
      BY <3>1, <3>2 DEF Home, At
  <2> QED
    BY <2>1, <2>3, <2>4, <2>5, <2>6, <1>typed DEF IInv, Own, HartInPlace, Executing
<1>4. ASSUME NEW t \in Tasks, End(t) PROVE IInv' /\ Own
  <2>1. /\ InTask /\ live' = live \ {t} /\ live' \in SUBSET live
        /\ Traps("exception")
        /\ Leave(TRUE, PushedBy("exception"), SavedSp, Here, live \ {t})
        /\ UNCHANGED << sched_ready, interrupted >>
    BY <1>4 DEF End, Ecall
  <2> QED
    BY <2>1, TrapIInv DEF InTask
<1>5. ASSUME Yield PROVE IInv' /\ Own
  <2>1. /\ InTask /\ live' = live /\ Traps("exception")
        /\ Leave(TRUE, PushedBy("exception"), SavedSp, Here, live)
        /\ UNCHANGED << sched_ready, interrupted >>
    BY <1>5 DEF Yield, Ecall
  <2> QED
    BY <2>1, TrapIInv DEF InTask
<1>6. ASSUME Compute PROVE IInv' /\ Own
  <2>1. /\ hart.who \in Tasks /\ hart.stack = hart.who
        /\ frames' = [frames EXCEPT ![hart.stack] =
                         IF @ = << >> THEN << "data" >> ELSE << >>]
        /\ UNCHANGED << sched_ready, live, current, sp, hart, interrupted, displaced >>
    BY <1>6, <1>typed, TrapAssumption DEF Compute, HartInPlace, scheduling, contexts
  <2>2. << "data" >> \in Seq(Threads \cup {"data"})
        /\ << >> \in Seq(Threads \cup {"data"})
    OBVIOUS
  <2>3. TrapTyped' /\ HartInPlace'
    BY <2>1, <2>2, <1>typed DEF TrapTyped, HartInPlace, StackContents
  <2>4. ASSUME NEW u \in live \ displaced, hart.who # u PROVE Home(frames', sp', u)
    BY <2>1, <2>4, <1>typed DEF TrapTyped, Home, At, StackContents, Stacks
  <2> QED
    BY <2>1, <2>3, <2>4, <1>typed DEF IInv, Own, Executing, HartInPlace
<1>7. ASSUME Mask \/ Unmask PROVE IInv' /\ Own
  <2>1. /\ hart.who \in Tasks /\ hart' \in Context
        /\ hart'.who = hart.who /\ hart'.stack = hart.stack
        /\ UNCHANGED << sched_ready, live, current, sp, frames, interrupted, displaced >>
    BY <1>7, <1>typed DEF Mask, Unmask, InTask, scheduling, TrapTyped, Context, contexts
  <2>2. TrapTyped' /\ HartInPlace'
    BY <2>1, <1>typed DEF TrapTyped, HartInPlace
  <2> QED
    BY <2>1, <2>2, <1>typed DEF IInv, Own, HartInPlace, Home, At, Executing
<1>8. ASSUME Fault PROVE IInv' /\ Own
  <2>1. CASE hart.who = "isr"
    BY <1>8, <2>1, HandlerFault
  <2>2. CASE hart.who \in Tasks
    <3>1. /\ hart.who # "isr" /\ live' = live /\ Traps("exception")
          /\ Leave(FALSE, PushedBy("exception"), SavedSp, Here, live)
          /\ UNCHANGED << sched_ready, interrupted >>
      BY <1>8, <2>2 DEF Fault, scheduling
    <3> QED
      BY <3>1, TrapIInv
  <2> QED
    BY <1>8, <2>1, <2>2 DEF Fault, InTask
<1>9. ASSUME Systick \/ Stray PROVE IInv' /\ Own
  <2>1. /\ live' = live /\ Traps("interrupt")
        /\ UNCHANGED << sched_ready, interrupted >>
    BY <1>9 DEF Systick, Stray, scheduling
  <2>2. PICK asked : Leave(asked, PushedBy("interrupt"), SavedSp, Here, live)
    BY <1>9 DEF Systick, Stray
  <2>3. CASE hart.who = "isr"
    BY <2>1, <2>2, <2>3, NestedGoesAstray DEF Leave
  <2>4. CASE hart.who # "isr"
    <3>1. PICK ret \in BOOLEAN :
            Leave(ret, PushedBy("interrupt"), SavedSp, Here, live)
      <4>1. CASE asked
        BY <2>2, <4>1 DEF Leave, GoesAstray
      <4>2. CASE ~asked
        BY <2>2, <4>2 DEF Leave, GoesAstray
      <4> QED
        BY <4>1, <4>2
    <3> QED
      BY <2>1, <2>4, <3>1, TrapIInv
  <2> QED
    BY <2>3, <2>4
<1>10. ASSUME IsrStarts PROVE IInv' /\ Own
  <2>1. /\ frames' = PushedBy("interrupt") /\ sp' = SavedSp
        /\ interrupted' = Here
        /\ hart' = [who |-> "isr", stack |-> "isr", mie |-> FALSE]
        /\ Traps("interrupt") /\ displaced' = Displaced("interrupt")
        /\ GoesAstray(FALSE)
        /\ UNCHANGED << sched_ready, live, current >>
    BY <1>10 DEF IsrStarts, scheduling, Traps
  <2>2. CASE hart.who = "isr"
    BY <2>1, <2>2, NestedGoesAstray
  <2>3. CASE hart.who # "isr"
    <3>1. /\ Here \in Address
          /\ PushedBy("interrupt") \in StackContents /\ SavedSp \in SavedPointers
          /\ Displaced("interrupt") \in SUBSET Tasks
          /\ \A t \in live \ Displaced("interrupt") :
               Home(PushedBy("interrupt"), SavedSp, t)
          /\ Back(PushedBy("interrupt"), Here)
          /\ At(PushedBy("interrupt"), Here) = Executing
          /\ sched_ready => current \in live
      BY <2>3, EntryLemma
    <3>2. TrapTyped'
      BY <2>1, <3>1, <1>typed DEF TrapTyped, Context, Threads, Stacks
    <3>3. Back(frames, interrupted)'
      BY <2>1, <3>1 DEF Back, MainAt, At
    <3>4. HartInPlace' /\ Executing' = Executing
      BY <2>1, <3>1, <3>3 DEF HartInPlace, Executing, At
    <3> QED
      BY <2>1, <3>1, <3>2, <3>4 DEF IInv, Own, Home, At
  <2> QED
    BY <2>2, <2>3
<1>11. ASSUME IsrYields \/ BlobMeddles \/ TimePasses PROVE IInv' /\ Own
  <2>1. UNCHANGED << sched_ready, live, current, sp, frames, hart, interrupted, displaced >>
    BY <1>11 DEF IsrYields, BlobMeddles, TimePasses, scheduling, contexts
  <2>2. IInv'
    BY <2>1, <1>typed DEF IInv, TrapTyped, HartInPlace, Back, MainAt, Home, At
  <2> QED
    BY <2>1, <2>2, <1>typed DEF Own, HartInPlace, Executing, At
<1>12. ASSUME IsrEnds PROVE IInv' /\ Own
  <2>1. /\ hart.who = "isr" /\ interrupted' = Nowhere
        /\ Leave(yield_from_isr, frames, sp, interrupted, live)
        /\ UNCHANGED << sched_ready, live, displaced >>
    BY <1>12 DEF IsrEnds, scheduling
  <2>2. PICK ret \in BOOLEAN : Leave(ret, frames, sp, interrupted, live)
    <3>1. CASE yield_from_isr
      BY <2>1, <3>1 DEF Leave, GoesAstray
    <3>2. CASE ~yield_from_isr
      BY <2>1, <3>2 DEF Leave, GoesAstray
    <3> QED
      BY <3>1, <3>2
  <2>3. \A t \in live' \ displaced' : Home(frames, sp, t)
    BY <2>1, <1>typed DEF TrapTyped
  <2>4. /\ Back(frames, interrupted) /\ At(frames, interrupted) = Executing
        /\ frames \in StackContents /\ sp \in SavedPointers
        /\ interrupted \in Address /\ live' \in SUBSET Tasks
        /\ displaced' \in SUBSET Tasks /\ interrupted' \in Address
        /\ sched_ready => current \in live'
    BY <2>1, <1>typed DEF TrapTyped, HartInPlace, Executing, Nowhere, Address, Stacks
  <2> QED
    BY <2>1, <2>2, <2>3, <2>4, <1>typed, LeaveLemma
<1> QED
  BY <1>1, <1>2, <1>3, <1>4, <1>5, <1>6, <1>7, <1>8, <1>9, <1>10, <1>11, <1>12
     DEF Next

LEMMA InitIInv == Init => IInv
<1> SUFFICES ASSUME Init PROVE IInv
  OBVIOUS
<1>1. /\ \A t \in Tasks : FirstFrame(t) \in Address
      /\ Nowhere \in Address
      /\ << >> \in Seq(Threads \cup {"data"})
  BY DEF FirstFrame, Nowhere, Address, Stacks
<1>2. TrapTyped
  BY <1>1 DEF Init, TrapTyped, SavedPointers, StackContents, Context, Threads, Stacks
<1>3. HartInPlace
  BY ThreadNames DEF Init, HartInPlace
<1> QED
  BY <1>2, <1>3 DEF Init, IInv

LEMMA SpecIInv == Spec => []IInv
<1>1. IInv /\ [Next]_vars => IInv'
  <2>1. ASSUME IInv, Next PROVE IInv'
    BY <2>1, StepLemma DEF Next
  <2>2. ASSUME IInv, UNCHANGED vars PROVE IInv'
    <3>1. UNCHANGED << sched_ready, live, current, sp, frames, hart, interrupted,
                       displaced, astray >>
      BY <2>2 DEF vars, contexts
    <3> QED
      BY <2>2, <3>1 DEF IInv, TrapTyped, HartInPlace, Back, MainAt, Home, At
  <2> QED
    BY <2>1, <2>2
<1> QED
  BY <1>1, InitIInv, PTL DEF Spec

-----------------------------------------------------------------------------
(* The theorems.                                                           *)

\* Every task that does not execute can be resumed, whatever traps come in
\* whatever order: the address in its TCB is that of its own frame, unless launch
\* was interrupted or a handler has faulted while it was current.
THEOREM ContextsAreSaved == Spec => []SavedContexts
<1>1. IInv => SavedContexts
  BY ThreadNames DEF IInv, SavedContexts, Executing, Home, TrapTyped
<1> QED
  BY <1>1, SpecIInv, PTL

\* Until the hart enters such a task, only the current task goes on in place of
\* another thread, and every task runs on its own stack.
THEOREM OwnContextResumed == Spec => ResumesOwnContext
<1>1. IInv /\ [Next]_vars => [Own]_vars
  BY StepLemma DEF Next
<1>2. ResumesOwnContext <=> [][Own]_vars
  BY DEF ResumesOwnContext, Own
<1> QED
  BY <1>1, <1>2, SpecIInv, PTL DEF Spec

-----------------------------------------------------------------------------
(* The clock.  Nothing here depends on whose context is where.             *)

\* The remainder is the only one that leaves a multiple.
LEMMA OneRemainder ==
  ASSUME NEW n \in Nat, n > 0, NEW x \in Int, NEW q \in Int, NEW r \in 0 .. n - 1,
         x = n * q + r
  PROVE  x % n = r
OBVIOUS

\* Within one turn of a counter a remainder is a comparison.
LEMMA OneTurn ==
  ASSUME NEW n \in Nat, n > 0, NEW x \in Int, -n < x, x < 2 * n
  PROVE  x % n = IF x < 0 THEN x + n ELSE IF x < n THEN x ELSE x - n
<1>1. CASE x < 0
  <2>1. x + n \in 0 .. n - 1 /\ x = n * (-1) + (x + n) /\ -1 \in Int
    BY <1>1
  <2> QED
    BY <1>1, <2>1, OneRemainder
<1>2. CASE 0 <= x /\ x < n
  <2>1. x \in 0 .. n - 1 /\ x = n * 0 + x
    BY <1>2
  <2> QED
    BY <1>2, <2>1
<1>3. CASE n <= x
  <2>1. x - n \in 0 .. n - 1 /\ x = n * 1 + (x - n)
    BY <1>3
  <2> QED
    BY <1>3, <2>1
<1> QED
  BY <1>1, <1>2, <1>3

\* What a counter that wraps has moved by.
LEMMA MovedBy ==
  ASSUME NEW n \in Nat, n > 0, NEW a \in Int, NEW b \in Int
  PROVE  (((a + b) % n) - a) % n = b % n
<1> DEFINE s == a + b
           p == s \div n
           q == b \div n
           r == b % n
<1>1. /\ p \in Int /\ s = n * p + (s % n) /\ s % n \in 0 .. n - 1
      /\ q \in Int /\ b = n * q + r /\ r \in 0 .. n - 1
  OBVIOUS
<1>2. (s % n) - a = b - n * p
  <2> HIDE DEF p
  <2> QED BY <1>1
<1>3. (s % n) - a = n * (q - p) + r
  <2> HIDE DEF p, q, r, s
  <2> QED BY <1>1, <1>2
<1>4. ((s % n) - a) % n = r
  <2>1. (s % n) - a \in Int /\ q - p \in Int
    BY <1>1
  <2> DEFINE x == (s % n) - a
  <2> HIDE DEF x, p, q, r
  <2> QED BY <1>1, <1>3, <2>1, OneRemainder DEF x
<1> QED
  BY <1>4

\* The periods of one interrupt are far from a turn of the counter.
LEMMA Periods ==
  ASSUME NEW m \in 0 .. MissedLimit + 1
  PROVE  /\ (1 + m) * PERIOD \in Nat /\ PERIOD <= (1 + m) * PERIOD
         /\ 2 * ((1 + m) * PERIOD) < Width
         /\ (1 + m) * PERIOD = m * PERIOD + PERIOD
<1>1. PERIOD \in Nat /\ PERIOD > 0 /\ MissedLimit \in Nat /\ Width \in Nat
  BY SystimerAssumption
<1>2. (1 + m) * PERIOD \in Nat /\ PERIOD <= (1 + m) * PERIOD
      /\ (1 + m) * PERIOD = m * PERIOD + PERIOD
  BY <1>1
<1>3. (1 + m) * PERIOD <= (MissedLimit + 3) * PERIOD
  BY <1>1
<1>4. 2 * (MissedLimit + 3) * PERIOD = 2 * ((MissedLimit + 3) * PERIOD)
  BY <1>1
<1> QED
  BY <1>1, <1>2, <1>3, <1>4, SystimerAssumption

\* The loop of systick_isr stops at the first period that is not over, or gives up.
LEMMA SkippedLemma ==
  ASSUME NEW r
  PROVE  /\ Skipped(r) \in 0 .. MissedLimit + 1
         /\ Skipped(r) <= MissedLimit => NextTarget(r, Skipped(r)) > r.now
         /\ \A m \in 0 .. Skipped(r) - 1 : ~(NextTarget(r, m) > r.now)
<1> DEFINE T == {m \in 0 .. MissedLimit + 1 : NextTarget(r, m) > r.now}
                  \cup {MissedLimit + 1}
<1>1. MissedLimit \in Nat
  BY SystimerAssumption
<1>2. T \in SUBSET Nat /\ T # {} /\ T \subseteq 0 .. MissedLimit + 1
  BY <1>1
<1>3. Min(T) \in T /\ \A y \in T : Min(T) <= y
  <2> HIDE DEF T
  <2>1. PICK x \in T : \A y \in T : << y, x >> \notin OpToRel(<, Nat)
    BY <1>2, NatLessThanWellFounded, WFMin
  <2>2. ASSUME NEW y \in T PROVE x <= y
    <3>1. << y, x >> \in Nat \X Nat
      BY <1>2
    <3>2. ~(y < x)
      BY <2>1, <3>1 DEF OpToRel
    <3> QED
      BY <1>2, <3>2
  <2> QED
    BY <2>2 DEF Min
<1>4. Skipped(r) = Min(T)
  BY DEF Skipped
<1>5. Skipped(r) \in T /\ Skipped(r) \in 0 .. MissedLimit + 1
      /\ \A y \in T : Skipped(r) <= y
  <2> HIDE DEF T
  <2> QED BY <1>2, <1>3, <1>4
<1>6. ASSUME NEW m \in 0 .. Skipped(r) - 1 PROVE ~(NextTarget(r, m) > r.now)
  <2>1. m \in 0 .. MissedLimit + 1 /\ ~(Skipped(r) <= m)
    BY <1>1, <1>5
  <2>2. m \notin T
    <3> HIDE DEF T
    <3> QED BY <1>5, <2>1
  <2> QED
    BY <2>1, <2>2
<1> QED
  BY <1>1, <1>5, <1>6

\* The registers and the counter have their types.
ClockTyped ==
  /\ timer \in Registers /\ os_ticks \in 0 .. TickMod - 1
  /\ wrapped \in BOOLEAN /\ sched_ready \in BOOLEAN

\* The registers are repaired, or the blob has been at them.
Retuned ==
  /\ timer' \in Registers /\ timer'.now = timer.now /\ timer'.target = timer.target
  /\ UNCHANGED << os_ticks, wrapped >>
  /\ sched_ready' \in BOOLEAN
  /\ sched_ready => sched_ready'

\* The enable bits may change in any way without touching count and target.
LEMMA RetunedLemma ==
  ASSUME NEW r \in Registers
  PROVE  \A q \in {Recovered(r), LinkOn(r), WasReset(r),
                   [LinkOn(r) EXCEPT !.stray = FALSE], [r EXCEPT !.clock = FALSE],
                   [r EXCEPT !.line = FALSE], [r EXCEPT !.stray = TRUE]} :
           q \in Registers /\ q.now = r.now /\ q.target = r.target
BY DEF Registers, Recovered, LinkOn, ClockOn, WasReset

\* Only two actions move the count, the target or the ticks.
LEMMA ClockSteps ==
  ASSUME ClockTyped, [Next]_vars
  PROVE  Retuned \/ TimePasses \/ Systick
<1>1. CASE UNCHANGED vars
  BY <1>1 DEF vars, Retuned, ClockTyped
<1>2. CASE Launch \/ StartFirstTask \/ (\E t \in Tasks : Create(t) \/ End(t)) \/ Yield
  BY <1>2 DEF Launch, Boots, StartFirstTask, Create, End, Yield, Ecall, Retuned,
              ClockTyped, scheduling
<1>3. CASE Compute \/ Mask \/ Unmask \/ IsrStarts \/ IsrYields
  BY <1>3 DEF Compute, Mask, Unmask, IsrStarts, IsrYields, Retuned, ClockTyped,
              scheduling
<1>4. CASE Fault
  <2>1. timer' \in {timer, Recovered(timer)} /\ UNCHANGED << sched_ready, os_ticks, wrapped >>
    BY <1>4 DEF Fault, scheduling
  <2> QED
    BY <2>1, RetunedLemma DEF Retuned, ClockTyped
<1>5. CASE IsrEnds
  <2>1. timer' = LinkOn(timer) /\ UNCHANGED << sched_ready, os_ticks, wrapped >>
    BY <1>5 DEF IsrEnds, scheduling
  <2> QED
    BY <2>1, RetunedLemma DEF Retuned, ClockTyped
<1>6. CASE Stray
  <2>1. /\ timer' = [LinkOn(timer) EXCEPT !.stray = FALSE]
        /\ UNCHANGED << sched_ready, os_ticks, wrapped >>
    BY <1>6 DEF Stray, scheduling
  <2> QED
    BY <2>1, RetunedLemma DEF Retuned, ClockTyped
<1>7. CASE BlobMeddles
  <2>1. /\ timer' \in {[timer EXCEPT !.clock = FALSE], [timer EXCEPT !.line = FALSE],
                       [timer EXCEPT !.stray = TRUE], WasReset(timer)}
        /\ UNCHANGED << sched_ready, os_ticks, wrapped >>
    BY <1>7 DEF BlobMeddles, scheduling
  <2> QED
    BY <2>1, RetunedLemma DEF Retuned, ClockTyped
<1> QED
  BY <1>1, <1>2, <1>3, <1>4, <1>5, <1>6, <1>7 DEF Next

\* One timer interrupt: the periods it counts and by which it moves the target.
LEMMA SystickLemma ==
  ASSUME ClockTyped, Systick
  PROVE  /\ Skipped(timer) \in 0 .. MissedLimit + 1
         /\ timer' \in Registers /\ timer'.now = timer.now
         /\ timer'.target = (timer.target + (1 + Skipped(timer)) * PERIOD) % Width
         /\ wrapped' = (wrapped \/ timer'.target < timer.target)
         /\ os_ticks' = IF sched_ready THEN (os_ticks + (1 + Skipped(timer))) % TickMod
                        ELSE os_ticks
         /\ sched_ready' = sched_ready
<1>1. /\ timer' = Rearmed(timer) /\ sched_ready' = sched_ready
      /\ wrapped' = (wrapped \/ timer'.target < timer.target)
      /\ os_ticks' = IF sched_ready THEN (os_ticks + (1 + Skipped(timer))) % TickMod
                     ELSE os_ticks
  BY DEF Systick, Counted, scheduling
<1> DEFINE skip == Skipped(timer)
           next == NextTarget(timer, skip)
<1>2. skip \in 0 .. MissedLimit + 1
  BY SkippedLemma
<1>3. next = (timer.target + (1 + skip) * PERIOD) % Width
  BY DEF NextTarget
<1> HIDE DEF skip
<1>4. next \in Count
  <2>1. timer.target \in Nat /\ (1 + skip) * PERIOD \in Nat /\ Width \in Nat /\ Width > 0
    <3>1. timer.target \in Nat
      BY SystimerAssumption DEF ClockTyped, Registers, Count
    <3>2. (1 + skip) * PERIOD \in Nat /\ 2 * ((1 + skip) * PERIOD) < Width
      BY <1>2, Periods
    <3> QED
      BY <3>1, <3>2, SystimerAssumption
  <2> DEFINE x == timer.target + (1 + skip) * PERIOD
  <2>2. x \in Nat
    BY <2>1
  <2>3. next = x % Width
    BY <1>3
  <2> HIDE DEF x, next
  <2> QED
    BY <2>1, <2>2, <2>3 DEF Count
<1> HIDE DEF next
<1>5. timer' \in Registers /\ timer'.now = timer.now /\ timer'.target = next
  <2>1. Rearmed(timer) = [timer EXCEPT !.clock = TRUE, !.target = next,
                                       !.armed = TRUE, !.int_ena = TRUE]
    BY DEF Rearmed, ClockOn, next, skip, ClockTyped, Registers
  <2> QED
    BY <1>1, <1>4, <2>1 DEF ClockTyped, Registers
<1> QED
  BY <1>1, <1>2, <1>3, <1>5 DEF skip

\* TicksKeepTime of one step.
CountsItsPeriods ==
  sched_ready /\ timer'.target # timer.target =>
    (timer'.target - timer.target) % Width
      = (((os_ticks' - os_ticks) % TickMod) * PERIOD) % Width

\* What an interrupt counts and what it moves the target by agree, as long as the
\* counter of ticks has more values than one interrupt counts.
LEMMA SystickCounts ==
  ASSUME ClockTyped, Systick, MissedLimit + 2 < TickMod
  PROVE  CountsItsPeriods
<1> DEFINE c == 1 + Skipped(timer)
<1>1. /\ c \in 1 .. MissedLimit + 2
      /\ timer'.target = (timer.target + c * PERIOD) % Width
      /\ sched_ready => os_ticks' = (os_ticks + c) % TickMod
  BY SystickLemma, SystimerAssumption
<1>2. /\ timer.target \in Int /\ os_ticks \in Int /\ TickMod \in Nat /\ TickMod > 0
      /\ Width \in Nat /\ Width > 0 /\ PERIOD \in Nat
  <2>1. PERIOD <= (1 + 0) * PERIOD /\ 2 * ((1 + 0) * PERIOD) < Width
    BY Periods, SystimerAssumption
  <2> QED
    BY <2>1, SystimerAssumption, TrapAssumption DEF ClockTyped, Registers, Count
<1> HIDE DEF c
<1>3. c \in Int /\ c * PERIOD \in Int
  BY <1>1, <1>2, SystimerAssumption
<1>4. (timer'.target - timer.target) % Width = (c * PERIOD) % Width
  <2> DEFINE b == c * PERIOD
  <2>1. b \in Int /\ timer'.target = (timer.target + b) % Width
    BY <1>1, <1>3
  <2> HIDE DEF b
  <2>2. (timer'.target - timer.target) % Width = b % Width
    BY <1>2, <2>1, MovedBy
  <2> QED
    BY <2>2 DEF b
<1>5. sched_ready => (os_ticks' - os_ticks) % TickMod = c
  <2>1. (((os_ticks + c) % TickMod) - os_ticks) % TickMod = c % TickMod
    BY <1>2, <1>3, MovedBy
  <2>2. c % TickMod = c
    BY <1>1, <1>2, SystimerAssumption
  <2> QED
    BY <1>1, <2>1, <2>2
<1> QED
  BY <1>4, <1>5 DEF CountsItsPeriods

\* Count and target are numbers, and a period is less than half a turn.
LEMMA Turn ==
  ASSUME ClockTyped
  PROVE  /\ Width \in Nat /\ PERIOD \in Nat /\ PERIOD > 0 /\ 2 * PERIOD < Width
         /\ timer.now \in 0 .. Width - 1 /\ timer.target \in 0 .. Width - 1
         /\ Width \div 2 \in Nat /\ 2 * (Width \div 2) <= Width
         /\ Width < 2 * (Width \div 2) + 2
<1>1. 0 \in 0 .. MissedLimit + 1 /\ (1 + 0) * PERIOD = PERIOD
  BY SystimerAssumption
<1>2. 2 * PERIOD < Width
  BY <1>1, Periods
<1> QED
  BY <1>2, SystimerAssumption DEF ClockTyped, Registers, Count

\* The two distances on a counter that wraps.
LEMMA Distances ==
  ASSUME NEW W \in Nat, NEW a \in 0 .. W - 1, NEW b \in 0 .. W - 1
  PROVE  (a - b) % W = IF a < b THEN a - b + W ELSE a - b
<1>1. W > 0 /\ a - b \in Int /\ -W < a - b /\ a - b < 2 * W
  OBVIOUS
<1> DEFINE x == a - b
<1>2. x % W = IF x < 0 THEN x + W ELSE IF x < W THEN x ELSE x - W
  <2> HIDE DEF x
  <2>1. x \in Int /\ -W < x /\ x < 2 * W /\ W > 0
    BY <1>1 DEF x
  <2> QED BY <2>1, OneTurn
<1> QED
  BY <1>2

\* One count nearer to the target, or one later, with room for one more.
LEMMA OneCount ==
  ASSUME NEW W \in Nat, NEW P \in Nat, NEW half \in Nat, half > 0,
         NEW n \in Int, NEW t \in Int, NEW m \in Int,
         0 <= n, n < W, 0 <= t, t < W, 2 * half <= W,
         m = IF n + 1 < W THEN n + 1 ELSE 0,
         NEW over \in Int, over = IF n < t THEN n - t + W ELSE n - t,
         NEW left \in Int, left = IF t < n THEN t - n + W ELSE t - n,
         NEW later \in Int, later = IF m < t THEN m - t + W ELSE m - t,
         NEW rest \in Int, rest = IF t < m THEN t - m + W ELSE t - m,
         over < half => over + 1 < half,
         over < half \/ left <= P
  PROVE  later < half \/ rest <= P
<1>1. CASE over < half
  <2>1. later = over + 1
    BY <1>1
  <2> QED
    BY <1>1, <2>1
<1>2. CASE ~(over < half) /\ left <= P
  <2>1. left # 0
    BY <1>2
  <2>2. rest = left - 1
    BY <2>1
  <2> QED
    BY <1>2, <2>2
<1> QED
  BY <1>1, <1>2

\* While time passes the alarm comes nearer, or gets later by less than half a turn.
LEMMA TimeKeepsReach ==
  ASSUME ClockTyped, TimePasses, AlarmInReach
  PROVE  ClockTyped' /\ AlarmInReach'
<1> DEFINE n == timer.now
           t == timer.target
           m == timer'.now
<1>1. /\ timer' = [timer EXCEPT !.now = (n + 1) % Width]
      /\ Over(timer) => (n - t) % Width < LateMax
      /\ UNCHANGED << os_ticks, wrapped, sched_ready >>
  BY DEF TimePasses, scheduling
<1>2. /\ Width \in Nat /\ PERIOD \in Nat /\ PERIOD > 0 /\ 2 * PERIOD < Width
      /\ n \in 0 .. Width - 1 /\ t \in 0 .. Width - 1
      /\ Width \div 2 \in Nat /\ 2 * (Width \div 2) <= Width
      /\ Width < 2 * (Width \div 2) + 2
  BY Turn
<1>3. (n + 1) % Width = IF n + 1 < Width THEN n + 1 ELSE 0
  <2>1. n + 1 \in Int /\ -Width < n + 1 /\ n + 1 < 2 * Width /\ Width > 0
    BY <1>2
  <2> DEFINE x == n + 1
  <2>2. x % Width = IF x < 0 THEN x + Width ELSE IF x < Width THEN x ELSE x - Width
    <3> HIDE DEF x
    <3>1. x \in Int /\ -Width < x /\ x < 2 * Width
      BY <2>1 DEF x
    <3> QED BY <1>2, <2>1, <3>1, OneTurn
  <2> HIDE DEF n
  <2> QED
    BY <1>2, <2>2
<1>4. /\ timer' \in Registers /\ timer'.target = t
      /\ m = (IF n + 1 < Width THEN n + 1 ELSE 0) /\ m \in 0 .. Width - 1
  <2>1. (n + 1) % Width \in 0 .. Width - 1
    <3> HIDE DEF n
    <3> QED BY <1>2, <1>3
  <2> QED
    BY <1>1, <1>2, <1>3, <2>1 DEF ClockTyped, Registers, Count
<1>5. ClockTyped'
  BY <1>1, <1>4 DEF ClockTyped
<1>6. /\ AlarmInReach <=> wrapped \/ (n - t) % Width < Width \div 2 \/ (t - n) % Width <= PERIOD
      /\ AlarmInReach' <=> wrapped \/ (m - t) % Width < Width \div 2 \/ (t - m) % Width <= PERIOD
      /\ (n - t) % Width < Width \div 2 => (n - t) % Width < LateMax
  BY <1>1, <1>4 DEF AlarmInReach, Over
<1>7. LateMax \in Int /\ LateMax <= Width \div 2 - 1
  BY <1>2, TrapAssumption
<1> HIDE DEF n, t, m
<1>8. /\ (n - t) % Width = IF n < t THEN n - t + Width ELSE n - t
      /\ (t - n) % Width = IF t < n THEN t - n + Width ELSE t - n
  BY <1>2, Distances
<1>9. /\ (m - t) % Width = IF m < t THEN m - t + Width ELSE m - t
      /\ (t - m) % Width = IF t < m THEN t - m + Width ELSE t - m
  <2>1. Width \in Nat /\ m \in 0 .. Width - 1 /\ t \in 0 .. Width - 1
    BY <1>2, <1>4
  <2> QED
    BY <2>1, Distances
<1> DEFINE over == (n - t) % Width
           left == (t - n) % Width
           later == (m - t) % Width
           rest == (t - m) % Width
           half == Width \div 2
<1>10. over < half \/ left <= PERIOD => later < half \/ rest <= PERIOD
  <2> SUFFICES ASSUME over < half \/ left <= PERIOD PROVE later < half \/ rest <= PERIOD
    OBVIOUS
  <2>1. /\ over = IF n < t THEN n - t + Width ELSE n - t
        /\ left = IF t < n THEN t - n + Width ELSE t - n
        /\ later = IF m < t THEN m - t + Width ELSE m - t
        /\ rest = IF t < m THEN t - m + Width ELSE t - m
    BY <1>8, <1>9
  <2>2. /\ half \in Nat /\ 2 * half <= Width /\ LateMax <= half - 1 /\ LateMax \in Int
        /\ Width < 2 * half + 2 /\ Width >= 3 /\ (over < half => over < LateMax)
    BY <1>2, <1>6, <1>7
  <2>3. /\ n \in Int /\ t \in Int /\ m \in Int /\ 0 <= n /\ n < Width
        /\ 0 <= t /\ t < Width /\ Width \in Nat /\ PERIOD \in Nat
        /\ m = IF n + 1 < Width THEN n + 1 ELSE 0
    BY <1>2, <1>4
  <2> HIDE DEF over, left, later, rest, half
  <2>4. over \in Int /\ left \in Int /\ later \in Int /\ rest \in Int /\ half > 0
    BY <2>1, <2>2, <2>3
  <2>5. over < half => over + 1 < half
    BY <2>2, <2>4
  <2> QED
    BY <2>1, <2>2, <2>3, <2>4, <2>5, OneCount
<1> HIDE DEF over, left, later, rest, half
<1> QED
  BY <1>5, <1>6, <1>10 DEF over, left, later, rest, half, AlarmInReach

\* A target moved by the periods that were over, and one more, lies at most a
\* period ahead.
LEMMA OneMorePeriod ==
  ASSUME NEW W \in Nat, NEW P \in Nat, NEW half \in Nat, 2 * half <= W, P > 0,
         NEW n \in Int, NEW t \in Int, NEW u \in Int, NEW over \in Int, NEW q \in Nat,
         0 <= n, n < W, 0 <= t, t < W,
         over = IF n < t THEN n - t + W ELSE n - t, over < half,
         u = t + (q + P), u < W,
         q > 0 => t + q <= n
  PROVE  (IF n < u THEN n - u + W ELSE n - u) < half \/ (IF u < n THEN u - n + W ELSE u - n) <= P
<1>1. CASE n < t
  OBVIOUS
<1>2. CASE ~(n < t) /\ u <= n
  OBVIOUS
<1>3. CASE ~(n < t) /\ n < u
  <2>1. t + q <= n
    BY <1>3
  <2> QED
    BY <1>3, <2>1
<1> QED
  BY <1>1, <1>2, <1>3

\* systick_isr keeps the alarm in reach.
LEMMA SystickKeepsReach ==
  ASSUME ClockTyped, Systick
  PROVE  ClockTyped' /\ AlarmInReach'
<1> DEFINE n == timer.now
           t == timer.target
           u == timer'.target
           skip == Skipped(timer)
           p == (1 + skip) * PERIOD
           q == skip * PERIOD
           half == Width \div 2
           over == (n - t) % Width
<1>1. /\ skip \in 0 .. MissedLimit + 1 /\ timer' \in Registers /\ timer'.now = n
      /\ u = (t + p) % Width /\ wrapped' = (wrapped \/ u < t)
      /\ os_ticks' = IF sched_ready THEN (os_ticks + (1 + skip)) % TickMod ELSE os_ticks
      /\ sched_ready' = sched_ready
  BY SystickLemma
<1>2. /\ Width \in Nat /\ PERIOD \in Nat /\ PERIOD > 0
      /\ n \in 0 .. Width - 1 /\ t \in 0 .. Width - 1
      /\ half \in Nat /\ 2 * half <= Width
  BY Turn
<1>3. over < half
  BY DEF Systick, Asks, Over
<1>4. \A m \in 0 .. skip - 1 : ~(NextTarget(timer, m) > n)
  BY SkippedLemma
<1>5. skip > 0 => ~((t + q) % Width > n)
  <2> SUFFICES ASSUME skip > 0 PROVE ~((t + q) % Width > n)
    OBVIOUS
  <2>1. skip - 1 \in 0 .. skip - 1 /\ 1 + (skip - 1) = skip
    BY <1>1, SystimerAssumption
  <2>2. NextTarget(timer, skip - 1) = (t + q) % Width
    BY <2>1 DEF NextTarget
  <2> HIDE DEF q, skip
  <2> QED
    BY <1>4, <2>1, <2>2
<1>6. /\ p \in Nat /\ 2 * p < Width /\ p = q + PERIOD /\ q \in Nat
      /\ skip = 0 => q = 0
  <2> HIDE DEF skip
  <2>1. p \in Nat /\ PERIOD <= p /\ 2 * p < Width /\ p = q + PERIOD
    BY <1>1, Periods
  <2>2. q \in Nat /\ (skip = 0 => q = 0)
    BY <1>1, <1>2, SystimerAssumption
  <2> QED
    BY <2>1, <2>2
<1> DEFINE x == t + p
           y == t + q
<1>7. /\ u = IF x < Width THEN x ELSE x - Width
      /\ y < Width => y % Width = y
  <2> HIDE DEF p, q, t, u
  <2>1. x \in Int /\ -Width < x /\ x < 2 * Width /\ ~(x < 0) /\ Width > 0 /\ y \in Int /\ ~(y < 0)
    BY <1>2, <1>6
  <2>2. u = x % Width
    BY <1>1
  <2> HIDE DEF x, y
  <2>3. x % Width = IF x < Width THEN x ELSE x - Width
    BY <1>2, <2>1, OneTurn
  <2>4. y < Width => y % Width = y
    BY <1>2, <2>1
  <2> QED
    BY <2>2, <2>3, <2>4
<1>8. ClockTyped'
  <2> HIDE DEF skip
  <2>1. os_ticks' \in 0 .. TickMod - 1
    <3>1. os_ticks + (1 + skip) \in Int
      BY <1>1, SystimerAssumption DEF ClockTyped
    <3> DEFINE z == os_ticks + (1 + skip)
    <3>2. z % TickMod \in 0 .. TickMod - 1
      <4> HIDE DEF z
      <4>1. z \in Int
        BY <3>1 DEF z
      <4> QED BY <4>1, TrapAssumption
    <3> QED
      BY <1>1, <3>2 DEF ClockTyped
  <2> QED
    BY <1>1, <2>1 DEF ClockTyped
<1>9. AlarmInReach' <=> wrapped' \/ (n - u) % Width < half \/ (u - n) % Width <= PERIOD
  BY <1>1 DEF AlarmInReach, Over
<1>10. ASSUME ~wrapped' PROVE (n - u) % Width < half \/ (u - n) % Width <= PERIOD
  <2> HIDE DEF n, t, u, p, q, half, skip
  <2>0. ~(u < t)
    BY <1>1, <1>10
  <2>1. u = t + (q + PERIOD) /\ u < Width /\ u \in 0 .. Width - 1
    <3>1. t \in Int /\ 0 <= t /\ t < Width /\ p \in Nat /\ 2 * p < Width
          /\ u = (IF t + p < Width THEN t + p ELSE t + p - Width)
          /\ p = q + PERIOD
      BY <1>2, <1>6, <1>7
    <3> QED
      BY <1>2, <2>0, <3>1
  <2>2. q > 0 => t + q <= n
    <3> SUFFICES ASSUME q > 0 PROVE t + q <= n
      OBVIOUS
    <3>1. skip > 0
      BY <1>1, <1>6, SystimerAssumption
    <3>2. y < Width
      BY <1>2, <1>6, <2>1
    <3>3. y \in Nat /\ n \in Nat
      BY <1>2, <1>6
    <3>4. ~(y > n)
      BY <1>5, <1>7, <3>1, <3>2
    <3> QED
      BY <3>3, <3>4
  <2>3. over = IF n < t THEN n - t + Width ELSE n - t
    BY <1>2, Distances
  <2>4. /\ (n - u) % Width = IF n < u THEN n - u + Width ELSE n - u
        /\ (u - n) % Width = IF u < n THEN u - n + Width ELSE u - n
    BY <1>2, <2>1, Distances
  <2> HIDE DEF over
  <2>5. /\ n \in Int /\ t \in Int /\ u \in Int /\ 0 <= n /\ n < Width
        /\ 0 <= t /\ t < Width
    BY <1>2, <2>1
  <2>6. over \in Int
    BY <1>2, <2>3, <2>5
  <2>7. \/ (IF n < u THEN n - u + Width ELSE n - u) < half
        \/ (IF u < n THEN u - n + Width ELSE u - n) <= PERIOD
    BY <1>2, <1>3, <1>6, <2>1, <2>2, <2>3, <2>5, <2>6, OneMorePeriod
  <2> QED
    BY <2>4, <2>7
<1> QED
  BY <1>8, <1>9, <1>10

\* What a step leaves, and what it does to the ticks.
LEMMA ClockStep ==
  ASSUME ClockTyped, [Next]_vars
  PROVE  /\ ClockTyped'
         /\ AlarmInReach => AlarmInReach'
         /\ MissedLimit + 2 < TickMod => [CountsItsPeriods]_vars
         /\ [Clock!Next]_<< SystemState, os_ticks >>
<1>0. CASE UNCHANGED vars
  BY <1>0 DEF vars, contexts, ClockTyped, AlarmInReach, Over, SystemState
<1>crash. ASSUME ~astray, astray' PROVE Clock!Next
  BY <1>crash DEF Clock!Next, Clock!Crash, SystemState
<1>1. CASE Next /\ Retuned
  <2>1. ClockTyped'
    BY <1>1 DEF Retuned, ClockTyped
  <2>2. AlarmInReach => AlarmInReach'
    BY <1>1 DEF Retuned, AlarmInReach, Over
  <2>3. CountsItsPeriods
    BY <1>1 DEF Retuned, CountsItsPeriods
  <2>4. [Clock!Next]_<< SystemState, os_ticks >>
    BY <1>1, <1>crash DEF Next, Retuned, ClockTyped, SystemState, Clock!Next, Clock!Start
  <2> QED
    BY <2>1, <2>2, <2>3, <2>4
<1>2. CASE TimePasses
  <2>1. timer'.target = timer.target /\ UNCHANGED << sched_ready, os_ticks, astray >>
    BY <1>2 DEF TimePasses, scheduling, contexts, ClockTyped, Registers
  <2>2. CountsItsPeriods
    BY <2>1 DEF CountsItsPeriods
  <2>3. ClockTyped'
    <3>1. timer' = [timer EXCEPT !.now = (@ + 1) % Width] /\ UNCHANGED wrapped
      BY <1>2 DEF TimePasses
    <3>2. (timer.now + 1) % Width \in Count
      <4>1. timer.now + 1 \in Int /\ Width \in Nat /\ Width > 0
        BY Turn
      <4> QED
        BY <4>1 DEF Count
    <3> QED
      BY <2>1, <3>1, <3>2 DEF ClockTyped, Registers
  <2> QED
    BY <1>2, <2>1, <2>2, <2>3, TimeKeepsReach DEF SystemState
<1>3. CASE Next /\ Systick
  <2>1. [Clock!Next]_<< SystemState, os_ticks >>
    <3>1. /\ sched_ready => os_ticks' = (os_ticks + (1 + Skipped(timer))) % TickMod
          /\ ~sched_ready => os_ticks' = os_ticks
          /\ sched_ready' = sched_ready
          /\ 1 + Skipped(timer) \in 1 .. MissedLimit + 2
      BY <1>3, SystickLemma, SystimerAssumption DEF ClockTyped
    <3> QED
      BY <1>3, <1>crash, <3>1 DEF Next, SystemState, Clock!Next, Clock!Advance
  <2> QED
    BY <1>3, <2>1, SystickKeepsReach, SystickCounts
<1> QED
  BY <1>0, <1>1, <1>2, <1>3, ClockSteps

\* After init_systimer the first alarm is one period away.
LEMMA ClockInit == Init => ClockTyped /\ AlarmInReach /\ Clock!Init
<1> SUFFICES ASSUME Init PROVE ClockTyped /\ AlarmInReach /\ Clock!Init
  OBVIOUS
<1>1. 0 \in 0 .. MissedLimit + 1 /\ (1 + 0) * PERIOD = PERIOD
  BY SystimerAssumption
<1>2. Width \in Nat /\ PERIOD \in Nat /\ PERIOD > 0 /\ 2 * PERIOD < Width
  BY <1>1, Periods, SystimerAssumption
<1>3. timer \in Registers /\ timer.now = 0 /\ timer.target = PERIOD
  BY <1>2 DEF Init, Started, Registers, Count
<1>4. ClockTyped
  <2>1. os_ticks \in 0 .. TickMod - 1
    BY TrapAssumption DEF Init
  <2>2. wrapped \in BOOLEAN /\ sched_ready \in BOOLEAN
    BY DEF Init
  <2> QED
    BY <1>3, <2>1, <2>2 DEF ClockTyped
<1>5. AlarmInReach
  <2>1. (PERIOD - 0) % Width = PERIOD
    BY <1>2
  <2> QED
    BY <1>2, <1>3, <2>1 DEF AlarmInReach
<1>6. Clock!Init
  BY DEF Init, Clock!Init, SystemState
<1> QED
  BY <1>4, <1>5, <1>6

LEMMA SpecClock == Spec => [](ClockTyped /\ AlarmInReach)
<1>1. ClockTyped /\ AlarmInReach /\ [Next]_vars => (ClockTyped /\ AlarmInReach)'
  BY ClockStep
<1> QED
  BY <1>1, ClockInit, PTL DEF Spec

\* The next alarm is at most a period away or already due, however late the last
\* one was taken and whatever the blob does to the registers, until the target
\* wraps (the loop of systick_isr).
THEOREM AlarmAlwaysInReach == Spec => []AlarmInReach
BY SpecClock, PTL

\* Ticks are counted as the target moves: no period is lost or counted twice, as
\* long as one interrupt counts fewer ticks than the counter has values
\* (systick_isr and the loop of the dispatch).
THEOREM ClockKeepsTime ==
  ASSUME MissedLimit + 2 < TickMod
  PROVE  Spec => TicksKeepTime
<1>1. ClockTyped /\ AlarmInReach /\ [Next]_vars => [CountsItsPeriods]_vars
  BY ClockStep
<1>2. TicksKeepTime <=> [][CountsItsPeriods]_vars
  BY DEF TicksKeepTime, CountsItsPeriods
<1> QED
  BY <1>1, <1>2, SpecClock, PTL DEF Spec

\* The clock the kernel is promised, up to its liveness: it starts at zero with
\* the scheduler stopped, and every step starts the scheduler, advances the ticks
\* by 1 .. MissedLimit + 2, sends the hart astray, or does nothing of it.
THEOREM ClockStepsAreTicks ==
  Spec => Clock!Init /\ [][Clock!Next]_<< SystemState, os_ticks >>
<1>1. ClockTyped /\ AlarmInReach /\ [Next]_vars
        => [Clock!Next]_<< SystemState, os_ticks >>
  BY ClockStep
<1> QED
  BY <1>1, ClockInit, SpecClock, PTL DEF Spec

-----------------------------------------------------------------------------
(* Handles and tids that outlive the critical section they were looked up  *)
(* in, for any number of slots, lives and names.                           *)

\* alloc_tid and the allocator give out a member of what is free.
LEMMA LeastExists ==
  ASSUME NEW T \in SUBSET Nat, T # {}
  PROVE  \E x \in T : \A y \in T : x <= y
<1>1. \E x \in T : \A y \in T : <<y, x>> \notin OpToRel(<, Nat)
  BY NatLessThanWellFounded, WFMin
<1>2. PICK x \in T : \A y \in T : <<y, x>> \notin OpToRel(<, Nat)
  BY <1>1
<1>3. \A y \in T : x <= y
  <2>1. SUFFICES ASSUME NEW y \in T PROVE x <= y
    OBVIOUS
  <2>2. <<y, x>> \in Nat \X Nat
    OBVIOUS
  <2>3. ~ (y < x)
    BY <1>2, <2>1, <2>2 DEF OpToRel
  <2> QED
    BY <2>3
<1> QED
  BY <1>3

LEMMA MinIsMember ==
  ASSUME NEW T \in SUBSET Nat, T # {}
  PROVE  Min(T) \in T
<1>1. PICK x \in T : \A y \in T : x <= y
  BY LeastExists
<1> QED
  BY <1>1 DEF Min

-----------------------------------------------------------------------------
(* Types and lives.                                                        *)

Places == {"user", "test", "make", "read", "clear", "free"}

Doings == [at : Places, tid : Tids, life : Nat, handle : Handle \cup {NoHandle}]

HandlesTyped ==
  /\ alive \in SUBSET Tids /\ stopped \subseteq alive
  /\ name \in [Tids -> Names \cup {"controller"}]
  /\ life \in [Tids -> Nat] /\ lives \in Nat
  /\ table \in [Tids -> Handle \cup {NoHandle}]
  /\ heap \in SUBSET Handle
  /\ mos_tid \in [Handle -> Tids]
  /\ pc \in [Tids -> Doings]
  /\ meddled \in BOOLEAN
  /\ shell \in [busy : BOOLEAN, tid : Tids]

\* The living have different lives, the dead have none.
LivesApart ==
  /\ \A t \in Tids : t \in alive <=> life[t] # 0
  /\ \A t \in Tids : life[t] <= lives
  /\ \A t, u \in alive : life[t] = life[u] => t = u

\* What Born does, in terms of the slot it takes.
BornAt(tid, t, who, next) ==
  /\ tid \in Tids \ alive
  /\ lives' = lives + 1
  /\ alive' = alive \cup {tid}
  /\ name' = [name EXCEPT ![tid] = who]
  /\ life' = [life EXCEPT ![tid] = lives + 1]
  /\ pc' = [pc EXCEPT ![t] = next]

\* alloc_tid takes a slot of the dead.
LEMMA BornLemma ==
  ASSUME HandlesTyped, NEW t, NEW who, NEW next, Born(t, who, next)
  PROVE  BornAt(Min(FreeTids), t, who, next)
<1>1. FreeTids \in SUBSET Nat /\ FreeTids # {}
  BY DEF Born, FreeTids, Tids
<1>2. Min(FreeTids) \in FreeTids
  BY <1>1, MinIsMember
<1> QED
  BY <1>2 DEF Born, BornAt, FreeTids

\* The fresh handle.
LEMMA FreshHandle ==
  ASSUME Handle \ heap # {}
  PROVE  Min(Handle \ heap) \in Handle \ heap
<1>1. Handle \ heap \in SUBSET Nat
  BY HandlesAssumption DEF Handle
<1> QED
  BY <1>1, MinIsMember

\* The null pointer is no handle.
LEMMA NoHandleIsNone == Handle \subseteq Nat /\ NoHandle \notin Handle
BY HandlesAssumption DEF Handle

\* What the tasks do is well typed, whichever step they take next.
LEMMA DoingTyped ==
  /\ 0 \in Tids /\ Idle \in Doings
  /\ \A place \in Places, tid \in Tids, n \in Nat : Doing(place, tid, n) \in Doings
  /\ \A place \in Places, tid \in Tids, n \in Nat, h \in Handle :
       [Doing(place, tid, n) EXCEPT !.handle = h] \in Doings
BY HandlesAssumption DEF Idle, Doing, Doings, Places, Tids

\* A slot is taken.
LEMMA BornTyped ==
  ASSUME HandlesTyped, NEW t \in Tids, NEW tid, NEW who \in Names, NEW next \in Doings,
         BornAt(tid, t, who, next), UNCHANGED << stopped, handles, meddled, shell >>
  PROVE  HandlesTyped'
<1>1. /\ alive' \in SUBSET Tids /\ stopped' \subseteq alive'
      /\ name' \in [Tids -> Names \cup {"controller"}]
      /\ life' \in [Tids -> Nat] /\ lives' \in Nat
  BY DEF HandlesTyped, BornAt
<1>2. pc' \in [Tids -> Doings]
  BY DEF HandlesTyped, BornAt
<1> QED
  BY <1>1, <1>2 DEF HandlesTyped, handles

\* A slot is vacated.
LEMMA DiesTyped ==
  ASSUME HandlesTyped, NEW tid \in Tids, NEW next \in [Tids -> Doings], Dies(tid, next)
  PROVE  /\ alive' \in SUBSET Tids /\ stopped' \subseteq alive'
         /\ name' = name /\ lives' = lives
         /\ life' \in [Tids -> Nat]
         /\ pc' \in [Tids -> Doings]
         /\ life' = [life EXCEPT ![tid] = 0]
         /\ pc' = [next EXCEPT ![tid] = Idle]
<1>1. pc' \in [Tids -> Doings]
  BY DoingTyped DEF Dies
<1> QED
  BY <1>1 DEF HandlesTyped, Dies

\* What the controller does while it deletes.
LEMMA DeletingTyped ==
  ASSUME HandlesTyped, NEW h \in Handle, NEW n \in Nat, NEW place \in Places
  PROVE  /\ DeletingAt(place, h, n) \in [Tids -> Doings]
         /\ DeletingAt(place, h, n) =
              [pc EXCEPT ![0] = [Doing(place, mos_tid[h], n) EXCEPT !.handle = h]]
         /\ DeletingAt(place, h, n)[0] = [Doing(place, mos_tid[h], n) EXCEPT !.handle = h]
<1>1. mos_tid[h] \in Tids /\ pc \in [Tids -> Doings]
  BY DEF HandlesTyped
<1>2. [Doing(place, mos_tid[h], n) EXCEPT !.handle = h] \in Doings
  BY <1>1, DoingTyped
<1>3. 0 \in Tids
  BY DoingTyped
<1> QED
  BY <1>1, <1>2, <1>3 DEF DeletingAt

\* What the controller does when a task deletes itself that it just created.
LEMMA OrphanTyped ==
  ASSUME HandlesTyped, NEW q, NEW b \in BOOLEAN,
         q = IF b THEN [pc EXCEPT ![0].life = 0] ELSE pc
  PROVE  q \in [Tids -> Doings]
<1>1. pc \in [Tids -> Doings] /\ 0 \in Tids
  BY DoingTyped DEF HandlesTyped
<1>2. [pc[0] EXCEPT !.life = 0] \in Doings
  BY <1>1 DEF Doings
<1> QED
  BY <1>1, <1>2

\* A task goes to its next place and keeps the rest of what it is doing.
LEMMA GotoTyped ==
  ASSUME HandlesTyped, NEW t \in Tids, NEW place \in Places, Goto(t, place)
  PROVE  /\ pc' \in [Tids -> Doings]
         /\ \A u \in Tids \ {t} : pc'[u] = pc[u]
         /\ pc'[t].at = place /\ pc'[t].tid = pc[t].tid
         /\ pc'[t].life = pc[t].life /\ pc'[t].handle = pc[t].handle
<1>1. pc \in [Tids -> Doings] /\ pc[t] \in Doings
  BY DEF HandlesTyped
<1>2. pc' = [pc EXCEPT ![t] = [pc[t] EXCEPT !.at = place]]
  BY DEF Goto
<1>3. [pc[t] EXCEPT !.at = place] \in Doings
  BY <1>1 DEF Doings
<1> QED
  BY <1>1, <1>2, <1>3 DEF Doings

\* Every step keeps the types.
LEMMA NextTyped == HandlesTyped /\ [HandlesNext]_handles_vars => HandlesTyped'
<1> SUFFICES ASSUME HandlesTyped, [HandlesNext]_handles_vars PROVE HandlesTyped'
  OBVIOUS
<1>0. 0 \in Tids /\ Idle \in Doings /\ pc \in [Tids -> Doings]
  BY DoingTyped DEF HandlesTyped
<1>1. ASSUME NEW t \in Tids, CreateApp(t) PROVE HandlesTyped'
  <2>1. PICK who \in Names : Born(t, who, Idle)
    BY <1>1 DEF CreateApp
  <2>2. BornAt(Min(FreeTids), t, who, Idle)
    BY <2>1, BornLemma
  <2> QED
    BY <1>0, <1>1, <2>2, BornTyped DEF CreateApp, ghosts
<1>2. ASSUME NEW t \in Tids, ExitApp(t) PROVE HandlesTyped'
  BY <1>0, <1>2, DiesTyped DEF ExitApp, HandlesTyped, handles, ghosts
<1>3. ASSUME NEW t \in Tids, CurrentTask(t) PROVE HandlesTyped'
  <2>1. Doing("test", t, life[t]) \in Doings
    BY DoingTyped DEF HandlesTyped, Places
  <2> QED
    BY <1>0, <1>3, <2>1 DEF CurrentTask, HandlesTyped, tasks, handles, ghosts
<1>4. ASSUME NEW t \in Tids, TestEntry(t) PROVE HandlesTyped'
  <2>1. PICK place \in Places : Goto(t, place)
    BY <1>4 DEF TestEntry, Places
  <2> QED
    BY <1>4, <2>1, GotoTyped DEF TestEntry, HandlesTyped, tasks, handles, ghosts
<1>5. ASSUME NEW t \in Tids, MakeHandle(t) PROVE HandlesTyped'
  <2> DEFINE h == Min(Handle \ heap)
  <2>1. h \in Handle \ heap
    BY <1>5, FreshHandle DEF MakeHandle
  <2>2. pc[t].tid \in Tids
    BY <1>0 DEF Doings
  <2> HIDE DEF h
  <2>3. /\ heap' = heap \cup {h} /\ mos_tid' = [mos_tid EXCEPT ![h] = pc[t].tid]
        /\ table' = [table EXCEPT ![pc[t].tid] = h]
        /\ UNCHANGED << tasks, stopped, ghosts, shell >> /\ Goto(t, "read")
    BY <1>5 DEF MakeHandle, h
  <2>4. /\ heap' \in SUBSET Handle /\ mos_tid' \in [Handle -> Tids]
        /\ table' \in [Tids -> Handle \cup {NoHandle}]
    BY <2>1, <2>2, <2>3 DEF HandlesTyped
  <2>5. pc' \in [Tids -> Doings]
    BY <2>3, GotoTyped DEF Places
  <2> QED
    BY <2>3, <2>4, <2>5 DEF HandlesTyped, tasks, ghosts
<1>6. ASSUME NEW t \in Tids, ReadEntry(t) PROVE HandlesTyped'
  BY <1>0, <1>6 DEF ReadEntry, HandlesTyped, tasks, handles
<1>7. ASSUME NEW t \in Tids, DeleteSelf(t) PROVE HandlesTyped'
  <2> DEFINE b == pc[0].at \in {"test", "make", "read"} /\ pc[0].life = life[t]
             q == IF b THEN [pc EXCEPT ![0].life = 0] ELSE pc
  <2>1. q \in [Tids -> Doings]
    BY OrphanTyped
  <2>2. Dies(t, q) /\ UNCHANGED << handles, meddled, shell >>
    BY <1>7 DEF DeleteSelf
  <2> HIDE DEF q
  <2> QED
    BY <2>1, <2>2, DiesTyped DEF HandlesTyped, handles
<1>8. CASE TaskCreate
  <2> DEFINE tid == Min(FreeTids)
             next == Doing("test", tid, lives + 1)
  <2>1. BornAt(tid, 0, "blob", next)
    BY <1>8, BornLemma DEF TaskCreate
  <2>2. next \in Doings
    <3>1. tid \in Tids /\ lives + 1 \in Nat
      BY <2>1 DEF BornAt, HandlesTyped
    <3> HIDE DEF tid
    <3> QED BY <3>1, DoingTyped DEF Places
  <2>3. UNCHANGED << stopped, handles, meddled, shell >>
    BY <1>8 DEF TaskCreate, ghosts
  <2> HIDE DEF tid, next
  <2> QED
    BY <1>0, <2>1, <2>2, <2>3, BornTyped, HandlesAssumption
<1>9. ASSUME NEW h \in Handle, NEW n \in 1 .. MaxLives, Delete(h, n) PROVE HandlesTyped'
  <2>1. DeletingAt("clear", h, n) \in [Tids -> Doings] /\ mos_tid[h] \in Tids
    <3>1. n \in Nat /\ "clear" \in Places
      BY DEF Places
    <3>2. DeletingAt("clear", h, n) \in [Tids -> Doings]
      BY <3>1, DeletingTyped
    <3> QED
      BY <3>2 DEF HandlesTyped
  <2>2. /\ Dies(mos_tid[h], DeletingAt("clear", h, n))
        /\ UNCHANGED << table, heap, mos_tid, meddled, shell >>
    BY <1>9 DEF Delete, Deletes
  <2> QED
    BY <2>1, <2>2, DiesTyped DEF HandlesTyped
<1>10. ASSUME NEW h \in Handle, NEW n \in 1 .. MaxLives, DeleteDead(h, n) PROVE HandlesTyped'
  <2>1. DeletingAt("free", h, n) \in [Tids -> Doings]
    <3>1. n \in Nat /\ "free" \in Places
      BY DEF Places
    <3> QED
      BY <3>1, DeletingTyped
  <2> QED
    BY <1>10, <2>1 DEF DeleteDead, Deletes, Cleared, HandlesTyped, tasks
<1>11. CASE ClearEntry
  <2>1. pc' \in [Tids -> Doings]
    BY <1>0, <1>11, GotoTyped DEF ClearEntry, Places
  <2> QED
    BY <1>11, <2>1 DEF ClearEntry, Cleared, HandlesTyped, tasks, ghosts
<1>12. CASE FreeHandle
  <2>1. mos_tid' \in [Handle -> Tids]
    BY <1>0, <1>12 DEF FreeHandle, HandlesTyped
  <2> QED
    BY <1>0, <1>12, <2>1 DEF FreeHandle, HandlesTyped, tasks, ghosts
<1>13. ASSUME NEW who \in Names, LookUp(who) PROVE HandlesTyped'
  <2>1. Found(who) \in SUBSET Nat /\ Found(who) # {} /\ Found(who) \subseteq Tids
    <3>1. Found(who) \subseteq Tids
      BY DEF Found, HandlesTyped
    <3>2. Tids \subseteq Nat
      BY DEF Tids
    <3> QED
      BY <1>13, <3>1, <3>2 DEF LookUp
  <2>2. Min(Found(who)) \in Tids
    BY <2>1, MinIsMember
  <2> QED
    BY <1>13, <2>2 DEF LookUp, HandlesTyped, tasks, handles, ghosts
<1>14. CASE Kill
  <2>1. shell.tid \in Tids /\ shell' \in [busy : BOOLEAN, tid : Tids]
    BY <1>0, <1>14 DEF Kill, Done, Prompt, HandlesTyped
  <2> QED
    BY <1>0, <1>14, <2>1, DiesTyped DEF Kill, HandlesTyped, handles
<1>15. CASE Block
  <2>1. shell' \in [busy : BOOLEAN, tid : Tids]
    BY <1>0, <1>15 DEF Block, Done, Prompt
  <2> QED
    BY <1>15, <2>1 DEF Block, HandlesTyped, tasks, handles, ghosts
<1>16. CASE Resume
  <2>1. shell' \in [busy : BOOLEAN, tid : Tids]
    BY <1>0, <1>16 DEF Resume, Done, Prompt
  <2> QED
    BY <1>16, <2>1 DEF Resume, HandlesTyped, tasks, handles, ghosts
<1>17. CASE UNCHANGED handles_vars
  BY <1>17 DEF handles_vars, HandlesTyped, tasks, handles, ghosts
<1> QED
  BY <1>1, <1>2, <1>3, <1>4, <1>5, <1>6, <1>7, <1>8, <1>9, <1>10, <1>11, <1>12,
     <1>13, <1>14, <1>15, <1>16, <1>17 DEF HandlesNext

\* A task is born: it gets a life of its own.
LEMMA BornApart ==
  ASSUME HandlesTyped, LivesApart, NEW tid, NEW t, NEW who, NEW next, BornAt(tid, t, who, next)
  PROVE  LivesApart'
<1>1. /\ tid \in Tids /\ tid \notin alive /\ alive \subseteq Tids
      /\ alive' = alive \cup {tid} /\ lives' = lives + 1
      /\ \A u \in Tids : life'[u] = IF u = tid THEN lives + 1 ELSE life[u]
      /\ \A u \in Tids : life[u] \in Nat
      /\ lives \in Nat
  BY DEF HandlesTyped, BornAt
<1>2. /\ \A u \in Tids : u \in alive <=> life[u] # 0
      /\ \A u \in Tids : life[u] <= lives
      /\ \A u, v \in alive : life[u] = life[v] => u = v
  BY DEF LivesApart
<1>3. ASSUME NEW u \in Tids PROVE (u \in alive' <=> life'[u] # 0) /\ life'[u] <= lives'
  BY <1>1, <1>2
<1>4. ASSUME NEW u \in alive', NEW v \in alive', life'[u] = life'[v] PROVE u = v
  <2>1. \A w \in alive : w \in Tids /\ w # tid /\ life'[w] # lives + 1
    BY <1>1, <1>2
  <2>2. life'[tid] = lives + 1
    BY <1>1
  <2>3. CASE u = tid \/ v = tid
    BY <1>1, <1>4, <2>1, <2>2, <2>3
  <2>4. CASE u # tid /\ v # tid
    BY <1>1, <1>2, <1>4, <2>1, <2>4
  <2> QED
    BY <2>3, <2>4
<1> QED
  BY <1>3, <1>4 DEF LivesApart

\* A task dies: its life is over.
LEMMA DiesApart ==
  ASSUME HandlesTyped, LivesApart, NEW tid \in Tids, NEW next, Dies(tid, next)
  PROVE  LivesApart'
<1>1. /\ alive \subseteq Tids /\ alive' = alive \ {tid} /\ lives' = lives
      /\ \A u \in Tids : life'[u] = IF u = tid THEN 0 ELSE life[u]
      /\ lives \in Nat
  BY DEF HandlesTyped, Dies
<1> QED
  BY <1>1 DEF LivesApart

\* What a step can do to the slots.
SlotSteps ==
  \/ \E t, who, next : Born(t, who, next)
  \/ \E tid \in Tids : \E next : Dies(tid, next)
  \/ UNCHANGED tasks

\* Every step is one of these.
LEMMA NextSlots == HandlesTyped /\ [HandlesNext]_handles_vars => SlotSteps
<1> SUFFICES ASSUME HandlesTyped, [HandlesNext]_handles_vars PROVE SlotSteps
  OBVIOUS
<1>0. 0 \in Tids /\ shell.tid \in Tids /\ mos_tid \in [Handle -> Tids]
  BY DoingTyped DEF HandlesTyped
<1>1. ASSUME NEW t \in Tids, CreateApp(t) PROVE SlotSteps
  BY <1>1 DEF CreateApp, SlotSteps
<1>2. ASSUME NEW t \in Tids, ExitApp(t) \/ DeleteSelf(t) PROVE SlotSteps
  BY <1>2 DEF ExitApp, DeleteSelf, SlotSteps
<1>3. ASSUME NEW t \in Tids,
             CurrentTask(t) \/ TestEntry(t) \/ MakeHandle(t) \/ ReadEntry(t)
      PROVE  SlotSteps
  BY <1>3 DEF CurrentTask, TestEntry, MakeHandle, ReadEntry, SlotSteps
<1>4. CASE TaskCreate
  BY <1>4 DEF TaskCreate, SlotSteps
<1>5. ASSUME NEW h \in Handle, NEW n \in 1 .. MaxLives, Delete(h, n) \/ DeleteDead(h, n)
      PROVE  SlotSteps
  BY <1>0, <1>5 DEF Delete, DeleteDead, SlotSteps
<1>6. ASSUME NEW who \in Names, LookUp(who) PROVE SlotSteps
  BY <1>6 DEF LookUp, SlotSteps
<1>7. CASE ClearEntry \/ FreeHandle \/ Block \/ Resume
  BY <1>7 DEF ClearEntry, FreeHandle, Block, Resume, SlotSteps
<1>8. CASE Kill
  BY <1>0, <1>8 DEF Kill, SlotSteps
<1>9. CASE UNCHANGED handles_vars
  BY <1>9 DEF handles_vars, SlotSteps
<1> QED
  BY <1>1, <1>2, <1>3, <1>4, <1>5, <1>6, <1>7, <1>8, <1>9 DEF HandlesNext

\* Every step keeps the lives apart: slots change by births and deaths only.
LEMMA NextApart == HandlesTyped /\ LivesApart /\ [HandlesNext]_handles_vars => LivesApart'
<1> SUFFICES ASSUME HandlesTyped, LivesApart, SlotSteps PROVE LivesApart'
  BY NextSlots
<1>1. CASE \E t, who, next : Born(t, who, next)
  BY <1>1, BornLemma, BornApart
<1>2. CASE \E tid \in Tids : \E next : Dies(tid, next)
  BY <1>2, DiesApart
<1>3. CASE UNCHANGED tasks
  BY <1>3 DEF tasks, LivesApart
<1> QED
  BY <1>1, <1>2, <1>3 DEF SlotSteps

\* Only the controller lives in the beginning.
LEMMA InitSlots == HandlesInit => HandlesTyped /\ LivesApart
<1> SUFFICES ASSUME HandlesInit PROVE HandlesTyped /\ LivesApart
  OBVIOUS
<1>1. 0 \in Tids /\ Idle \in Doings
  BY DoingTyped
<1>2. HandlesTyped
  BY <1>1 DEF HandlesInit, HandlesTyped, Prompt
<1>3. LivesApart
  BY <1>1 DEF HandlesInit, LivesApart
<1> QED
  BY <1>2, <1>3

\* Slots and lives, always.
LEMMA SpecSlots == HandlesSpec => [](HandlesTyped /\ LivesApart)
BY InitSlots, NextTyped, NextApart, PTL DEF HandlesSpec

-----------------------------------------------------------------------------
(* The table.                                                              *)

\* While a handle is being deleted it is allocated for the slot to be cleared, and
\* behind the clearing no entry is that handle.
Deleting ==
  /\ pc[0].at \in {"clear", "free"} =>
       pc[0].handle \in heap /\ mos_tid[pc[0].handle] = pc[0].tid
  /\ pc[0].at = "free" => table[pc[0].tid] # pc[0].handle

\* The inductive invariant of the table.
TableInv == EntriesAreAllocated /\ Deleting

\* Steps that leave table and heap, and the controller out of its deletion.
LEMMA TableStays ==
  ASSUME TableInv, UNCHANGED handles,
         pc'[0] = pc[0] \/ pc'[0].at \notin {"clear", "free"}
  PROVE  TableInv'
<1>1. EntriesAreAllocated'
  BY DEF TableInv, EntriesAreAllocated, handles
<1>2. Deleting'
  BY DEF TableInv, Deleting, handles
<1> QED
  BY <1>1, <1>2 DEF TableInv

\* A handle is made: it was not allocated, so it is in no entry and not the one
\* that is being deleted.
LEMMA MakeKeepsTable ==
  ASSUME HandlesTyped, TableInv, NEW t \in Tids, MakeHandle(t)
  PROVE  TableInv'
<1> DEFINE h == Min(Handle \ heap)
<1>1. h \in Handle \ heap
  BY FreshHandle DEF MakeHandle
<1> HIDE DEF h
<1>2. /\ heap' = heap \cup {h} /\ mos_tid' = [mos_tid EXCEPT ![h] = pc[t].tid]
      /\ table' = [table EXCEPT ![pc[t].tid] = h] /\ Goto(t, "read")
  BY DEF MakeHandle, h
<1>3. /\ pc \in [Tids -> Doings] /\ pc[t].tid \in Tids /\ 0 \in Tids /\ pc[0].tid \in Tids
      /\ mos_tid \in [Handle -> Tids] /\ table \in [Tids -> Handle \cup {NoHandle}]
      /\ heap \subseteq Handle
  BY DoingTyped DEF HandlesTyped, Doings
<1>4. /\ pc'[0] = pc[0] \/ pc'[0].at = "read"
  BY <1>2, <1>3, GotoTyped DEF Places
<1>5. /\ \A g \in heap : mos_tid'[g] = mos_tid[g] /\ g # h
      /\ mos_tid'[h] = pc[t].tid
      /\ \A u \in Tids : table'[u] = IF u = pc[t].tid THEN h ELSE table[u]
  BY <1>1, <1>2, <1>3
<1>6. EntriesAreAllocated'
  BY <1>2, <1>3, <1>5 DEF TableInv, EntriesAreAllocated
<1>7. Deleting'
  BY <1>2, <1>3, <1>4, <1>5 DEF TableInv, Deleting
<1> QED
  BY <1>6, <1>7 DEF TableInv

\* The steps of a deletion.
LEMMA DeleteKeepsTable ==
  ASSUME HandlesTyped, TableInv, NEW h \in Handle, NEW n \in Nat, Delete(h, n)
  PROVE  TableInv'
<1>1. /\ h \in heap /\ UNCHANGED << table, heap, mos_tid >> /\ mos_tid[h] \in Tids
      /\ pc' = [DeletingAt("clear", h, n) EXCEPT ![mos_tid[h]] = Idle]
  BY DEF Delete, Deletes, Dies, HandlesTyped
<1>2. /\ DeletingAt("clear", h, n) \in [Tids -> Doings]
      /\ DeletingAt("clear", h, n)[0] = [Doing("clear", mos_tid[h], n) EXCEPT !.handle = h]
  BY DeletingTyped DEF Places
<1>3. pc'[0] = Idle \/ pc'[0] = [Doing("clear", mos_tid[h], n) EXCEPT !.handle = h]
  BY <1>1, <1>2, DoingTyped
<1>4. /\ pc'[0].at \in {"clear", "free"} => pc'[0].handle = h /\ pc'[0].tid = mos_tid[h]
      /\ pc'[0].at # "free"
  BY <1>3 DEF Doing, Idle
<1> QED
  BY <1>1, <1>4 DEF TableInv, EntriesAreAllocated, Deleting

\* terminate of a dead task: the entry goes before the box, in one critical section.
LEMMA DeleteDeadKeepsTable ==
  ASSUME HandlesTyped, TableInv, NEW h \in Handle, NEW n \in Nat, DeleteDead(h, n)
  PROVE  TableInv'
<1>1. /\ h \in heap /\ UNCHANGED << heap, mos_tid >> /\ mos_tid[h] \in Tids
      /\ pc' = DeletingAt("free", h, n)
      /\ table' = [table EXCEPT ![mos_tid[h]] = NoHandle]
      /\ table \in [Tids -> Handle \cup {NoHandle}]
  BY DEF DeleteDead, Deletes, Cleared, HandlesTyped
<1>2. pc'[0] = [Doing("free", mos_tid[h], n) EXCEPT !.handle = h]
  BY <1>1, DeletingTyped DEF Places
<1>3. pc'[0].handle = h /\ pc'[0].tid = mos_tid[h]
  BY <1>2 DEF Doing
<1>4. \A u \in Tids : table'[u] = IF u = mos_tid[h] THEN NoHandle ELSE table[u]
  BY <1>1
<1>5. NoHandle # h
  BY NoHandleIsNone
<1> QED
  BY <1>1, <1>3, <1>4, <1>5 DEF TableInv, EntriesAreAllocated, Deleting

\* Behind the yield the entry is cleared: no other entry is that handle.
LEMMA ClearKeepsTable ==
  ASSUME HandlesTyped, TableInv, ClearEntry
  PROVE  TableInv'
<1>1. /\ table' = [table EXCEPT ![pc[0].tid] = NoHandle] /\ Goto(0, "free")
      /\ UNCHANGED << heap, mos_tid >> /\ pc[0].at = "clear"
  BY DEF ClearEntry, Cleared, IsAt
<1>2. /\ table \in [Tids -> Handle \cup {NoHandle}] /\ 0 \in Tids
      /\ pc[0].tid \in Tids /\ heap \subseteq Handle
  BY DoingTyped DEF HandlesTyped, Doings
<1>3. pc'[0].tid = pc[0].tid /\ pc'[0].handle = pc[0].handle
  BY <1>1, <1>2, GotoTyped DEF Places
<1>4. \A u \in Tids : table'[u] = IF u = pc[0].tid THEN NoHandle ELSE table[u]
  BY <1>1, <1>2
<1>5. pc[0].handle \in heap /\ mos_tid[pc[0].handle] = pc[0].tid
  BY <1>1 DEF TableInv, Deleting
<1>6. NoHandle # pc[0].handle
  BY <1>2, <1>5, NoHandleIsNone
<1>7. EntriesAreAllocated'
  BY <1>1, <1>4 DEF TableInv, EntriesAreAllocated
<1>8. Deleting'
  BY <1>1, <1>2, <1>3, <1>4, <1>5, <1>6 DEF Deleting
<1> QED
  BY <1>7, <1>8 DEF TableInv

\* The box is freed: no entry is left that was it.
LEMMA FreeKeepsTable ==
  ASSUME HandlesTyped, TableInv, FreeHandle
  PROVE  TableInv'
<1> DEFINE h == pc[0].handle
<1>1. /\ heap' = heap \ {h} /\ mos_tid' = [mos_tid EXCEPT ![h] = 0]
      /\ pc' = [pc EXCEPT ![0] = Idle] /\ table' = table /\ pc[0].at = "free"
  BY DEF FreeHandle, IsAt
<1>2. 0 \in Tids /\ pc \in [Tids -> Doings] /\ mos_tid \in [Handle -> Tids]
      /\ heap \subseteq Handle
  BY DoingTyped DEF HandlesTyped
<1>3. h \in heap /\ mos_tid[h] = pc[0].tid /\ table[pc[0].tid] # h
  BY <1>1 DEF TableInv, Deleting
<1> HIDE DEF h
<1>4. \A u \in Tids : table[u] # h
  BY <1>2, <1>3, HandlesAssumption DEF TableInv, EntriesAreAllocated, Handle
<1>5. pc'[0].at = "user"
  BY <1>1, <1>2 DEF Idle, Doing
<1> QED
  BY <1>1, <1>2, <1>4, <1>5 DEF TableInv, EntriesAreAllocated, Deleting

\* Every step keeps the table.
LEMMA NextTable == HandlesTyped /\ TableInv /\ [HandlesNext]_handles_vars => TableInv'
<1> SUFFICES ASSUME HandlesTyped, TableInv, [HandlesNext]_handles_vars PROVE TableInv'
  OBVIOUS
<1>0. /\ 0 \in Tids /\ Idle \in Doings /\ pc \in [Tids -> Doings] /\ Idle.at = "user"
      /\ \A tid, n : Doing("test", tid, n).at = "test"
  BY DoingTyped DEF HandlesTyped, Idle, Doing
<1>1. ASSUME NEW t \in Tids, CreateApp(t) PROVE TableInv'
  <2>1. pc'[0] = pc[0] \/ pc'[0] = Idle
    BY <1>0, <1>1 DEF CreateApp, Born
  <2> QED
    BY <1>0, <1>1, <2>1, TableStays DEF CreateApp
<1>2. ASSUME NEW t \in Tids, ExitApp(t) PROVE TableInv'
  BY <1>0, <1>2, TableStays DEF ExitApp, Dies
<1>3. ASSUME NEW t \in Tids, CurrentTask(t) PROVE TableInv'
  <2>1. pc'[0] = pc[0] \/ pc'[0] = Doing("test", t, life[t])
    BY <1>0, <1>3 DEF CurrentTask
  <2> QED
    BY <1>0, <1>3, <2>1, TableStays DEF CurrentTask
<1>4. ASSUME NEW t \in Tids, TestEntry(t) PROVE TableInv'
  <2>1. PICK place \in {"make", "read"} : Goto(t, place)
    BY <1>4 DEF TestEntry
  <2>2. pc'[0] = pc[0] \/ pc'[0].at = place
    BY <1>0, <2>1, GotoTyped DEF Places
  <2> QED
    BY <1>4, <2>2, TableStays DEF TestEntry
<1>5. ASSUME NEW t \in Tids, MakeHandle(t) PROVE TableInv'
  BY <1>5, MakeKeepsTable
<1>6. ASSUME NEW t \in Tids, ReadEntry(t) PROVE TableInv'
  BY <1>0, <1>6, TableStays DEF ReadEntry
<1>7. ASSUME NEW t \in Tids, DeleteSelf(t) PROVE TableInv'
  <2> DEFINE b == pc[0].at \in {"test", "make", "read"} /\ pc[0].life = life[t]
             q == IF b THEN [pc EXCEPT ![0].life = 0] ELSE pc
  <2>1. UNCHANGED handles /\ pc' = [q EXCEPT ![t] = Idle]
    BY <1>7 DEF DeleteSelf, Dies
  <2>2. q \in [Tids -> Doings]
    BY OrphanTyped
  <2>3. q[0] = pc[0] \/ q[0].at \in {"test", "make", "read"}
    BY <1>0 DEF Doings
  <2> HIDE DEF q
  <2> QED
    BY <1>0, <2>1, <2>2, <2>3, TableStays
<1>8. CASE TaskCreate
  <2>1. pc'[0] = Doing("test", Min(FreeTids), lives + 1)
    BY <1>0, <1>8 DEF TaskCreate, Born
  <2> QED
    BY <1>0, <1>8, <2>1, TableStays DEF TaskCreate
<1>9. ASSUME NEW h \in Handle, NEW n \in 1 .. MaxLives, Delete(h, n) PROVE TableInv'
  BY <1>9, DeleteKeepsTable
<1>10. ASSUME NEW h \in Handle, NEW n \in 1 .. MaxLives, DeleteDead(h, n) PROVE TableInv'
  BY <1>10, DeleteDeadKeepsTable
<1>11. CASE ClearEntry
  BY <1>11, ClearKeepsTable
<1>12. CASE FreeHandle
  BY <1>12, FreeKeepsTable
<1>13. ASSUME NEW who, LookUp(who) PROVE TableInv'
  BY <1>13, TableStays DEF LookUp
<1>14. CASE Kill
  BY <1>0, <1>14, TableStays DEF Kill, Dies
<1>15. CASE Block \/ Resume
  BY <1>15, TableStays DEF Block, Resume
<1>16. CASE UNCHANGED handles_vars
  BY <1>16, TableStays DEF handles_vars
<1> QED
  BY <1>1, <1>2, <1>3, <1>4, <1>5, <1>6, <1>7, <1>8, <1>9, <1>10, <1>11, <1>12,
     <1>13, <1>14, <1>15, <1>16 DEF HandlesNext

\* The table is empty in the beginning.
LEMMA InitTable == HandlesInit => TableInv
BY DoingTyped DEF HandlesInit, TableInv, EntriesAreAllocated, Deleting, Idle, Doing

\* No entry of FAT_HANDLES dangles or stands for another slot, although handles
\* are made outside critical sections and a deletion frees the box two steps after
\* its task (get_or_create_fat_handle, schedule_task_deletion).
THEOREM EntriesAlwaysAllocated == HandlesSpec => []EntriesAreAllocated
<1>1. TableInv => EntriesAreAllocated
  BY DEF TableInv
<1> QED
  BY <1>1, InitTable, InitSlots, NextTyped, NextTable, PTL DEF HandlesSpec

-----------------------------------------------------------------------------
(* What the blob holds.                                                    *)

Looking == {"test", "make", "read"}

\* The controller outlives every task of the blob.
Controlled == 0 \in alive /\ name[0] = "controller"

\* Every other task asks for its own handle only.
OwnSlots == \A t \in Tids \ {0} : pc[t].at \in Looking => pc[t].tid = t

\* The task that task_create is making a handle for lives, and nobody holds one for
\* it yet; once made, the handle is in the table until it is read.
Making ==
  /\ pc[0].at \in Looking /\ pc[0].tid # 0 /\ pc[0].life # 0 =>
       /\ pc[0].tid \in alive /\ life[pc[0].tid] = pc[0].life
       /\ name[pc[0].tid] = "blob"
       /\ \A p \in held : p[2] # pc[0].life
  /\ pc[0].at = "read" => table[pc[0].tid] # NoHandle

\* A handle that is held is allocated, for a living task of the blob.
Named ==
  \A p \in held :
    /\ p[1] \in heap /\ mos_tid[p[1]] \in alive
    /\ life[mos_tid[p[1]]] = p[2] /\ name[mos_tid[p[1]]] = "blob"

\* No life has two handles.
Once == \A p, q \in held : p[2] = q[2] => p = q

\* The handle that is being deleted is held no more.
Gone == pc[0].at \in {"clear", "free"} => \A p \in held : p[1] # pc[0].handle

\* What holds of the handles as long as the shell kills no task of the blob.
Trusted == Controlled /\ OwnSlots /\ Making /\ Named /\ Once /\ Gone

HeldInv == meddled \/ Trusted

\* A step leaves the task in a slot alone.
Stays(u) == u \in alive' /\ life'[u] = life[u] /\ name'[u] = name[u]

\* Nothing is born or dies.
LEMMA AllStay ==
  ASSUME UNCHANGED tasks
  PROVE  \A u \in alive : Stays(u)
BY DEF Stays, tasks

\* A birth leaves the living alone.
LEMMA BornStay ==
  ASSUME HandlesTyped, NEW t, NEW who, NEW next, Born(t, who, next)
  PROVE  \A u \in alive : Stays(u)
<1>1. PICK tid : BornAt(tid, t, who, next)
  BY BornLemma
<1> QED
  BY <1>1 DEF BornAt, Stays, HandlesTyped

\* So does a death the others.
LEMMA DiesStay ==
  ASSUME HandlesTyped, NEW tid \in Tids, NEW next, Dies(tid, next)
  PROVE  \A u \in alive \ {tid} : Stays(u)
BY DEF Dies, Stays, HandlesTyped

\* A step that adds no handle and does no harm to those that are held and to their
\* tasks keeps all that is not about what tasks are doing.
LEMMA HeldStay ==
  ASSUME Controlled, Named, Once, Stays(0), held' \subseteq held,
         \A p \in held' : /\ p[1] \in heap' /\ mos_tid'[p[1]] = mos_tid[p[1]]
                          /\ Stays(mos_tid[p[1]])
  PROVE  Controlled' /\ Named' /\ Once'
<1>1. Controlled'
  BY DEF Controlled, Stays
<1>2. Named'
  BY DEF Named, Stays
<1>3. Once'
  BY DEF Once
<1> QED
  BY <1>1, <1>2, <1>3

\* The same of the controller, when it does not move, is idle or has lost the task
\* that it was making a handle for.
LEMMA MakingStays ==
  ASSUME Making, Gone, held' \subseteq held,
         \/ pc'[0] = pc[0]
         \/ pc'[0].at = "user"
         \/ /\ pc'[0].at \in Looking /\ pc'[0].life = 0 
            /\ pc'[0].at = pc[0].at /\ pc'[0].tid = pc[0].tid,
         table[pc[0].tid] # NoHandle => table'[pc[0].tid] # NoHandle,
         pc'[0] = pc[0] /\ pc[0].at \in Looking /\ pc[0].tid # 0 /\ pc[0].life # 0 =>
           Stays(pc[0].tid)
  PROVE  Making' /\ Gone'
<1>1. Making'
  BY DEF Making, Stays, Looking
<1>2. Gone'
  BY DEF Gone, Looking
<1> QED
  BY <1>1, <1>2

\* A step within the adapter that takes a task other than the controller on.
LEMMA OwnStays ==
  ASSUME OwnSlots, NEW t \in Tids,
         \A u \in Tids \ {0, t} : pc'[u] = pc[u],
         t # 0 => pc'[t].at \notin Looking \/ pc'[t].tid = t
                  \/ (pc[t].at \in Looking /\ pc'[t].tid = pc[t].tid)
  PROVE  OwnSlots'
BY DEF OwnSlots

\* Births, deaths and self-deletion.
LEMMA CreateAppKeepsTrusted ==
  ASSUME HandlesTyped, Trusted, NEW t \in Tids, CreateApp(t)
  PROVE  Trusted'
<1>1. PICK who : Born(t, who, Idle)
  BY DEF CreateApp
<1>2. UNCHANGED << handles, ghosts >> /\ pc' = [pc EXCEPT ![t] = Idle]
  BY <1>1 DEF CreateApp, Born
<1>3. \A u \in alive : Stays(u)
  BY <1>1, BornStay
<1>4. /\ pc \in [Tids -> Doings] /\ 0 \in Tids /\ Idle.at = "user"
  BY DoingTyped DEF HandlesTyped, Idle, Doing
<1>5. Controlled' /\ Named' /\ Once'
  <2>1. \A p \in held : p[1] \in heap /\ Stays(mos_tid[p[1]])
    BY <1>3 DEF Trusted, Named
  <2>2. Stays(0)
    BY <1>3 DEF Trusted, Controlled
  <2> QED
    BY <1>2, <2>1, <2>2, HeldStay DEF Trusted, handles, ghosts
<1>6. Making' /\ Gone'
  <2>1. pc'[0] = pc[0] \/ pc'[0].at = "user"
    BY <1>2, <1>4
  <2>2. pc[0].at \in Looking /\ pc[0].tid # 0 /\ pc[0].life # 0 => Stays(pc[0].tid)
    BY <1>3 DEF Trusted, Making
  <2> QED
    BY <1>2, <2>1, <2>2, MakingStays DEF Trusted, handles, ghosts
<1>7. OwnSlots'
  BY <1>2, <1>4, OwnStays DEF Trusted, Looking
<1> QED
  BY <1>5, <1>6, <1>7 DEF Trusted

\* A task of the application holds no handle's tid.
LEMMA ExitAppKeepsTrusted ==
  ASSUME HandlesTyped, Trusted, NEW t \in Tids, ExitApp(t)
  PROVE  Trusted'
<1>1. /\ Dies(t, pc) /\ UNCHANGED << handles, ghosts >>
      /\ name[t] # "blob" /\ name[t] # "controller"
  BY DEF ExitApp
<1>2. \A u \in alive \ {t} : Stays(u)
  BY <1>1, DiesStay
<1>3. /\ pc \in [Tids -> Doings] /\ 0 \in Tids /\ Idle.at = "user"
      /\ pc' = [pc EXCEPT ![t] = Idle]
  BY <1>1, DoingTyped DEF HandlesTyped, Idle, Doing, Dies
<1>4. Controlled' /\ Named' /\ Once'
  <2>1. \A p \in held : p[1] \in heap /\ Stays(mos_tid[p[1]])
    BY <1>1, <1>2 DEF Trusted, Named
  <2>2. Stays(0)
    BY <1>1, <1>2 DEF Trusted, Controlled
  <2> QED
    BY <1>1, <2>1, <2>2, HeldStay DEF Trusted, handles, ghosts
<1>5. Making' /\ Gone'
  <2>1. pc'[0] = pc[0] \/ pc'[0].at = "user"
    BY <1>3
  <2>2. pc[0].at \in Looking /\ pc[0].tid # 0 /\ pc[0].life # 0 => Stays(pc[0].tid)
    BY <1>1, <1>2 DEF Trusted, Making
  <2> QED
    BY <1>1, <2>1, <2>2, MakingStays DEF Trusted, handles, ghosts
<1>6. OwnSlots'
  BY <1>3, OwnStays DEF Trusted, Looking
<1> QED
  BY <1>4, <1>5, <1>6 DEF Trusted

\* A task asks for its own handle, and looks for it in the table.
LEMMA LookKeepsTrusted ==
  ASSUME HandlesTyped, Trusted, NEW t \in Tids, CurrentTask(t) \/ TestEntry(t)
  PROVE  Trusted'
<1>1. UNCHANGED << tasks, handles, ghosts >>
  BY DEF CurrentTask, TestEntry
<1>2. \A u \in alive : Stays(u)
  BY <1>1, AllStay
<1>3. /\ pc \in [Tids -> Doings] /\ 0 \in Tids
  BY DoingTyped DEF HandlesTyped
<1>4. Controlled' /\ Named' /\ Once'
  <2>1. \A p \in held : p[1] \in heap /\ Stays(mos_tid[p[1]])
    BY <1>2 DEF Trusted, Named
  <2>2. Stays(0)
    BY <1>2 DEF Trusted, Controlled
  <2> QED
    BY <1>1, <2>1, <2>2, HeldStay DEF Trusted, handles, ghosts
<1>5. CASE CurrentTask(t)
  <2>1. /\ pc' = [pc EXCEPT ![t] = Doing("test", t, life[t])]
        /\ Doing("test", t, life[t]).tid = t /\ Doing("test", t, life[t]).at = "test"
    BY <1>5 DEF CurrentTask, Doing
  <2>2. Making' /\ Gone'
    <3>1. CASE t = 0
      <4>1. pc'[0].at = "test" /\ pc'[0].tid = 0
        BY <1>3, <2>1, <3>1
      <4> QED
        BY <4>1 DEF Making, Gone
    <3>2. CASE t # 0
      <4>1. pc'[0] = pc[0]
        BY <1>3, <2>1, <3>2
      <4>2. pc[0].at \in Looking /\ pc[0].tid # 0 /\ pc[0].life # 0 => Stays(pc[0].tid)
        BY <1>2 DEF Trusted, Making
      <4> QED
        BY <1>1, <4>1, <4>2, MakingStays DEF Trusted, handles, ghosts
    <3> QED
      BY <3>1, <3>2
  <2>3. OwnSlots'
    BY <1>3, <2>1, OwnStays DEF Trusted
  <2> QED
    BY <1>4, <2>2, <2>3 DEF Trusted
<1>6. CASE TestEntry(t)
  <2>1. PICK place \in {"make", "read"} :
          Goto(t, place) /\ (place = "read" => table[pc[t].tid] # NoHandle)
                         /\ pc[t].at = "test"
    BY <1>6 DEF TestEntry, IsAt
  <2>2. /\ \A u \in Tids \ {t} : pc'[u] = pc[u]
        /\ pc'[t].at = place /\ pc'[t].tid = pc[t].tid /\ pc'[t].life = pc[t].life
    BY <2>1, GotoTyped DEF Places
  <2>3. Making' /\ Gone'
    <3>1. CASE t = 0
      BY <1>1, <2>1, <2>2, <3>1 DEF Trusted, Making, Gone, Looking, tasks, handles, ghosts
    <3>2. CASE t # 0
      <4>1. pc'[0] = pc[0]
        BY <1>3, <2>2, <3>2
      <4>2. pc[0].at \in Looking /\ pc[0].tid # 0 /\ pc[0].life # 0 => Stays(pc[0].tid)
        BY <1>2 DEF Trusted, Making
      <4> QED
        BY <1>1, <4>1, <4>2, MakingStays DEF Trusted, handles, ghosts
    <3> QED
      BY <3>1, <3>2
  <2>4. OwnSlots'
    BY <2>1, <2>2, OwnStays DEF Trusted, Looking
  <2> QED
    BY <1>4, <2>3, <2>4 DEF Trusted
<1> QED
  BY <1>5, <1>6

\* A fresh handle is none that is held.
LEMMA MakeKeepsTrusted ==
  ASSUME HandlesTyped, Trusted, NEW t \in Tids, MakeHandle(t)
  PROVE  Trusted'
<1> DEFINE h == Min(Handle \ heap)
<1>1. h \in Handle \ heap
  BY FreshHandle DEF MakeHandle
<1> HIDE DEF h
<1>2. /\ heap' = heap \cup {h} /\ mos_tid' = [mos_tid EXCEPT ![h] = pc[t].tid]
      /\ table' = [table EXCEPT ![pc[t].tid] = h] /\ Goto(t, "read")
      /\ UNCHANGED << tasks, ghosts >> /\ pc[t].at = "make"
  BY DEF MakeHandle, h, IsAt
<1>3. /\ pc \in [Tids -> Doings] /\ pc[t].tid \in Tids /\ 0 \in Tids /\ pc[0].tid \in Tids
      /\ mos_tid \in [Handle -> Tids] /\ table \in [Tids -> Handle \cup {NoHandle}]
      /\ heap \subseteq Handle
  BY DoingTyped DEF HandlesTyped, Doings
<1>4. \A u \in alive : Stays(u)
  BY <1>2, AllStay
<1>5. /\ \A u \in Tids \ {t} : pc'[u] = pc[u]
      /\ pc'[t].at = "read" /\ pc'[t].tid = pc[t].tid /\ pc'[t].life = pc[t].life
  BY <1>2, GotoTyped DEF Places
<1>6. \A u \in Tids : table[u] # NoHandle => table'[u] # NoHandle
  BY <1>1, <1>2, <1>3, NoHandleIsNone
<1>7. table'[pc[t].tid] = h /\ h # NoHandle
  BY <1>1, <1>2, <1>3, NoHandleIsNone
<1>8. Controlled' /\ Named' /\ Once'
  <2>1. \A p \in held : /\ p[1] \in heap' /\ mos_tid'[p[1]] = mos_tid[p[1]]
                        /\ Stays(mos_tid[p[1]])
    BY <1>1, <1>2, <1>3, <1>4 DEF Trusted, Named
  <2>2. Stays(0)
    BY <1>4 DEF Trusted, Controlled
  <2> QED
    BY <1>2, <2>1, <2>2, HeldStay DEF Trusted, ghosts
<1>9. Making' /\ Gone'
  <2>1. CASE t = 0
    BY <1>2, <1>5, <1>7, <2>1 DEF Trusted, Making, Gone, Looking, tasks, ghosts
  <2>2. CASE t # 0
    <3>1. pc'[0] = pc[0]
      BY <1>3, <1>5, <2>2
    <3>2. pc[0].at \in Looking /\ pc[0].tid # 0 /\ pc[0].life # 0 => Stays(pc[0].tid)
      BY <1>4 DEF Trusted, Making
    <3> QED
      BY <1>2, <1>3, <1>6, <3>1, <3>2, MakingStays DEF Trusted, ghosts
  <2> QED
    BY <2>1, <2>2
<1>10. OwnSlots'
  BY <1>2, <1>5, OwnStays DEF Trusted, Looking
<1> QED
  BY <1>8, <1>9, <1>10 DEF Trusted

\* The controller reads what stands for the task it created, the first of its life.
LEMMA ReadKeepsTrusted ==
  ASSUME HandlesTyped, TableInv, Trusted, NEW t \in Tids, ReadEntry(t)
  PROVE  Trusted'
<1>1. /\ pc' = [pc EXCEPT ![t] = Idle] /\ UNCHANGED << tasks, handles, meddled >>
      /\ pc[t].at = "read"
      /\ held' = IF pc[t].tid = t \/ pc[t].life = 0 THEN held
                 ELSE held \cup {<< table[pc[t].tid], pc[t].life >>}
  BY DEF ReadEntry, IsAt
<1>2. /\ pc \in [Tids -> Doings] /\ pc[t].tid \in Tids /\ 0 \in Tids /\ Idle.at = "user"
  BY DoingTyped DEF HandlesTyped, Doings, Idle, Doing
<1>3. \A u \in alive : Stays(u)
  BY <1>1, AllStay
<1>4. OwnSlots'
  BY <1>1, <1>2, OwnStays DEF Trusted, Looking
<1>5. CASE held' = held
  <2>1. Controlled' /\ Named' /\ Once'
    <3>1. \A p \in held : p[1] \in heap /\ Stays(mos_tid[p[1]])
      BY <1>3 DEF Trusted, Named
    <3>2. Stays(0)
      BY <1>3 DEF Trusted, Controlled
    <3> QED
      BY <1>1, <1>5, <3>1, <3>2, HeldStay DEF Trusted, handles
  <2>2. Making' /\ Gone'
    <3>1. pc'[0] = pc[0] \/ pc'[0].at = "user"
      BY <1>1, <1>2
    <3>2. pc[0].at \in Looking /\ pc[0].tid # 0 /\ pc[0].life # 0 => Stays(pc[0].tid)
      BY <1>3 DEF Trusted, Making
    <3> QED
      BY <1>1, <1>5, <3>1, <3>2, MakingStays DEF Trusted, handles
  <2> QED
    BY <1>4, <2>1, <2>2 DEF Trusted
<1>6. CASE held' # held
  <2> DEFINE new == << table[pc[t].tid], pc[t].life >>
  <2>1. /\ t = 0 /\ pc[0].tid # 0 /\ pc[0].life # 0 /\ pc[0].at = "read"
        /\ held' = held \cup {new}
    BY <1>1, <1>6 DEF Trusted, OwnSlots, Looking
  <2>2. /\ pc[0].tid \in alive /\ life[pc[0].tid] = pc[0].life
        /\ name[pc[0].tid] = "blob" /\ table[pc[0].tid] # NoHandle
        /\ \A p \in held : p[2] # pc[0].life
    BY <2>1 DEF Trusted, Making, Looking
  <2>3. table[pc[0].tid] \in heap /\ mos_tid[table[pc[0].tid]] = pc[0].tid
    BY <1>2, <2>1, <2>2 DEF TableInv, EntriesAreAllocated
  <2>4. new[1] = table[pc[0].tid] /\ new[2] = pc[0].life
    BY <2>1
  <2> HIDE DEF new
  <2>5. Named'
    BY <1>1, <2>1, <2>2, <2>3, <2>4 DEF Trusted, Named, tasks, handles
  <2>6. Once'
    BY <2>1, <2>2, <2>4 DEF Trusted, Once
  <2>7. pc'[0].at = "user"
    BY <1>1, <1>2, <2>1
  <2>8. Controlled' /\ Making' /\ Gone'
    BY <1>1, <2>7 DEF Trusted, Controlled, Making, Gone, Looking, tasks
  <2> QED
    BY <1>4, <2>5, <2>6, <2>8 DEF Trusted
<1> QED
  BY <1>5, <1>6

\* A task that deletes itself takes its handle along, and the one that is being made.
LEMMA DeleteSelfKeepsTrusted ==
  ASSUME HandlesTyped, Trusted, NEW t \in Tids, DeleteSelf(t)
  PROVE  Trusted'
<1> DEFINE b == pc[0].at \in {"test", "make", "read"} /\ pc[0].life = life[t]
           q == IF b THEN [pc EXCEPT ![0].life = 0] ELSE pc
<1>1. /\ Dies(t, q) /\ UNCHANGED << handles, meddled >>
      /\ name[t] = "blob" /\ held' = {p \in held : p[2] # life[t]}
  BY DEF DeleteSelf
<1>2. \A u \in alive \ {t} : Stays(u)
  BY <1>1, DiesStay
<1>3. /\ pc \in [Tids -> Doings] /\ 0 \in Tids /\ Idle.at = "user" /\ t # 0
      /\ name[0] = "controller"
  BY <1>1, DoingTyped DEF HandlesTyped, Idle, Doing, Trusted, Controlled
<1>4. pc' = [q EXCEPT ![t] = Idle] /\ q \in [Tids -> Doings]
  BY <1>1, OrphanTyped DEF Dies
<1>5. /\ \A u \in Tids \ {0} : q[u] = pc[u]
      /\ ~b => q[0] = pc[0]
      /\ b => q[0].at = pc[0].at /\ q[0].tid = pc[0].tid /\ q[0].life = 0
  BY <1>3 DEF Doings
<1>6. Controlled' /\ Named' /\ Once'
  <2>1. \A p \in held' : p \in held /\ p[1] \in heap /\ Stays(mos_tid[p[1]])
    BY <1>1, <1>2 DEF Trusted, Named
  <2>2. Stays(0)
    BY <1>2, <1>3 DEF Trusted, Controlled
  <2>3. held' \subseteq held
    BY <1>1
  <2> QED
    BY <1>1, <2>1, <2>2, <2>3, HeldStay DEF Trusted, handles
<1>7. Making' /\ Gone'
  <2>1. held' \subseteq held
    BY <1>1
  <2>2. pc'[0] = q[0]
    BY <1>3, <1>4
  <2>3. CASE b
    BY <1>1, <1>5, <2>1, <2>2, <2>3, MakingStays DEF Trusted, handles, Looking
  <2>4. CASE ~b
    <3>1. pc[0].at \in Looking /\ pc[0].tid # 0 /\ pc[0].life # 0 => Stays(pc[0].tid)
      BY <1>2, <2>4 DEF Trusted, Making, Looking
    <3>2. pc'[0] = pc[0]
      BY <1>5, <2>2, <2>4
    <3> HIDE DEF b, q
    <3> QED
      BY <1>1, <2>1, <3>1, <3>2, MakingStays DEF Trusted, handles
  <2> QED
    BY <2>3, <2>4
<1>8. OwnSlots'
  <2>1. (\A u \in Tids \ {0, t} : pc'[u] = pc[u]) /\ pc'[t].at = "user"
    BY <1>3, <1>4, <1>5
  <2> HIDE DEF b, q
  <2> QED
    BY <2>1, OwnStays DEF Trusted, Looking
<1> QED
  BY <1>6, <1>7, <1>8 DEF Trusted

\* A new task has a life that no handle was made for.
LEMMA TaskCreateKeepsTrusted ==
  ASSUME HandlesTyped, LivesApart, Trusted, TaskCreate
  PROVE  Trusted'
<1> DEFINE tid == Min(FreeTids)
           next == Doing("test", tid, lives + 1)
<1>1. Born(0, "blob", next) /\ UNCHANGED << handles, ghosts >>
  BY DEF TaskCreate
<1>2. BornAt(tid, 0, "blob", next)
  BY <1>1, BornLemma
<1>3. next.at = "test" /\ next.tid = tid /\ next.life = lives + 1
  BY DEF Doing
<1>4. \A u \in alive : Stays(u)
  BY <1>1, BornStay
<1> HIDE DEF tid, next
<1>5. /\ pc \in [Tids -> Doings] /\ 0 \in Tids /\ lives \in Nat
      /\ tid \in Tids /\ life \in [Tids -> Nat] /\ name \in [Tids -> Names \cup {"controller"}]
      /\ mos_tid \in [Handle -> Tids] /\ heap \subseteq Handle
  BY <1>2, DoingTyped DEF HandlesTyped, BornAt
<1>6. /\ pc'[0] = next /\ tid \in alive' /\ life'[tid] = lives + 1 /\ name'[tid] = "blob"
      /\ \A u \in Tids \ {0} : pc'[u] = pc[u]
  BY <1>2, <1>5 DEF BornAt
<1>7. Controlled' /\ Named' /\ Once'
  <2>1. \A p \in held : p[1] \in heap /\ Stays(mos_tid[p[1]])
    BY <1>4 DEF Trusted, Named
  <2>2. Stays(0)
    BY <1>4 DEF Trusted, Controlled
  <2> QED
    BY <1>1, <2>1, <2>2, HeldStay DEF Trusted, handles, ghosts
<1>8. \A p \in held : p[2] # lives + 1
  <2>1. \A p \in held : mos_tid[p[1]] \in Tids /\ p[2] = life[mos_tid[p[1]]]
    BY <1>5 DEF Trusted, Named
  <2> QED
    BY <1>5, <2>1 DEF LivesApart
<1>9. Making' /\ Gone'
  BY <1>1, <1>3, <1>6, <1>8 DEF Making, Gone, ghosts
<1>10. OwnSlots'
  BY <1>5, <1>6, OwnStays DEF Trusted
<1> QED
  BY <1>7, <1>9, <1>10 DEF Trusted

\* A deletion takes the one handle of its task out of what is held.
LEMMA DeleteKeepsTrusted ==
  ASSUME HandlesTyped, Trusted, NEW h \in Handle, NEW n \in Nat, Delete(h, n)
  PROVE  Trusted'
<1> DEFINE tid == mos_tid[h]
           new == [Doing("clear", tid, n) EXCEPT !.handle = h]
<1>1. /\ << h, n >> \in held /\ held' = held \ {<< h, n >>}
      /\ UNCHANGED << handles, meddled >> /\ Dies(tid, DeletingAt("clear", h, n))
  BY DEF Delete, Deletes, handles
<1>2. tid \in alive /\ life[tid] = n /\ name[tid] = "blob" /\ tid # 0 /\ tid \in Tids
  BY <1>1 DEF Trusted, Named, Controlled, HandlesTyped
<1>3. \A u \in alive \ {tid} : Stays(u)
  BY <1>1, <1>2, DiesStay
<1>4. new.at = "clear" /\ new.handle = h
  BY DEF Doing
<1>5. /\ DeletingAt("clear", h, n) = [pc EXCEPT ![0] = new]
      /\ pc' = [DeletingAt("clear", h, n) EXCEPT ![tid] = Idle]
      /\ DeletingAt("clear", h, n) \in [Tids -> Doings]
  <2>1. "clear" \in Places
    BY DEF Places
  <2> QED
    BY <1>1, <2>1, DeletingTyped DEF Dies
<1> HIDE DEF tid, new
<1>6. /\ pc \in [Tids -> Doings] /\ 0 \in Tids /\ Idle.at = "user"
  BY DoingTyped DEF HandlesTyped, Idle, Doing
<1>7. \A p \in held' : p \in held /\ p[2] # n
  BY <1>1 DEF Trusted, Once
<1>8. \A p \in held' : /\ p[1] \in heap /\ mos_tid[p[1]] \in alive
                       /\ mos_tid[p[1]] # tid /\ p[1] # h
  BY <1>2, <1>7 DEF Trusted, Named, tid
<1>9. Controlled' /\ Named' /\ Once'
  <2>1. \A p \in held' : p[1] \in heap /\ Stays(mos_tid[p[1]])
    BY <1>3, <1>8
  <2>2. Stays(0)
    BY <1>2, <1>3 DEF Trusted, Controlled
  <2>3. held' \subseteq held
    BY <1>1
  <2> QED
    BY <1>1, <2>1, <2>2, <2>3, HeldStay DEF Trusted, handles
<1>10. pc'[0] = new /\ pc'[tid] = Idle /\ \A u \in Tids \ {0, tid} : pc'[u] = pc[u]
  BY <1>2, <1>5, <1>6
<1>11. Making' /\ Gone'
  BY <1>4, <1>8, <1>10 DEF Making, Gone, Looking
<1>12. OwnSlots'
  BY <1>2, <1>6, <1>10, OwnStays DEF Trusted, Looking
<1> QED
  BY <1>9, <1>11, <1>12 DEF Trusted

\* The rest of a deletion: the cleared entry is read by nobody, the box was taken out
\* of what is held when the deletion began.
LEMMA FinishKeepsTrusted ==
  ASSUME HandlesTyped, TableInv, Trusted, ClearEntry \/ FreeHandle
  PROVE  Trusted'
<1>1. /\ UNCHANGED << tasks, ghosts >>
      /\ pc[0].at \in {"clear", "free"} /\ pc[0].handle \in Handle
      /\ pc \in [Tids -> Doings] /\ 0 \in Tids /\ mos_tid \in [Handle -> Tids]
      /\ heap \subseteq Handle
  BY DoingTyped DEF ClearEntry, FreeHandle, IsAt, TableInv, Deleting, HandlesTyped
<1>2. \A u \in alive : Stays(u)
  BY <1>1, AllStay
<1>3. \A p \in held : p[1] # pc[0].handle
  BY <1>1 DEF Trusted, Gone
<1>4. \A p \in held : p[1] \in heap' /\ mos_tid'[p[1]] = mos_tid[p[1]]
  <2>1. CASE ClearEntry
    BY <2>1 DEF ClearEntry, Trusted, Named
  <2>2. CASE FreeHandle
    BY <1>1, <1>3, <2>2 DEF FreeHandle, Trusted, Named
  <2> QED
    BY <2>1, <2>2
<1>5. Controlled' /\ Named' /\ Once'
  <2>1. Stays(0) /\ \A p \in held : Stays(mos_tid[p[1]])
    BY <1>2 DEF Trusted, Controlled, Named
  <2> QED
    BY <1>1, <1>4, <2>1, HeldStay DEF Trusted, ghosts
<1>6. /\ \A u \in Tids \ {0} : pc'[u] = pc[u]
      /\ \/ pc'[0].at = "user"
         \/ pc'[0].at = "free" /\ pc'[0].handle = pc[0].handle
  <2>1. CASE ClearEntry
    BY <1>1, <2>1, GotoTyped DEF ClearEntry, Places
  <2>2. CASE FreeHandle
    BY <1>1, <2>2 DEF FreeHandle, Idle, Doing
  <2> QED
    BY <2>1, <2>2
<1>7. Making' /\ Gone'
  BY <1>1, <1>3, <1>6 DEF Making, Gone, Looking, ghosts
<1>8. OwnSlots'
  BY <1>1, <1>6, OwnStays DEF Trusted
<1> QED
  BY <1>5, <1>7, <1>8 DEF Trusted

\* Steps that change no slot and leave the adapter alone.
LEMMA OthersKeepTrusted ==
  ASSUME Trusted, UNCHANGED << tasks, handles, held, pc >>
  PROVE  Trusted'
BY DEF Trusted, Controlled, OwnSlots, Making, Named, Once, Gone, tasks, handles

\* A kill of a task of the application, or of a dead one, does no harm to the blob.
LEMMA KillKeepsTrusted ==
  ASSUME HandlesTyped, LivesApart, Trusted, Kill, ~meddled'
  PROVE  Trusted'
<1>1. /\ Dies(shell.tid, pc) /\ shell.tid \notin OfTheBlob
      /\ UNCHANGED << handles, held >>
      /\ shell.tid \in Tids /\ pc \in [Tids -> Doings] /\ 0 \in Tids
  BY DoingTyped DEF Kill, HandlesTyped
<1>2. \A u \in alive : name[u] \in {"blob", "controller"} => Stays(u)
  BY <1>1, DiesStay DEF OfTheBlob
<1>3. pc' = [pc EXCEPT ![shell.tid] = Idle] /\ Idle.at = "user"
  BY <1>1 DEF Dies, Idle, Doing
<1>4. Controlled' /\ Named' /\ Once'
  <2>1. Stays(0) /\ \A p \in held : p[1] \in heap /\ Stays(mos_tid[p[1]])
    BY <1>2 DEF Trusted, Controlled, Named
  <2> QED
    BY <1>1, <2>1, HeldStay DEF Trusted, handles
<1>5. Making' /\ Gone'
  <2>1. pc'[0] = pc[0] \/ pc'[0].at = "user"
    BY <1>1, <1>3
  <2>2. pc[0].at \in Looking /\ pc[0].tid # 0 /\ pc[0].life # 0 => Stays(pc[0].tid)
    BY <1>2 DEF Trusted, Making
  <2> QED
    BY <1>1, <2>1, <2>2, MakingStays DEF Trusted, handles
<1>6. OwnSlots'
  BY <1>1, <1>3, OwnStays DEF Trusted, Looking
<1> QED
  BY <1>4, <1>5, <1>6 DEF Trusted

\* Every step keeps it.
LEMMA NextHeld ==
  HandlesTyped /\ LivesApart /\ TableInv /\ HeldInv /\ [HandlesNext]_handles_vars => HeldInv'
<1> SUFFICES ASSUME HandlesTyped, LivesApart, TableInv, HeldInv, [HandlesNext]_handles_vars, ~meddled'
             PROVE  Trusted'
  BY DEF HeldInv
<1>0. Trusted
  <2>1. meddled => meddled'
    <3>1. ASSUME NEW t \in Tids,
                 \/ CreateApp(t) \/ ExitApp(t) \/ CurrentTask(t) \/ TestEntry(t)
                 \/ MakeHandle(t) \/ ReadEntry(t) \/ DeleteSelf(t)
          PROVE  meddled' = meddled
      BY <3>1 DEF CreateApp, ExitApp, CurrentTask, TestEntry, MakeHandle, ReadEntry,
                  DeleteSelf, ghosts
    <3>2. ASSUME NEW h \in Handle, NEW n \in 1 .. MaxLives,
                 Delete(h, n) \/ DeleteDead(h, n)
          PROVE  meddled' = meddled
      BY <3>2 DEF Delete, DeleteDead, Deletes
    <3>3. CASE TaskCreate \/ ClearEntry \/ FreeHandle
      BY <3>3 DEF TaskCreate, ClearEntry, FreeHandle, ghosts
    <3>4. CASE Kill \/ Block \/ Resume
      BY <3>4 DEF Kill, Block, Resume, ghosts
    <3>5. ASSUME NEW who, LookUp(who) PROVE meddled' = meddled
      BY <3>5 DEF LookUp, ghosts
    <3>6. CASE UNCHANGED handles_vars
      BY <3>6 DEF handles_vars, ghosts
    <3> QED
      BY <3>1, <3>2, <3>3, <3>4, <3>5, <3>6 DEF HandlesNext
  <2> QED
    BY <2>1 DEF HeldInv
<1>1. ASSUME NEW t \in Tids, CreateApp(t) PROVE Trusted'
  BY <1>0, <1>1, CreateAppKeepsTrusted
<1>2. ASSUME NEW t \in Tids, ExitApp(t) PROVE Trusted'
  BY <1>0, <1>2, ExitAppKeepsTrusted
<1>3. ASSUME NEW t \in Tids, CurrentTask(t) \/ TestEntry(t) PROVE Trusted'
  BY <1>0, <1>3, LookKeepsTrusted
<1>4. ASSUME NEW t \in Tids, MakeHandle(t) PROVE Trusted'
  BY <1>0, <1>4, MakeKeepsTrusted
<1>5. ASSUME NEW t \in Tids, ReadEntry(t) PROVE Trusted'
  BY <1>0, <1>5, ReadKeepsTrusted
<1>6. ASSUME NEW t \in Tids, DeleteSelf(t) PROVE Trusted'
  BY <1>0, <1>6, DeleteSelfKeepsTrusted
<1>7. CASE TaskCreate
  BY <1>0, <1>7, TaskCreateKeepsTrusted
<1>8. ASSUME NEW h \in Handle, NEW n \in 1 .. MaxLives, Delete(h, n) PROVE Trusted'
  BY <1>0, <1>8, DeleteKeepsTrusted
<1>9. ASSUME NEW h \in Handle, NEW n \in 1 .. MaxLives, DeleteDead(h, n) PROVE Trusted'
  BY <1>0, <1>9 DEF DeleteDead, Deletes, Trusted, Named
<1>10. CASE ClearEntry \/ FreeHandle
  BY <1>0, <1>10, FinishKeepsTrusted
<1>11. ASSUME NEW who, LookUp(who) PROVE Trusted'
  BY <1>0, <1>11, OthersKeepTrusted DEF LookUp, ghosts
<1>12. CASE Kill
  BY <1>0, <1>12, KillKeepsTrusted
<1>13. CASE Block \/ Resume
  BY <1>0, <1>13, OthersKeepTrusted DEF Block, Resume, ghosts
<1>14. CASE UNCHANGED handles_vars
  BY <1>0, <1>14, OthersKeepTrusted DEF handles_vars, ghosts
<1> QED
  BY <1>1, <1>2, <1>3, <1>4, <1>5, <1>6, <1>7, <1>8, <1>9, <1>10, <1>11, <1>12,
     <1>13, <1>14 DEF HandlesNext

\* Nothing is held in the beginning.
LEMMA InitHeld == HandlesInit => HeldInv
<1> SUFFICES ASSUME HandlesInit PROVE Trusted
  BY DEF HeldInv
<1>1. 0 \in Tids /\ Idle.at = "user"
  BY DoingTyped DEF Idle, Doing
<1> QED
  BY <1>1 DEF HandlesInit, Trusted, Controlled, OwnSlots, Making, Named, Once, Gone, Looking

\* Through any reuse of slots and handles a handle that task_create returned stands
\* for the task it was made for, until that task is deleted, deletes itself or the
\* shell kills a task of the blob (task_create, schedule_task_deletion).
THEOREM HeldAlwaysName == HandlesSpec => []HeldHandlesName
<1>1. HeldInv => HeldHandlesName
  BY DEF HeldInv, Trusted, Named, HeldHandlesName
<1> QED
  BY <1>1, InitHeld, InitTable, InitSlots, NextTyped, NextApart, NextTable, NextHeld,
     PTL DEF HandlesSpec

-----------------------------------------------------------------------------
(* The terminal and the roll, for any size of the panel and any text.      *)

Byte == {" ", "LF", ">"} \cup Printed \cup UNION {Range(text) : text \in Lines \cup Replies}

Terminals ==
  [ screen : [Rows -> [0 .. TERM_COLS - 1 -> Byte]], lens : [Rows -> 0 .. TERM_COLS],
    row : Rows, col : 0 .. TERM_COLS, dirty : SUBSET Rows ]

Papers == [lines : Seq(Seq(Byte)), at : Nat]

\* The first `len` cells of a row of the matrix are a line of the roll.
Holds(cells, len, line) ==
  len = Len(line) /\ \A i \in 1 .. Len(line) : cells[i - 1] = line[i]

\* The matrix and the end of the roll, with the cursor at the same place.
Same(t, p) ==
  /\ Len(p.lines) = t.row + 1 /\ p.at = t.col /\ t.col <= t.lens[t.row]
  /\ \A r \in Rows : IF r <= t.row THEN Holds(t.screen[r], t.lens[r], p.lines[r + 1])
                                   ELSE t.lens[r] = 0

\* Every row that u has not in common with t is dirty in u.
Marked(t, u) ==
  \A r \in Rows \ u.dirty :
    r \notin t.dirty /\ u.screen[r] = t.screen[r] /\ u.lens[r] = t.lens[r]

\* What a step does to both.
Alike(t, u, q) ==
  u \in Terminals /\ q \in Papers /\ Same(u, q) /\ Marked(t, u)

LEMMA SizeFacts ==
  /\ TERM_ROWS \in Nat \ {0} /\ TERM_COLS \in Nat \ {0}
  /\ Rows \subseteq Nat /\ \A r : r \in Rows <=> r \in Nat /\ r < TERM_ROWS
  /\ 0 \in Rows /\ TERM_ROWS - 1 \in Rows
BY TerminalAssumption DEF Rows

LEMMA ByteFacts ==
  /\ " " \in Byte /\ "LF" \in Byte /\ ">" \in Byte /\ Printed \subseteq Byte
  /\ Lines \cup Replies \subseteq Seq(Byte)
<1>1. ASSUME NEW text \in Lines \cup Replies PROVE text \in Seq(Byte)
  <2>1. Range(text) \subseteq Byte
    BY DEF Byte
  <2>2. text \in Seq(Range(text))
    BY ConsoleAssumption
  <2> QED BY <2>1, <2>2
<1> QED BY <1>1 DEF Byte

LEMMA BlankFacts ==
  BlankRow \in [0 .. TERM_COLS - 1 -> Byte]
BY ByteFacts DEF BlankRow

\* The lines of a roll that has the shape of a terminal.
LEMMA SameFacts ==
  ASSUME NEW t \in Terminals, NEW p \in Papers, Same(t, p)
  PROVE  /\ t.row \in Rows /\ t.row \in Nat /\ t.row < TERM_ROWS
         /\ t.col \in Nat /\ t.col <= TERM_COLS /\ t.dirty \subseteq Rows
         /\ p.at = t.col /\ p.lines \in Seq(Seq(Byte)) /\ Len(p.lines) = t.row + 1
         /\ \A r \in Rows : /\ t.screen[r] \in [0 .. TERM_COLS - 1 -> Byte]
                            /\ t.lens[r] \in Nat /\ t.lens[r] <= TERM_COLS
         /\ \A n \in 1 .. Len(p.lines) :
              /\ n - 1 \in Rows /\ p.lines[n] \in Seq(Byte)
              /\ Holds(t.screen[n - 1], t.lens[n - 1], p.lines[n])
<1>1. /\ t.row \in Rows /\ t.row \in Nat /\ t.row < TERM_ROWS
      /\ t.col \in Nat /\ t.col <= TERM_COLS /\ t.dirty \subseteq Rows
      /\ p.at = t.col /\ p.lines \in Seq(Seq(Byte)) /\ Len(p.lines) = t.row + 1
      /\ \A r \in Rows : /\ t.screen[r] \in [0 .. TERM_COLS - 1 -> Byte]
                         /\ t.lens[r] \in Nat /\ t.lens[r] <= TERM_COLS
  BY SizeFacts DEF Terminals, Papers, Same
<1>2. ASSUME NEW n \in 1 .. Len(p.lines)
      PROVE  /\ n - 1 \in Rows /\ p.lines[n] \in Seq(Byte)
             /\ Holds(t.screen[n - 1], t.lens[n - 1], p.lines[n])
  <2>1. p.lines[n] \in Seq(Byte)
    BY <1>1, ElementOfSeq
  <2>2. n - 1 \in Rows /\ n - 1 <= t.row /\ (n - 1) + 1 = n
    <3>1. n \in Nat /\ 1 <= n /\ n <= t.row + 1
      BY <1>1
    <3>2. n - 1 \in Nat /\ n - 1 < TERM_ROWS
      BY <1>1, <3>1, SizeFacts
    <3> QED BY <1>1, <3>1, <3>2, SizeFacts DEF Rows
  <2>3. Holds(t.screen[n - 1], t.lens[n - 1], p.lines[(n - 1) + 1])
    BY <2>2 DEF Same
  <2> QED BY <2>1, <2>2, <2>3
<1> QED BY <1>1, <1>2

LEMMA TwoNumbers ==
  ASSUME NEW a \in Int, NEW b \in Int
  PROVE  /\ Min({a, b}) = IF a <= b THEN a ELSE b
         /\ Max({a, b}) = IF a <= b THEN b ELSE a
BY DEF Min, Max

\* Other places of the cursor and other dirty rows do not touch the rest.
Placed(t, c, d) == [t EXCEPT !.col = c, !.dirty = d]

LEMMA PlacedLemma ==
  ASSUME NEW t \in Terminals, NEW c \in 0 .. TERM_COLS, NEW d \in SUBSET Rows
  PROVE  /\ Placed(t, c, d) \in Terminals /\ Placed(t, c, d).screen = t.screen
         /\ Placed(t, c, d).lens = t.lens /\ Placed(t, c, d).row = t.row
         /\ Placed(t, c, d).col = c /\ Placed(t, c, d).dirty = d
BY DEF Terminals, Placed

LEMMA SameMade ==
  ASSUME NEW u, NEW q, Len(q.lines) = u.row + 1, q.at = u.col, u.col <= u.lens[u.row],
         \A r \in Rows : IF r <= u.row THEN Holds(u.screen[r], u.lens[r], q.lines[r + 1])
                                       ELSE u.lens[r] = 0
  PROVE  Same(u, q)
BY DEF Same

\* The cursor moves down to a row with nothing in it.
LEMMA LowerLemma ==
  ASSUME NEW t \in Terminals, NEW p \in Papers, Same(t, p), t.row < TERM_ROWS - 1,
         NEW u \in Terminals, u.screen = t.screen, u.lens = t.lens, u.row = t.row + 1,
         u.col = 0, u.dirty = t.dirty \cup {t.row + 1},
         NEW q \in Papers, q.lines = Append(p.lines, << >>), q.at = 0
  PROVE  Alike(t, u, q)
<1>1. /\ t.row \in Nat /\ t.row < TERM_ROWS /\ Len(p.lines) = t.row + 1
      /\ TERM_ROWS \in Nat \ {0} /\ p.lines \in Seq(Seq(Byte))
  BY SameFacts, SizeFacts
<1>2. t.row + 1 \in Rows
  BY <1>1, SizeFacts DEF Rows
<1>3. /\ Len(q.lines) = u.row + 1 /\ q.lines[u.row + 1] = << >>
      /\ \A i \in 1 .. t.row + 1 : q.lines[i] = p.lines[i]
  BY <1>1
<1>4. u.lens[u.row] = 0
  <2>1. ~ (t.row + 1 <= t.row)
    BY <1>1
  <2> QED BY <1>2, <2>1 DEF Same
<1>5. ASSUME NEW r \in Rows
      PROVE  IF r <= u.row THEN Holds(u.screen[r], u.lens[r], q.lines[r + 1])
                           ELSE u.lens[r] = 0
  <2>1. r \in Nat
    BY SizeFacts
  <2>2. CASE r <= t.row
    <3>1. q.lines[r + 1] = p.lines[r + 1] /\ r <= u.row
      BY <1>1, <1>3, <2>1, <2>2
    <3>2. Holds(t.screen[r], t.lens[r], p.lines[r + 1])
      BY <2>2 DEF Same
    <3> QED BY <3>1, <3>2
  <2>3. CASE r = t.row + 1
    <3>1. Holds(u.screen[r], u.lens[r], << >>)
      BY <1>4, <2>3 DEF Holds
    <3> QED BY <1>1, <1>3, <2>3, <3>1
  <2>4. CASE r > t.row + 1
    <3>1. ~ (r <= t.row) /\ ~ (r <= u.row)
      BY <1>1, <2>1, <2>4
    <3> QED BY <3>1 DEF Same
  <2>5. r <= t.row \/ r = t.row + 1 \/ r > t.row + 1
    BY <1>1, <2>1
  <2> QED BY <2>2, <2>3, <2>4, <2>5, Zenon
<1>6. Same(u, q)
  <2>1. q.at = u.col /\ u.col <= u.lens[u.row]
    BY <1>4
  <2> QED BY <1>3, <1>5, <2>1, SameMade
<1>7. Marked(t, u)
  BY DEF Marked
<1> QED BY <1>6, <1>7 DEF Alike

\* The matrix scrolls and the top of the roll is torn off.
LEMMA ScrollLemma ==
  ASSUME NEW t \in Terminals, NEW p \in Papers, Same(t, p), t.row = TERM_ROWS - 1,
         NEW u \in Terminals, u.screen = Scrolled(t.screen, BlankRow),
         u.lens = Scrolled(t.lens, 0), u.row = t.row, u.col = 0, u.dirty = Rows,
         NEW q \in Papers, q.lines = Append(SubSeq(p.lines, 2, Len(p.lines)), << >>),
         q.at = 0
  PROVE  Alike(t, u, q)
<1>1. /\ t.row \in Nat /\ t.row < TERM_ROWS /\ Len(p.lines) = t.row + 1
      /\ TERM_ROWS \in Nat \ {0} /\ p.lines \in Seq(Seq(Byte))
  BY SameFacts, SizeFacts
<1>2. ASSUME NEW r \in Rows PROVE r \in Nat /\ r <= t.row /\ (r + 1 \in Rows <=> r < t.row)
  BY <1>1, SizeFacts DEF Rows
<1>3. /\ SubSeq(p.lines, 2, Len(p.lines)) \in Seq(Seq(Byte))
      /\ Len(SubSeq(p.lines, 2, Len(p.lines))) = t.row
      /\ \A i \in 1 .. t.row : SubSeq(p.lines, 2, Len(p.lines))[i] = p.lines[i + 1]
  BY <1>1
<1>4. /\ Len(q.lines) = u.row + 1 /\ q.lines[u.row + 1] = << >>
      /\ \A i \in 1 .. t.row : q.lines[i] = p.lines[i + 1]
  BY <1>1, <1>3
<1>5. u.lens[u.row] = 0
  BY <1>1, <1>2, SizeFacts DEF Scrolled
<1>6. ASSUME NEW r \in Rows
      PROVE  r <= u.row /\ Holds(u.screen[r], u.lens[r], q.lines[r + 1])
  <2>1. CASE r < t.row
    <3>1. r + 1 \in Rows /\ r \in Nat
      BY <1>2, <2>1
    <3>2. u.screen[r] = t.screen[r + 1] /\ u.lens[r] = t.lens[r + 1]
      BY <3>1 DEF Scrolled
    <3>3. q.lines[r + 1] = p.lines[(r + 1) + 1] /\ r + 1 <= t.row
      BY <1>1, <1>4, <2>1, <3>1
    <3>4. Holds(t.screen[r + 1], t.lens[r + 1], p.lines[(r + 1) + 1])
      BY <3>1, <3>3 DEF Same
    <3> QED BY <1>2, <3>2, <3>3, <3>4
  <2>2. CASE r = t.row
    <3>1. Holds(u.screen[r], u.lens[r], << >>)
      BY <1>5, <2>2 DEF Holds
    <3> QED BY <1>1, <1>4, <2>2, <3>1
  <2> QED BY <1>1, <1>2, <2>1, <2>2
<1>7. Same(u, q)
  <2>1. q.at = u.col /\ u.col <= u.lens[u.row]
    BY <1>5
  <2> QED BY <1>4, <1>6, <2>1, SameMade
<1>8. Marked(t, u)
  BY DEF Marked
<1> QED BY <1>7, <1>8 DEF Alike

LEMMA NewlineLemma ==
  ASSUME NEW t \in Terminals, NEW p \in Papers, Same(t, p)
  PROVE  /\ Alike(t, Newline(t), FreshLine(p))
         /\ Newline(t).col = 0 /\ FreshLine(p).at = 0
<1> DEFINE n == Len(p.lines)
<1>1. /\ t.row \in Nat /\ t.row < TERM_ROWS /\ n = t.row + 1 /\ TERM_ROWS \in Nat \ {0}
      /\ p.lines \in Seq(Seq(Byte)) /\ << >> \in Seq(Byte)
  BY SameFacts, SizeFacts
<1>2. CASE t.row < TERM_ROWS - 1
  <2> DEFINE m == [t EXCEPT !.row = t.row + 1]
  <2>1. Newline(t) = Placed(m, 0, m.dirty \cup {m.row})
    BY <1>2 DEF Newline, Placed
  <2>2. t.row + 1 \in Rows
    BY <1>1, <1>2, SizeFacts DEF Rows
  <2>3. m \in Terminals /\ m.screen = t.screen /\ m.lens = t.lens /\ m.row = t.row + 1
        /\ m.dirty = t.dirty
    BY <2>2 DEF Terminals
  <2>4. /\ Newline(t) \in Terminals /\ Newline(t).screen = t.screen
        /\ Newline(t).lens = t.lens /\ Newline(t).row = t.row + 1 /\ Newline(t).col = 0
        /\ Newline(t).dirty = t.dirty \cup {t.row + 1}
    <3> HIDE DEF m
    <3>1. 0 \in 0 .. TERM_COLS /\ m.dirty \cup {m.row} = t.dirty \cup {t.row + 1}
      BY <2>3, SizeFacts
    <3>2. m.dirty \cup {m.row} \in SUBSET Rows
      BY <2>2, <2>3, SameFacts
    <3> QED BY <2>1, <2>3, <3>1, <3>2, PlacedLemma
  <2>5. FreshLine(p) = [lines |-> Append(p.lines, << >>), at |-> 0]
    <3>1. n - TERM_ROWS + 2 \in Int /\ n - TERM_ROWS + 2 <= 1
      BY <1>1, <1>2
    <3>2. Max({1, n - TERM_ROWS + 2}) = 1
      <4> HIDE DEF n
      <4>1. \A k \in Int : k <= 1 => Max({1, k}) = 1
        BY TwoNumbers
      <4> QED BY <3>1, <4>1
    <3>3. SubSeq(p.lines, 1, n) = p.lines
      BY <1>1
    <3> QED BY <3>2, <3>3 DEF FreshLine
  <2>6. /\ FreshLine(p) \in Papers /\ FreshLine(p).lines = Append(p.lines, << >>)
        /\ FreshLine(p).at = 0
    BY <1>1, <2>5 DEF Papers
  <2> HIDE DEF m
  <2>7. Alike(t, Newline(t), FreshLine(p))
    BY <1>2, <2>4, <2>6, LowerLemma
  <2> QED BY <2>4, <2>6, <2>7
<1>3. CASE t.row = TERM_ROWS - 1
  <2> DEFINE m == ScrollUp(t)
  <2>1. Newline(t) = Placed(m, 0, m.dirty \cup {m.row})
    <3>1. ~ (t.row < TERM_ROWS - 1)
      BY <1>1, <1>3
    <3> QED BY <3>1 DEF Newline, Placed
  <2>2. /\ Scrolled(t.screen, BlankRow) \in [Rows -> [0 .. TERM_COLS - 1 -> Byte]]
        /\ Scrolled(t.lens, 0) \in [Rows -> 0 .. TERM_COLS]
    BY BlankFacts, SizeFacts DEF Scrolled, Terminals
  <2>3. /\ m \in Terminals /\ m.screen = Scrolled(t.screen, BlankRow)
        /\ m.lens = Scrolled(t.lens, 0) /\ m.row = t.row /\ m.dirty = Rows
    BY <2>2 DEF Terminals, ScrollUp
  <2>4. /\ Newline(t) \in Terminals /\ Newline(t).screen = Scrolled(t.screen, BlankRow)
        /\ Newline(t).lens = Scrolled(t.lens, 0) /\ Newline(t).row = t.row
        /\ Newline(t).col = 0 /\ Newline(t).dirty = Rows
    <3> HIDE DEF m
    <3>1. m.dirty \cup {m.row} = Rows
      BY <2>3, SameFacts
    <3>2. 0 \in 0 .. TERM_COLS /\ Rows \in SUBSET Rows
      BY SizeFacts
    <3>3. Newline(t) = Placed(m, 0, Rows)
      BY <2>1, <3>1
    <3> QED BY <2>3, <3>2, <3>3, PlacedLemma
  <2>5. FreshLine(p) = [lines |-> Append(SubSeq(p.lines, 2, n), << >>), at |-> 0]
    <3>1. n - TERM_ROWS + 2 = 2
      BY <1>1, <1>3
    <3>2. Max({1, n - TERM_ROWS + 2}) = 2
      <4>1. Max({1, 2}) = 2
        BY TwoNumbers
      <4> QED BY <3>1, <4>1
    <3> QED BY <3>2 DEF FreshLine
  <2>6. /\ FreshLine(p) \in Papers /\ FreshLine(p).at = 0
        /\ FreshLine(p).lines = Append(SubSeq(p.lines, 2, Len(p.lines)), << >>)
    <3>1. SubSeq(p.lines, 2, n) \in Seq(Seq(Byte))
      BY <1>1
    <3> QED BY <1>1, <2>5, <3>1 DEF Papers
  <2> HIDE DEF m
  <2>7. Alike(t, Newline(t), FreshLine(p))
    BY <1>3, <2>4, <2>6, ScrollLemma
  <2> QED BY <2>4, <2>6, <2>7
<1> QED BY <1>1, <1>2, <1>3

\* The row of the cursor and the line of the roll change in the same way.
LEMMA RowLemma ==
  ASSUME NEW t \in Terminals, NEW p \in Papers, Same(t, p),
         NEW u \in Terminals, u.row = t.row, u.dirty = t.dirty \cup {t.row},
         \A r \in Rows \ {t.row} : u.screen[r] = t.screen[r] /\ u.lens[r] = t.lens[r],
         NEW q \in Papers, Len(q.lines) = Len(p.lines),
         \A i \in 1 .. t.row : q.lines[i] = p.lines[i],
         Holds(u.screen[t.row], u.lens[t.row], q.lines[t.row + 1]),
         q.at = u.col, u.col <= u.lens[t.row]
  PROVE  Alike(t, u, q)
<1>1. t.row \in Nat /\ t.row \in Rows /\ Len(p.lines) = t.row + 1
  BY SameFacts
<1>2. ASSUME NEW r \in Rows
      PROVE  IF r <= u.row THEN Holds(u.screen[r], u.lens[r], q.lines[r + 1])
                           ELSE u.lens[r] = 0
  <2>1. r \in Nat
    BY SizeFacts
  <2>2. CASE r < t.row
    <3>1. r <= t.row /\ r # t.row /\ r + 1 \in 1 .. t.row
      BY <1>1, <2>1, <2>2
    <3>3. q.lines[r + 1] = p.lines[r + 1]
      BY <3>1
    <3>2. Holds(t.screen[r], t.lens[r], p.lines[r + 1])
      BY <3>1 DEF Same
    <3> QED BY <3>1, <3>2, <3>3
  <2>3. CASE r = t.row
    <3>1. r <= u.row
      BY <1>1, <2>3
    <3> QED BY <2>3, <3>1
  <2>4. CASE r > t.row
    <3>1. ~ (r <= t.row) /\ r # t.row
      BY <1>1, <2>1, <2>4
    <3> QED BY <3>1 DEF Same
  <2>5. r < t.row \/ r = t.row \/ r > t.row
    BY <1>1, <2>1
  <2> QED BY <2>2, <2>3, <2>4, <2>5, Zenon
<1>3. Same(u, q)
  BY <1>1, <1>2, SameMade
<1>4. Marked(t, u)
  BY DEF Marked
<1> QED BY <1>3, <1>4 DEF Alike

\* Other bytes in the row of the cursor, which is drawn again.
Rewritten(t, cells, len, c) ==
  [t EXCEPT !.screen[t.row] = cells, !.col = c, !.lens[t.row] = len,
            !.dirty = t.dirty \cup {t.row}]

LEMMA RewrittenLemma ==
  ASSUME NEW t \in Terminals, NEW cells \in [0 .. TERM_COLS - 1 -> Byte],
         NEW len \in 0 .. TERM_COLS, NEW c \in 0 .. TERM_COLS
  PROVE  /\ Rewritten(t, cells, len, c) \in Terminals
         /\ Rewritten(t, cells, len, c).row = t.row
         /\ Rewritten(t, cells, len, c).col = c
         /\ Rewritten(t, cells, len, c).dirty = t.dirty \cup {t.row}
         /\ Rewritten(t, cells, len, c).screen[t.row] = cells
         /\ Rewritten(t, cells, len, c).lens[t.row] = len
         /\ \A r \in Rows \ {t.row} :
              /\ Rewritten(t, cells, len, c).screen[r] = t.screen[r]
              /\ Rewritten(t, cells, len, c).lens[r] = t.lens[r]
BY DEF Rewritten, Terminals

\* Carriage return.
LEMMA ReturnedLemma ==
  ASSUME NEW t \in Terminals, NEW p \in Papers, Same(t, p)
  PROVE  Alike(t, [t EXCEPT !.col = 0], [p EXCEPT !.at = 0])
<1>1. PICK u : u = [t EXCEPT !.col = 0]
  OBVIOUS
<1>2. PICK q : q = [p EXCEPT !.at = 0]
  OBVIOUS
<1>3. /\ u \in Terminals /\ u.screen = t.screen /\ u.lens = t.lens /\ u.row = t.row
      /\ u.col = 0 /\ u.dirty = t.dirty
  BY <1>1, SizeFacts DEF Terminals
<1>4. q \in Papers /\ q.lines = p.lines /\ q.at = 0
  BY <1>2 DEF Papers
<1>5. 0 <= u.lens[u.row]
  BY <1>3, SameFacts
<1>6. \A r \in Rows : IF r <= u.row THEN Holds(u.screen[r], u.lens[r], q.lines[r + 1])
                                    ELSE u.lens[r] = 0
  BY <1>3, <1>4 DEF Same
<1>7. Len(q.lines) = u.row + 1
  BY <1>3, <1>4 DEF Same
<1>8. Same(u, q)
  BY <1>3, <1>4, <1>5, <1>6, <1>7, SameMade
<1>9. Marked(t, u)
  BY <1>3 DEF Marked
<1> QED BY <1>1, <1>2, <1>3, <1>4, <1>8, <1>9 DEF Alike

LEMMA CellLemma ==
  ASSUME NEW f \in [0 .. TERM_COLS - 1 -> Byte], NEW k \in 0 .. TERM_COLS - 1, NEW c \in Byte
  PROVE  /\ [f EXCEPT ![k] = c] \in [0 .. TERM_COLS - 1 -> Byte]
         /\ [f EXCEPT ![k] = c][k] = c
         /\ \A i \in 0 .. TERM_COLS - 1 : i # k => [f EXCEPT ![k] = c][i] = f[i]
OBVIOUS

\* Backspace.
LEMMA ErasedLemma ==
  ASSUME NEW t \in Terminals, NEW p \in Papers, Same(t, p)
  PROVE  Alike(t, Backspace(t), Erased(p))
<1>1. /\ t.row \in Nat /\ t.row \in Rows /\ Len(p.lines) = t.row + 1 /\ p.at = t.col
      /\ t.col \in Nat /\ t.col <= TERM_COLS /\ p.lines \in Seq(Seq(Byte))
      /\ TERM_COLS \in Nat
      /\ t.lens[t.row] \in Nat /\ t.col <= t.lens[t.row]
      /\ t.screen[t.row] \in [0 .. TERM_COLS - 1 -> Byte]
  BY SameFacts, SizeFacts DEF Same
<1> DEFINE line == p.lines[t.row + 1]
<1>2. line \in Seq(Byte) /\ Holds(t.screen[t.row], t.lens[t.row], line)
  <2>1. t.row \in Nat /\ Len(p.lines) = t.row + 1
    BY <1>1
  <2>2. t.row + 1 \in 1 .. Len(p.lines) /\ (t.row + 1) - 1 = t.row
    BY <2>1
  <2> QED BY <2>2, SameFacts
<1>3. CASE t.col = 0
  <2>1. Backspace(t) = t /\ Erased(p) = p
    BY <1>1, <1>3 DEF Backspace, Erased
  <2> QED BY <2>1 DEF Alike, Marked
<1>4. CASE t.col # 0
  <2> DEFINE cells == [t.screen[t.row] EXCEPT ![t.col - 1] = " "]
             cut == SubSeq(line, 1, t.col - 1)
  <2>1. Backspace(t) = Rewritten(t, cells, t.col - 1, t.col - 1)
    <3>1. Min({t.lens[t.row], t.col - 1}) = t.col - 1
      <4>1. t.col - 1 \in Int /\ ~ (t.lens[t.row] <= t.col - 1)
        BY <1>1, <1>4
      <4>2. \A a, b \in Int : ~ (a <= b) => Min({a, b}) = b
        BY TwoNumbers
      <4>3. t.lens[t.row] \in Int
        BY <1>1
      <4> QED BY <4>1, <4>2, <4>3
    <3> QED BY <1>4, <3>1 DEF Backspace, Rewritten, Terminals
  <2>2. /\ cells \in [0 .. TERM_COLS - 1 -> Byte] /\ t.col - 1 \in 0 .. TERM_COLS
        /\ \A i \in 0 .. TERM_COLS - 1 : i < t.col - 1 => cells[i] = t.screen[t.row][i]
    <3>1. t.col - 1 \in 0 .. TERM_COLS - 1 /\ t.col - 1 \in 0 .. TERM_COLS
      BY <1>1, <1>4
    <3>2. \A i \in 0 .. TERM_COLS - 1 : i < t.col - 1 => i # t.col - 1
      BY <1>1
    <3> QED BY <1>1, <3>1, <3>2, ByteFacts, CellLemma
  <2>3. /\ cut \in Seq(Byte) /\ Len(cut) = t.col - 1
        /\ \A i \in 1 .. t.col - 1 : cut[i] = line[i]
    <3>1. t.col - 1 \in Nat /\ t.col - 1 <= Len(line)
      BY <1>1, <1>2, <1>4 DEF Holds
    <3> HIDE DEF line
    <3> QED BY <1>2, <3>1
  <2>4. Erased(p) = [lines |-> [p.lines EXCEPT ![t.row + 1] = cut], at |-> t.col - 1]
    BY <1>1, <1>4 DEF Erased
  <2>5. Holds(cells, t.col - 1, cut)
    <3>1. ASSUME NEW i \in 1 .. Len(cut) PROVE cells[i - 1] = cut[i]
      <4> HIDE DEF cells, cut, line
      <4>1. i - 1 \in 0 .. TERM_COLS - 1 /\ i - 1 < t.col - 1 /\ i \in 1 .. t.col - 1
        BY <1>1, <2>3
      <4>2. i \in 1 .. Len(line)
        BY <1>1, <1>2, <4>1 DEF Holds
      <4>3. cells[i - 1] = t.screen[t.row][i - 1]
        BY <2>2, <4>1
      <4>4. t.screen[t.row][i - 1] = line[i]
        BY <1>2, <4>2 DEF Holds
      <4> QED BY <2>3, <4>1, <4>3, <4>4
    <3> QED BY <2>3, <3>1 DEF Holds
  <2> HIDE DEF cells, cut, line
  <2>6. PICK u : u = Backspace(t)
    OBVIOUS
  <2>7. PICK q : q = Erased(p)
    OBVIOUS
  <2>8. /\ u \in Terminals /\ u.row = t.row /\ u.dirty = t.dirty \cup {t.row}
        /\ \A r \in Rows \ {t.row} : u.screen[r] = t.screen[r] /\ u.lens[r] = t.lens[r]
        /\ u.screen[t.row] = cells /\ u.lens[t.row] = t.col - 1 /\ u.col = t.col - 1
    BY <2>1, <2>2, <2>6, RewrittenLemma
  <2>9. /\ q \in Papers /\ Len(q.lines) = Len(p.lines) /\ q.at = t.col - 1
        /\ \A i \in 1 .. t.row : q.lines[i] = p.lines[i]
        /\ q.lines[t.row + 1] = cut
    BY <1>1, <1>4, <2>3, <2>4, <2>7 DEF Papers
  <2>10. u.col <= u.lens[t.row]
    BY <1>1, <2>8
  <2>11. Alike(t, u, q)
    BY <2>5, <2>8, <2>9, <2>10, RowLemma
  <2> QED BY <2>6, <2>7, <2>11
<1> QED BY <1>3, <1>4

\* A byte written over a line, or behind its end.
Overwritten(line, at, c) == SubSeq(line, 1, at) \o << c >> \o SubSeq(line, at + 2, Len(line))

LEMMA JoinedLemma ==
  ASSUME NEW r \in Seq(Byte), NEW s \in Seq(Byte)
  PROVE  /\ r \o s \in Seq(Byte) /\ Len(r \o s) = Len(r) + Len(s)
         /\ \A i \in 1 .. Len(r) : (r \o s)[i] = r[i]
         /\ \A i \in 1 .. Len(s) : (r \o s)[Len(r) + i] = s[i]
OBVIOUS

LEMMA OverLine ==
  ASSUME NEW line \in Seq(Byte), NEW at \in Nat, at <= Len(line), NEW c \in Byte
  PROVE  /\ Overwritten(line, at, c) \in Seq(Byte)
         /\ Len(Overwritten(line, at, c)) = IF Len(line) <= at + 1 THEN at + 1 ELSE Len(line)
         /\ Overwritten(line, at, c)[at + 1] = c
         /\ \A i \in 1 .. Len(line) : i # at + 1 => Overwritten(line, at, c)[i] = line[i]
<1> DEFINE head == SubSeq(line, 1, at)
           rest == SubSeq(line, at + 2, Len(line))
<1>1. /\ head \in Seq(Byte) /\ Len(head) = at
      /\ \A i \in 1 .. at : head[i] = line[i]
  OBVIOUS
<1>2. /\ rest \in Seq(Byte)
      /\ Len(rest) = IF Len(line) <= at + 1 THEN 0 ELSE Len(line) - (at + 1)
      /\ \A i \in 1 .. Len(rest) : rest[i] = line[i + (at + 1)]
  <2>2. CASE Len(line) < at + 1
    <3>1. rest = << >>
      BY <2>2
    <3> QED BY <2>2, <3>1
  <2>3. CASE Len(line) >= at + 1
    <3>1. /\ rest \in Seq(Byte) /\ Len(rest) = Len(line) - (at + 1)
          /\ \A i \in 1 .. Len(line) - (at + 1) : rest[i] = line[at + 2 + i - 1]
      BY <2>3, SubSeqProperties
    <3>2. \A i \in 1 .. Len(rest) : at + 2 + i - 1 = i + (at + 1)
      BY <3>1
    <3> QED BY <2>3, <3>1, <3>2
  <2> QED BY <2>2, <2>3
<1> DEFINE front == head \o << c >>
<1>3. /\ front \in Seq(Byte) /\ Len(front) = at + 1 /\ front[at + 1] = c
      /\ \A i \in 1 .. at : front[i] = line[i]
  <2> HIDE DEF head
  <2> QED BY <1>1
<1>4. Overwritten(line, at, c) = front \o rest
  BY DEF Overwritten
<1> HIDE DEF front, rest
<1>5. /\ front \o rest \in Seq(Byte) /\ Len(front \o rest) = at + 1 + Len(rest)
      /\ \A i \in 1 .. at + 1 : (front \o rest)[i] = front[i]
      /\ \A i \in 1 .. Len(rest) : (front \o rest)[at + 1 + i] = rest[i]
  <2>1. front \in Seq(Byte) /\ rest \in Seq(Byte) /\ at + 1 = Len(front)
    BY <1>2, <1>3
  <2>2. /\ front \o rest \in Seq(Byte) /\ Len(front \o rest) = Len(front) + Len(rest)
        /\ \A i \in 1 .. Len(front) : (front \o rest)[i] = front[i]
        /\ \A i \in 1 .. Len(rest) : (front \o rest)[Len(front) + i] = rest[i]
    BY <2>1, JoinedLemma
  <2> QED BY <2>1, <2>2, Zenon
<1>6. ASSUME NEW i \in 1 .. Len(line), i # at + 1 PROVE (front \o rest)[i] = line[i]
  <2>1. CASE i <= at
    <3>1. i \in 1 .. at + 1 /\ i \in 1 .. at
      BY <2>1
    <3> QED BY <1>3, <1>5, <3>1
  <2>2. CASE i > at + 1
    <3>1. Len(rest) = Len(line) - (at + 1)
      BY <1>2, <2>2
    <3>2. PICK k \in Nat : k = i - (at + 1)
      <4>1. i - (at + 1) \in Nat
        BY <2>2
      <4> QED BY <4>1
    <3>3. k \in 1 .. Len(rest) /\ k + (at + 1) = i /\ at + 1 + k = i
      BY <2>2, <3>1, <3>2
    <3> QED BY <1>2, <1>5, <3>3
  <2>3. i <= at \/ i > at + 1
    BY <1>6
  <2> QED BY <2>1, <2>2, <2>3, Zenon
<1>7. Len(front \o rest) = IF Len(line) <= at + 1 THEN at + 1 ELSE Len(line)
  <2>1. CASE Len(line) <= at + 1
    BY <1>2, <1>5, <2>1
  <2>2. CASE ~ (Len(line) <= at + 1)
    <3>1. Len(rest) = Len(line) - (at + 1)
      BY <1>2, <2>2
    <3>2. at + 1 + (Len(line) - (at + 1)) = Len(line)
      OBVIOUS
    <3> QED BY <1>5, <2>2, <3>1, <3>2
  <2> QED BY <2>1, <2>2
<1>8. (front \o rest)[at + 1] = c
  <2>1. at + 1 \in 1 .. at + 1
    OBVIOUS
  <2> QED BY <1>3, <1>5, <2>1
<1> QED BY <1>4, <1>5, <1>6, <1>7, <1>8

\* A byte in a row that is not full.
LEMMA TypedInRow ==
  ASSUME NEW t \in Terminals, NEW p \in Papers, Same(t, p), NEW c \in Byte,
         t.col < TERM_COLS
  PROVE  Alike(t, PutChar(t, c), Typed(p, c))
<1>1. /\ t.row \in Nat /\ t.row \in Rows /\ Len(p.lines) = t.row + 1 /\ p.at = t.col
      /\ t.col \in Nat /\ p.lines \in Seq(Seq(Byte)) /\ TERM_COLS \in Nat
      /\ t.lens[t.row] \in Nat /\ t.col <= t.lens[t.row] /\ t.lens[t.row] <= TERM_COLS
      /\ t.screen[t.row] \in [0 .. TERM_COLS - 1 -> Byte]
  BY SameFacts, SizeFacts DEF Same
<1> DEFINE line == p.lines[t.row + 1]
           len == IF t.lens[t.row] <= t.col + 1 THEN t.col + 1 ELSE t.lens[t.row]
           cells == [t.screen[t.row] EXCEPT ![t.col] = c]
           over == Overwritten(line, t.col, c)
<1>2. line \in Seq(Byte) /\ Holds(t.screen[t.row], t.lens[t.row], line)
  <2>1. t.row \in Nat /\ Len(p.lines) = t.row + 1
    BY <1>1
  <2>2. t.row + 1 \in 1 .. Len(p.lines) /\ (t.row + 1) - 1 = t.row
    BY <2>1
  <2> QED BY <2>2, SameFacts
<1>3. PutChar(t, c) = Rewritten(t, cells, len, t.col + 1)
  <2>1. Max({t.lens[t.row], t.col + 1}) = len
    <3>1. \A a, b \in Int : Max({a, b}) = IF a <= b THEN b ELSE a
      BY TwoNumbers
    <3>2. t.lens[t.row] \in Int /\ t.col + 1 \in Int
      BY <1>1
    <3> QED BY <3>1, <3>2
  <2>2. ~ (t.col >= TERM_COLS)
    BY <1>1
  <2> QED BY <2>1, <2>2 DEF PutChar, Rewritten, Terminals
<1>4. /\ cells \in [0 .. TERM_COLS - 1 -> Byte] /\ cells[t.col] = c
      /\ \A i \in 0 .. TERM_COLS - 1 : i # t.col => cells[i] = t.screen[t.row][i]
  <2>1. t.col \in 0 .. TERM_COLS - 1
    BY <1>1
  <2> QED BY <1>1, <2>1, CellLemma
<1>5. len \in 0 .. TERM_COLS /\ t.col + 1 \in 0 .. TERM_COLS /\ t.col + 1 <= len
      /\ t.lens[t.row] <= len
  BY <1>1
<1>6. Typed(p, c) = [lines |-> [p.lines EXCEPT ![t.row + 1] = over], at |-> t.col + 1]
  <2>1. p.at # TERM_COLS
    BY <1>1
  <2> QED BY <1>1, <2>1 DEF Typed, Overwritten
<1>7. t.col <= Len(line) /\ Len(line) = t.lens[t.row]
  BY <1>1, <1>2 DEF Holds
<1>8. /\ over \in Seq(Byte) /\ Len(over) = len /\ over[t.col + 1] = c
      /\ \A i \in 1 .. Len(line) : i # t.col + 1 => over[i] = line[i]
  <2> HIDE DEF line
  <2>1. Len(over) = IF Len(line) <= t.col + 1 THEN t.col + 1 ELSE Len(line)
    BY <1>1, <1>2, <1>7, OverLine
  <2> QED BY <1>1, <1>2, <1>7, <2>1, OverLine
<1> HIDE DEF cells, over, line, len
<1>9. Holds(cells, len, over)
  <2>1. ASSUME NEW i \in 1 .. Len(over) PROVE cells[i - 1] = over[i]
    <3>1. i - 1 \in 0 .. TERM_COLS - 1 /\ i \in Nat /\ i <= len
      BY <1>1, <1>5, <1>8
    <3>2. CASE i = t.col + 1
      <4>1. i - 1 = t.col
        BY <1>1, <3>2
      <4> QED BY <1>4, <1>8, <3>2, <4>1
    <3>3. CASE i # t.col + 1
      <4>1. i \in 1 .. Len(line) /\ i - 1 # t.col
        BY <1>1, <1>5, <1>7, <1>8, <3>1, <3>3 DEF len
      <4>2. cells[i - 1] = t.screen[t.row][i - 1] /\ over[i] = line[i]
        BY <1>4, <1>8, <3>1, <3>3, <4>1
      <4>3. t.screen[t.row][i - 1] = line[i]
        BY <1>2, <4>1 DEF Holds
      <4> QED BY <4>2, <4>3
    <3> QED BY <3>2, <3>3
  <2> QED BY <1>8, <2>1 DEF Holds
<1>10. PICK u : u = PutChar(t, c)
  OBVIOUS
<1>11. PICK q : q = Typed(p, c)
  OBVIOUS
<1>12. /\ u \in Terminals /\ u.row = t.row /\ u.dirty = t.dirty \cup {t.row}
       /\ \A r \in Rows \ {t.row} : u.screen[r] = t.screen[r] /\ u.lens[r] = t.lens[r]
       /\ u.screen[t.row] = cells /\ u.lens[t.row] = len /\ u.col = t.col + 1
  BY <1>3, <1>4, <1>5, <1>10, RewrittenLemma
<1>13. /\ q \in Papers /\ Len(q.lines) = Len(p.lines) /\ q.at = t.col + 1
       /\ \A i \in 1 .. t.row : q.lines[i] = p.lines[i]
       /\ q.lines[t.row + 1] = over
  BY <1>1, <1>6, <1>8, <1>11 DEF Papers
<1>14. Alike(t, u, q)
  BY <1>5, <1>9, <1>12, <1>13, RowLemma
<1> QED BY <1>10, <1>11, <1>14

LEMMA MarkedTrans ==
  ASSUME NEW t, NEW u, NEW v, Marked(t, u), Marked(u, v)
  PROVE  Marked(t, v)
BY DEF Marked

\* A byte in a full row goes to the next one.
LEMMA TypedLemma ==
  ASSUME NEW t \in Terminals, NEW p \in Papers, Same(t, p), NEW c \in Byte
  PROVE  Alike(t, PutChar(t, c), Typed(p, c))
<1>1. CASE t.col < TERM_COLS
  BY <1>1, TypedInRow
<1>2. CASE ~ (t.col < TERM_COLS)
  <2>1. t.col >= TERM_COLS /\ p.at = TERM_COLS /\ 0 < TERM_COLS /\ ~ (0 >= TERM_COLS)
    BY <1>2, SameFacts, SizeFacts
  <2>2. PICK u : u = Newline(t)
    OBVIOUS
  <2>3. PICK q : q = FreshLine(p)
    OBVIOUS
  <2>4. Alike(t, u, q) /\ u.col = 0 /\ q.at = 0
    BY <2>2, <2>3, NewlineLemma
  <2>5. PutChar(t, c) = PutChar(u, c)
    BY <2>1, <2>2, <2>4 DEF PutChar
  <2>6. Typed(p, c) = Typed(q, c)
    <3>1. (IF p.at = TERM_COLS THEN FreshLine(p) ELSE p) = q
      BY <2>1, <2>3
    <3>2. (IF q.at = TERM_COLS THEN FreshLine(q) ELSE q) = q
      BY <2>1, <2>4
    <3> QED BY <3>1, <3>2, Zenon DEF Typed
  <2>7. Alike(u, PutChar(u, c), Typed(q, c))
    BY <2>1, <2>4, TypedInRow DEF Alike
  <2> QED BY <2>4, <2>5, <2>6, <2>7, MarkedTrans DEF Alike
<1> QED BY <1>1, <1>2

\* Terminal::feed and the roll do the same with any byte.
LEMMA FeedLemma ==
  ASSUME NEW t \in Terminals, NEW p \in Papers, Same(t, p), NEW c \in Byte
  PROVE  Alike(t, Feed(t, c), Written(p, c))
<1>1. CASE c = "LF"
  <2>1. Feed(t, c) = Newline(t) /\ Written(p, c) = FreshLine(p)
    BY <1>1 DEF Feed, Written
  <2> QED BY <2>1, NewlineLemma
<1>2. CASE c = "CR"
  <2>1. Feed(t, c) = [t EXCEPT !.col = 0] /\ Written(p, c) = [p EXCEPT !.at = 0]
    BY <1>2 DEF Feed, Written
  <2> QED BY <2>1, ReturnedLemma
<1>3. CASE c = "BS"
  <2>1. Feed(t, c) = Backspace(t) /\ Written(p, c) = Erased(p)
    BY <1>3 DEF Feed, Written
  <2> QED BY <2>1, ErasedLemma
<1>4. CASE c \notin {"LF", "CR", "BS"}
  <2>1. Feed(t, c) = PutChar(t, c) /\ Written(p, c) = Typed(p, c)
    BY <1>4 DEF Feed, Written
  <2> QED BY <2>1, TypedLemma
<1> QED BY <1>1, <1>2, <1>3, <1>4

-----------------------------------------------------------------------------
(* A batch of bytes, by induction on its length.                           *)

\* Induction up to a bound, by a least counterexample.
LEMMA UpTo ==
  ASSUME NEW N \in Nat, NEW T, 0 \in T, \A n \in 1 .. N : n - 1 \in T => n \in T
  PROVE  \A n \in 0 .. N : n \in T
<1> DEFINE bad == {n \in 0 .. N : n \notin T}
<1> SUFFICES ASSUME bad # {} PROVE FALSE
  OBVIOUS
<1>1. PICK m \in bad : \A y \in bad : m <= y
  <2>1. bad \in SUBSET Nat
    OBVIOUS
  <2> HIDE DEF bad
  <2> QED BY <2>1, LeastExists
<1>2. m \in 1 .. N /\ m - 1 \in 0 .. N /\ ~(m <= m - 1)
  BY <1>1
<1> QED BY <1>1, <1>2

\* The function that Fed chooses exists.
LEMMA FedRounds ==
  ASSUME NEW t, NEW s \in Seq(Byte)
  PROVE  \E w : /\ w[0] = t /\ \A i \in 1 .. Len(s) : w[i] = Feed(w[i - 1], s[i])
                /\ Fed(t, s) = w[Len(s)]
<1> DEFINE Loop(n, f) == f = [i \in 0 .. n |-> IF i = 0 THEN t ELSE Feed(f[i - 1], s[i])]
           T == {n \in Nat : \E f : Loop(n, f)}
<1>1. 0 \in T
  <2> DEFINE f == [i \in 0 .. 0 |-> t]
  <2>1. Loop(0, f)
    OBVIOUS
  <2> QED BY <2>1
<1>2. \A n \in 1 .. Len(s) : n - 1 \in T => n \in T
  <2> SUFFICES ASSUME NEW n \in 1 .. Len(s), n - 1 \in T PROVE n \in T
    OBVIOUS
  <2>1. PICK f : Loop(n - 1, f)
    OBVIOUS
  <2> DEFINE g == [i \in 0 .. n |-> IF i = n THEN Feed(f[n - 1], s[n]) ELSE f[i]]
  <2>2. ASSUME NEW i \in 0 .. n
        PROVE  g[i] = IF i = 0 THEN t ELSE Feed(g[i - 1], s[i])
    <3>1. CASE i = n
      <4>1. n - 1 \in 0 .. n /\ n - 1 # n /\ i # 0
        BY <3>1
      <4>2. g[n - 1] = f[n - 1] /\ g[i] = Feed(f[n - 1], s[n])
        BY <3>1, <4>1
      <4> HIDE DEF g
      <4> QED BY <3>1, <4>1, <4>2
    <3>2. CASE i # n
      <4>1. i \in 0 .. n - 1 /\ (i # 0 => i - 1 \in 0 .. n /\ i - 1 # n)
        BY <3>2
      <4>2. g[i] = f[i] /\ (i # 0 => g[i - 1] = f[i - 1])
        BY <3>2, <4>1
      <4>3. f[i] = IF i = 0 THEN t ELSE Feed(f[i - 1], s[i])
        BY <2>1, <4>1
      <4> HIDE DEF g
      <4> QED BY <4>2, <4>3
    <3> QED BY <3>1, <3>2
  <2>3. g = [i \in 0 .. n |-> IF i = 0 THEN t ELSE Feed(g[i - 1], s[i])]
    <3>1. g = [i \in 0 .. n |-> g[i]]
      OBVIOUS
    <3> HIDE DEF g
    <3> QED BY <2>2, <3>1
  <2> HIDE DEF g
  <2> QED BY <2>3
<1>3. Len(s) \in T
  <2> HIDE DEF T
  <2>1. Len(s) \in Nat /\ Len(s) \in 0 .. Len(s)
    OBVIOUS
  <2>2. \A n \in 0 .. Len(s) : n \in T
    BY <1>1, <1>2, <2>1, UpTo, Zenon
  <2> QED BY <2>1, <2>2
<1> DEFINE w == CHOOSE f : Loop(Len(s), f)
<1>4. Loop(Len(s), w)
  <2>1. \E f : Loop(Len(s), f)
    BY <1>3
  <2> HIDE DEF Loop
  <2> QED BY <2>1
<1>5. Fed(t, s) = w[Len(s)]
  BY DEF Fed
<1> HIDE DEF w
<1>6. w[0] = t /\ \A i \in 1 .. Len(s) : w[i] = Feed(w[i - 1], s[i])
  BY <1>4
<1> QED BY <1>5, <1>6

\* The roll q is p with the bytes of s written on it.
Ahead(p, s, q) ==
  \E v : /\ v[0] = p /\ v[Len(s)] = q
         /\ \A i \in 1 .. Len(s) : v[i] = Written(v[i - 1], s[i])

LEMMA AheadNone ==
  ASSUME NEW p, NEW q
  PROVE  Ahead(p, << >>, q) <=> p = q
<1>1. Ahead(p, << >>, q) => p = q
  BY DEF Ahead
<1>2. Ahead(p, << >>, p)
  <2> DEFINE v == [i \in {0} |-> p]
  <2>1. v[0] = p /\ Len(<< >>) = 0 /\ \A i \in 1 .. 0 : v[i] = Written(v[i - 1], << >>[i])
    OBVIOUS
  <2> HIDE DEF v
  <2> QED BY <2>1 DEF Ahead
<1> QED BY <1>1, <1>2

LEMMA AheadAppend ==
  ASSUME NEW p, NEW s \in Seq(Byte), NEW q, NEW c \in Byte, Ahead(p, s, q)
  PROVE  Ahead(p, Append(s, c), Written(q, c))
<1>1. PICK v : /\ v[0] = p /\ v[Len(s)] = q
               /\ \A i \in 1 .. Len(s) : v[i] = Written(v[i - 1], s[i])
  BY DEF Ahead
<1>2. PICK n \in Nat : n = Len(s)
  OBVIOUS
<1>3. PICK u : u = Append(s, c)
  OBVIOUS
<1>4. Len(u) = n + 1 /\ u[n + 1] = c /\ \A i \in 1 .. n : u[i] = s[i]
  BY <1>2, <1>3
<1> DEFINE x == [i \in 0 .. n + 1 |-> IF i = n + 1 THEN Written(q, c) ELSE v[i]]
<1>5. x[0] = p /\ x[Len(u)] = Written(q, c)
  BY <1>1, <1>4
<1>6. ASSUME NEW i \in 1 .. n + 1 PROVE x[i] = Written(x[i - 1], u[i])
  <2>1. i - 1 \in 0 .. n + 1 /\ i - 1 # n + 1 /\ x[i - 1] = v[i - 1]
    OBVIOUS
  <2>2. CASE i = n + 1
    <3>1. x[i] = Written(q, c) /\ i - 1 = n
      BY <2>2
    <3> HIDE DEF x
    <3> QED BY <1>1, <1>2, <1>4, <2>1, <2>2, <3>1
  <2>3. CASE i # n + 1
    <3>1. x[i] = v[i] /\ i \in 1 .. n
      BY <2>3
    <3> HIDE DEF x
    <3> QED BY <1>1, <1>2, <1>4, <2>1, <3>1
  <2> QED BY <2>2, <2>3
<1> HIDE DEF x
<1> QED BY <1>3, <1>4, <1>5, <1>6 DEF Ahead

LEMMA AheadSplit ==
  ASSUME NEW p, NEW s \in Seq(Byte), NEW q, Ahead(p, s, q), NEW n \in 0 .. Len(s)
  PROVE  \E m : Ahead(p, SubSeq(s, 1, n), m) /\ Ahead(m, SubSeq(s, n + 1, Len(s)), q)
<1>1. PICK v : /\ v[0] = p /\ v[Len(s)] = q
               /\ \A i \in 1 .. Len(s) : v[i] = Written(v[i - 1], s[i])
  BY DEF Ahead
<1>2. PICK a : a = SubSeq(s, 1, n)
  OBVIOUS
<1>3. PICK b : b = SubSeq(s, n + 1, Len(s))
  OBVIOUS
<1>4. Len(a) = n /\ \A i \in 1 .. n : a[i] = s[i]
  BY <1>2
<1>5. Len(b) = Len(s) - n /\ \A i \in 1 .. Len(s) - n : b[i] = s[i + n]
  BY <1>3
<1>6. Ahead(p, a, v[n])
  <2>1. \A i \in 1 .. n : i \in 1 .. Len(s)
    OBVIOUS
  <2> QED BY <1>1, <1>4, <2>1 DEF Ahead
<1>7. Ahead(v[n], b, q)
  <2> DEFINE x == [i \in 0 .. Len(s) - n |-> v[i + n]]
  <2>1. x[0] = v[n] /\ x[Len(b)] = q
    <3>1. 0 \in 0 .. Len(s) - n /\ Len(s) - n \in 0 .. Len(s) - n /\ 0 + n = n
          /\ (Len(s) - n) + n = Len(s)
      OBVIOUS
    <3> QED BY <1>1, <1>5, <3>1
  <2>2. ASSUME NEW i \in 1 .. Len(b) PROVE x[i] = Written(x[i - 1], b[i])
    <3>1. /\ i \in 1 .. Len(s) - n /\ i \in 0 .. Len(s) - n /\ i - 1 \in 0 .. Len(s) - n
          /\ i + n \in 1 .. Len(s) /\ (i + n) - 1 = (i - 1) + n
      BY <1>5
    <3>2. x[i] = v[i + n] /\ x[i - 1] = v[(i - 1) + n]
      BY <3>1
    <3> HIDE DEF x
    <3> QED BY <1>1, <1>5, <3>1, <3>2
  <2> HIDE DEF x
  <2> QED BY <2>1, <2>2 DEF Ahead
<1> QED BY <1>2, <1>3, <1>6, <1>7

\* A batch of bytes on the terminal and on the roll.
LEMMA FedLemma ==
  ASSUME NEW t \in Terminals, NEW p \in Papers, Same(t, p), NEW s \in Seq(Byte),
         NEW q, Ahead(p, s, q)
  PROVE  Alike(t, Fed(t, s), q)
<1>1. PICK w : /\ w[0] = t /\ \A i \in 1 .. Len(s) : w[i] = Feed(w[i - 1], s[i])
               /\ Fed(t, s) = w[Len(s)]
  BY FedRounds
<1>2. PICK v : /\ v[0] = p /\ v[Len(s)] = q
               /\ \A i \in 1 .. Len(s) : v[i] = Written(v[i - 1], s[i])
  BY DEF Ahead
<1> DEFINE T == {n \in 0 .. Len(s) : Alike(t, w[n], v[n])}
<1>3. 0 \in T
  BY <1>1, <1>2 DEF Alike, Marked
<1>4. ASSUME NEW n \in 1 .. Len(s), n - 1 \in T PROVE n \in T
  <2>1. Alike(t, w[n - 1], v[n - 1])
    BY <1>4
  <2>2. w[n] = Feed(w[n - 1], s[n]) /\ v[n] = Written(v[n - 1], s[n]) /\ s[n] \in Byte
    BY <1>1, <1>2, ElementOfSeq
  <2>3. Alike(w[n - 1], w[n], v[n])
    BY <2>1, <2>2, FeedLemma DEF Alike
  <2>4. Alike(t, w[n], v[n])
    BY <2>1, <2>3, MarkedTrans DEF Alike
  <2> QED BY <2>4
<1> HIDE DEF T
<1>5. Len(s) \in T
  <2>1. Len(s) \in Nat /\ Len(s) \in 0 .. Len(s)
    OBVIOUS
  <2>2. \A n \in 1 .. Len(s) : n - 1 \in T => n \in T
    BY <1>4
  <2>3. \A n \in 0 .. Len(s) : n \in T
    BY <1>3, <2>1, <2>2, UpTo, Zenon
  <2> QED BY <2>1, <2>3
<1> QED BY <1>1, <1>2, <1>5 DEF T

-----------------------------------------------------------------------------
(* What is drawn.                                                          *)

\* A row of the matrix is drawn as the line of the roll.
LEMMA DrawnLemma ==
  ASSUME NEW t \in Terminals, NEW p \in Papers, Same(t, p)
  PROVE  [r \in Rows |-> Drawn(t, r)] = Picture(p)
<1>1. ASSUME NEW r \in Rows
      PROVE  Drawn(t, r) = IF r < Len(p.lines) /\ Valid(p.lines[r + 1])
                           THEN p.lines[r + 1] ELSE << >>
  <2> DEFINE line == [i \in 1 .. t.lens[r] |-> t.screen[r][i - 1]]
  <2>1. r \in Nat /\ t.row \in Nat /\ Len(p.lines) = t.row + 1
    BY SameFacts, SizeFacts
  <2>2. CASE r <= t.row
    <3>1. r < Len(p.lines) /\ r + 1 \in 1 .. Len(p.lines) /\ (r + 1) - 1 = r
      BY <2>1, <2>2
    <3>2. p.lines[r + 1] \in Seq(Byte) /\ Holds(t.screen[r], t.lens[r], p.lines[r + 1])
      BY <3>1, SameFacts
    <3>3. PICK m \in Seq(Byte) : m = p.lines[r + 1]
      BY <3>2
    <3>4. t.lens[r] = Len(m) /\ \A i \in 1 .. Len(m) : t.screen[r][i - 1] = m[i]
      BY <3>2, <3>3 DEF Holds
    <3>5. m = [i \in 1 .. Len(m) |-> m[i]]
      OBVIOUS
    <3>6. line = m
      BY <3>4, <3>5
    <3> HIDE DEF line
    <3>7. Drawn(t, r) = IF Valid(line) THEN line ELSE << >>
      BY DEF Drawn, line
    <3> QED BY <3>1, <3>3, <3>6, <3>7
  <2>3. CASE ~ (r <= t.row)
    <3>1. ~ (r < Len(p.lines)) /\ t.lens[r] = 0
      BY <2>1, <2>3 DEF Same
    <3>2. line = << >>
      BY <3>1
    <3> HIDE DEF line
    <3>3. Drawn(t, r) = IF Valid(line) THEN line ELSE << >>
      BY DEF Drawn, line
    <3> QED BY <3>1, <3>2, <3>3
  <2> QED BY <2>2, <2>3
<1> QED BY <1>1 DEF Picture

\* What is not drawn again has not changed (lcd_task).
LEMMA RefreshedLemma ==
  ASSUME NEW t, t.dirty = {}, NEW u, Marked(t, u), NEW panel0,
         panel0 = [r \in Rows |-> Drawn(t, r)]
  PROVE  Refreshed(panel0, u) = [r \in Rows |-> Drawn(u, r)]
<1> DEFINE again == IF Cardinality(u.dirty) > TERM_ROWS \div 2 THEN Rows ELSE u.dirty
<1>1. ASSUME NEW r \in Rows, r \notin again PROVE panel0[r] = Drawn(u, r)
  <2>1. r \in Rows \ u.dirty
    BY <1>1
  <2>2. u.screen[r] = t.screen[r] /\ u.lens[r] = t.lens[r]
    BY <2>1 DEF Marked
  <2>3. Drawn(u, r) = Drawn(t, r)
    BY <2>2, Zenon DEF Drawn
  <2> QED BY <2>3
<1>2. Refreshed(panel0, u) = [r \in Rows |-> IF r \in again THEN Drawn(u, r) ELSE panel0[r]]
  BY DEF Refreshed
<1> HIDE DEF again
<1> QED BY <1>1, <1>2

-----------------------------------------------------------------------------
(* Text stays text.                                                        *)

LEMMA GreatestExists ==
  ASSUME NEW N \in Nat, NEW T \in SUBSET (0 .. N), T # {}
  PROVE  Max(T) \in T /\ \A y \in T : y <= Max(T)
<1> DEFINE U == {n \in Nat : \A y \in T : y <= n}
<1>1. N \in U
  OBVIOUS
<1>2. PICK m \in U : \A y \in U : m <= y
  <2>1. U \in SUBSET Nat
    OBVIOUS
  <2> HIDE DEF U
  <2> QED BY <1>1, <2>1, LeastExists
<1>3. m \in T
  <2> SUFFICES ASSUME m \notin T PROVE FALSE
    OBVIOUS
  <2>1. \A y \in T : y \in Nat /\ y <= m - 1
    BY <1>2
  <2>2. m - 1 \in U
    <3>1. PICK y \in T : TRUE
      OBVIOUS
    <3>2. m - 1 \in Nat
      BY <1>2, <2>1, <3>1
    <3> QED BY <2>1, <3>2
  <2> QED BY <1>2, <2>2
<1>4. \A y \in T : m >= y
  BY <1>2
<1> QED BY <1>3, <1>4 DEF Max

LEMMA TrimLemma ==
  ASSUME NEW s \in Seq(Byte)
  PROVE  Trim(s) \in Seq(Byte)
<1> DEFINE text == {i \in DOMAIN s : s[i] # " "}
<1>1. CASE text = {}
  <2>1. Trim(s) = << >>
    BY <1>1 DEF Trim
  <2> QED BY <2>1
<1>2. CASE text # {}
  <2>1. text \in SUBSET Nat /\ text \in SUBSET (0 .. Len(s)) /\ text \subseteq 1 .. Len(s)
        /\ Len(s) \in Nat
    <3>1. text \subseteq DOMAIN s
      OBVIOUS
    <3>2. DOMAIN s = 1 .. Len(s) /\ Len(s) \in Nat
      OBVIOUS
    <3> HIDE DEF text
    <3> QED BY <3>1, <3>2
  <2>2. Trim(s) = SubSeq(s, Min(text), Max(text))
    BY <1>2 DEF Trim
  <2> HIDE DEF text
  <2>3. Min(text) \in 1 .. Len(s) /\ Max(text) \in 1 .. Len(s)
    BY <1>2, <2>1, MinIsMember, GreatestExists
  <2> QED BY <2>2, <2>3
<1> QED BY <1>1, <1>2

LEMMA FittingLemma ==
  ASSUME NEW s \in Seq(Byte)
  PROVE  Fitting(s) \in Seq(Byte)
<1>1. Len(s) \in Nat /\ INPUT_BUF_SIZE \in Nat
  BY ConsoleAssumption
<1>2. PICK n : n = Min({Len(s), INPUT_BUF_SIZE})
  OBVIOUS
<1>3. n \in Nat /\ n <= Len(s)
  BY <1>1, <1>2, TwoNumbers
<1>4. Fitting(s) = SubSeq(s, 1, n)
  BY <1>2 DEF Fitting
<1>5. SubSeq(s, 1, n) \in Seq(Byte)
  BY <1>3
<1> QED BY <1>4, <1>5

LEMMA EditLemma ==
  ASSUME NEW s \in Seq(Byte), NEW c \in Byte
  PROVE  Edit(s, c) \in Seq(Byte)
<1>1. SubSeq(s, 1, Len(s) - 1) \in Seq(Byte)
  OBVIOUS
<1> QED BY <1>1 DEF Edit

LEMMA EchoLemma ==
  ASSUME NEW s \in Seq(Byte)
  PROVE  Echo(s) \in Seq(Byte)
<1>1. << ">", " " >> \in Seq(Byte) /\ << "LF" >> \in Seq(Byte)
  <2>1. \A a, b \in Byte : << a, b >> \in Seq(Byte) /\ << a >> \in Seq(Byte)
    OBVIOUS
  <2> QED BY <2>1, ByteFacts
<1> QED BY <1>1, JoinedLemma DEF Echo

\* The next byte for a buffer: what it leaves in it and what it has run.
OneByte(buf, c) == TakenIn([buf |-> buf, run |-> << >>], c)

Taken(buf, c, b, r) ==
  /\ b \in Seq(Byte) /\ r \in Seq(Seq(Byte)) /\ Len(r) <= 1
  /\ OneByte(buf, c) = [buf |-> b, run |-> r]
  /\ \A run \in Seq(Seq(Byte)) :
       TakenIn([buf |-> buf, run |-> run], c) = [buf |-> b, run |-> run \o r]

\* What the editor has had run so far does not matter for the next byte.
LEMMA TakenInLemma ==
  ASSUME NEW buf \in Seq(Byte), NEW c \in Byte
  PROVE  Taken(buf, c, OneByte(buf, c).buf, OneByte(buf, c).run)
<1> SUFFICES \E b, r : Taken(buf, c, b, r)
  <2> SUFFICES ASSUME NEW b, NEW r, Taken(buf, c, b, r)
               PROVE  OneByte(buf, c).buf = b /\ OneByte(buf, c).run = r
    OBVIOUS
  <2> QED BY DEF Taken
<1>1. Trim(buf) \in Seq(Byte) /\ Edit(buf, c) \in Seq(Byte)
  BY TrimLemma, EditLemma
<1>2. CASE ~EndsLine(c)
  <2>1. \A run : TakenIn([buf |-> buf, run |-> run], c) = [buf |-> Edit(buf, c), run |-> run]
    BY <1>2 DEF TakenIn
  <2>2. << >> \in Seq(Seq(Byte)) /\ Len(<< >>) = 0
        /\ \A run \in Seq(Seq(Byte)) : run \o << >> = run
    OBVIOUS
  <2>3. Taken(buf, c, Edit(buf, c), << >>)
    BY <1>1, <2>1, <2>2 DEF Taken, OneByte
  <2> QED BY <2>3
<1>3. CASE EndsLine(c) /\ Valid(buf)
  <2>1. PICK x \in Seq(Byte) : x = Trim(buf)
    BY <1>1
  <2>2. \A run : TakenIn([buf |-> buf, run |-> run], c)
                   = [buf |-> << >>, run |-> Append(run, x)]
    BY <1>3, <2>1 DEF TakenIn, AfterEnd
  <2>3. PICK r : r = << x >>
    OBVIOUS
  <2>4. /\ Append(<< >>, x) = r /\ r \in Seq(Seq(Byte)) /\ Len(r) = 1
        /\ << >> \in Seq(Byte)
    BY <2>3
  <2>5. \A run \in Seq(Seq(Byte)) : Append(run, x) = run \o r
    BY <2>3, AppendIsConcat
  <2>6. Taken(buf, c, << >>, r)
    <3>1. OneByte(buf, c) = [buf |-> << >>, run |-> r]
      BY <2>2, <2>4, Zenon DEF OneByte
    <3>2. \A run \in Seq(Seq(Byte)) :
            TakenIn([buf |-> buf, run |-> run], c) = [buf |-> << >>, run |-> run \o r]
      BY <2>2, <2>5, Zenon
    <3>3. Len(r) <= 1
      BY <2>4
    <3> QED BY <2>4, <3>1, <3>2, <3>3, Zenon DEF Taken
  <2> QED BY <2>6
<1>4. CASE EndsLine(c) /\ ~ Valid(buf)
  <2>1. \A run : TakenIn([buf |-> buf, run |-> run], c) = [buf |-> << >>, run |-> run]
    BY <1>4 DEF TakenIn, AfterEnd
  <2>2. /\ << >> \in Seq(Byte) /\ << >> \in Seq(Seq(Byte)) /\ Len(<< >>) = 0
        /\ \A run \in Seq(Seq(Byte)) : run \o << >> = run
    OBVIOUS
  <2>3. Taken(buf, c, << >>, << >>)
    BY <2>1, <2>2 DEF Taken, OneByte
  <2> QED BY <2>3
<1> QED BY <1>2, <1>3, <1>4

-----------------------------------------------------------------------------
(* The panel shows what the LCD task has fed to its terminal, and the roll *)
(* is ahead of the terminal by the bytes that wait in the character ring.  *)

TextTyped == {input, editor, pending, char_ring} \subseteq Seq(Byte)

PanelInv ==
  /\ term \in Terminals /\ term.dirty = {}
  /\ panel = [r \in Rows |-> Drawn(term, r)]

RollInv == \E p \in Papers : Same(term, p) /\ Ahead(p, char_ring, roll)

LcdInv == TextTyped /\ PanelInv /\ RollInv

LEMMA InitLcd == ConsoleInit => LcdInv
<1> SUFFICES ASSUME ConsoleInit PROVE LcdInv
  OBVIOUS
<1>1. TextTyped
  <2>1. Replies \subseteq Seq(Byte) /\ << >> \in Seq(Byte)
    <3>1. << >> \in Seq(Byte)
      OBVIOUS
    <3> QED BY <3>1, ByteFacts, Zenon
  <2>2. input = << >> /\ editor = << >> /\ char_ring = << >> /\ pending \in Replies
    BY DEF ConsoleInit
  <2> QED BY <2>1, <2>2, Zenon DEF TextTyped
<1>2. EmptyTerminal \in Terminals /\ EmptyTerminal.dirty = {}
  BY SizeFacts, BlankFacts DEF EmptyTerminal, Terminals
<1>3. BlankPaper \in Papers
  BY DEF BlankPaper, Papers
<1>4. Same(EmptyTerminal, BlankPaper)
  <2>1. PICK t : t = EmptyTerminal
    OBVIOUS
  <2>2. /\ t.row = 0 /\ t.col = 0 /\ \A r \in Rows : t.lens[r] = 0
    BY <2>1 DEF EmptyTerminal
  <2>3. PICK p : p = BlankPaper
    OBVIOUS
  <2>4. Len(p.lines) = 1 /\ p.lines[1] = << >> /\ p.at = 0
    BY <2>3 DEF BlankPaper
  <2>5. ASSUME NEW r \in Rows
        PROVE  IF r <= t.row THEN Holds(t.screen[r], t.lens[r], p.lines[r + 1])
                             ELSE t.lens[r] = 0
    <3>1. r \in Nat
      BY SizeFacts
    <3>2. CASE r = 0
      BY <2>2, <2>4, <3>2 DEF Holds
    <3>3. CASE r # 0
      BY <2>2, <3>1, <3>3
    <3> QED BY <3>2, <3>3
  <2>6. Len(p.lines) = t.row + 1 /\ p.at = t.col /\ t.col <= t.lens[t.row]
    BY <2>2, <2>4, SizeFacts
  <2> QED BY <2>1, <2>3, <2>5, <2>6, SameMade
<1>5. PanelInv
  <2>1. \A r \in Rows : Drawn(EmptyTerminal, r) = << >>
    <3> SUFFICES ASSUME NEW r \in Rows PROVE Drawn(EmptyTerminal, r) = << >>
      OBVIOUS
    <3>1. EmptyTerminal.lens[r] = 0
      BY DEF EmptyTerminal
    <3>2. [i \in 1 .. EmptyTerminal.lens[r] |-> EmptyTerminal.screen[r][i - 1]] = << >>
      BY <3>1
    <3> QED BY <3>2, Zenon DEF Drawn
  <2>2. panel = [r \in Rows |-> << >>] /\ term = EmptyTerminal
    BY DEF ConsoleInit
  <2> QED BY <1>2, <2>1, <2>2 DEF PanelInv
<1>6. RollInv
  <2>1. char_ring = << >> /\ roll = BlankPaper /\ term = EmptyTerminal
    BY DEF ConsoleInit
  <2>2. Ahead(BlankPaper, << >>, BlankPaper)
    BY AheadNone
  <2> QED BY <1>3, <1>4, <2>1, <2>2 DEF RollInv
<1> QED BY <1>1, <1>5, <1>6 DEF LcdInv

\* A byte for the character ring goes to the roll as well, or to neither.
LEMMA PutCharsLemma ==
  ASSUME NEW p, char_ring \in Seq(Byte), Ahead(p, char_ring, roll), NEW c \in Byte, PutChars(c)
  PROVE  char_ring' \in Seq(Byte) /\ Ahead(p, char_ring', roll')
<1>1. CASE Len(char_ring) < CHAR_BUF_SIZE
  <2>1. char_ring' = Append(char_ring, c) /\ roll' = Written(roll, c)
    BY <1>1 DEF PutChars
  <2> QED BY <2>1, AheadAppend
<1>2. CASE ~ (Len(char_ring) < CHAR_BUF_SIZE)
  BY <1>2 DEF PutChars
<1> QED BY <1>1, <1>2

\* The task that prints leaves the terminal and the panel alone.
LEMMA PrintedKeepsLcd ==
  ASSUME LcdInv, NEW c \in Byte, PutChars(c), UNCHANGED lcd_vars,
         {input', editor', pending'} \subseteq Seq(Byte)
  PROVE  LcdInv'
<1>1. term' = term /\ panel' = panel
  BY DEF lcd_vars
<1>2. PICK p \in Papers : Same(term, p) /\ Ahead(p, char_ring, roll)
  BY DEF LcdInv, RollInv
<1>3. char_ring' \in Seq(Byte) /\ Ahead(p, char_ring', roll')
  BY <1>2, PutCharsLemma DEF LcdInv, TextTyped
<1>4. TextTyped'
  BY <1>3 DEF TextTyped
<1>5. PanelInv'
  BY <1>1 DEF LcdInv, PanelInv
<1>6. RollInv'
  BY <1>1, <1>2, <1>3 DEF RollInv
<1> QED BY <1>4, <1>5, <1>6 DEF LcdInv

LEMMA LcdTurnKeepsLcd ==
  ASSUME LcdInv, LcdTurn
  PROVE  LcdInv'
<1> DEFINE n == Drained(char_ring)
           taken == SubSeq(char_ring, 1, n)
           left == SubSeq(char_ring, n + 1, Len(char_ring))
           fed == Fed(term, taken)
<1>1. char_ring \in Seq(Byte)
  BY DEF LcdInv, TextTyped
<1>2. n \in 0 .. Len(char_ring)
  <2>1. Len(char_ring) \in Nat /\ DRAIN \in Nat
    BY <1>1, ConsoleAssumption
  <2>2. PICK k : k = Min({Len(char_ring), DRAIN})
    OBVIOUS
  <2>3. k \in Nat /\ k <= Len(char_ring)
    BY <2>1, <2>2, TwoNumbers
  <2> QED BY <2>1, <2>2, <2>3 DEF Drained
<1>3. /\ char_ring' = left /\ panel' = Refreshed(panel, fed)
      /\ term' = [fed EXCEPT !.dirty = {}] /\ roll' = roll
      /\ {input', editor', pending'} \subseteq Seq(Byte)
  BY DEF LcdTurn, LcdInv, TextTyped, shell_vars
<1>4. taken \in Seq(Byte) /\ left \in Seq(Byte)
  <2> HIDE DEF n
  <2> QED BY <1>1, <1>2
<1> HIDE DEF n
<1>5. PICK p \in Papers : Same(term, p) /\ Ahead(p, char_ring, roll)
  BY DEF LcdInv, RollInv
<1>6. PICK q : Ahead(p, taken, q) /\ Ahead(q, left, roll)
  BY <1>1, <1>2, <1>5, AheadSplit
<1> HIDE DEF taken, left
<1>7. Alike(term, fed, q)
  BY <1>4, <1>5, <1>6, FedLemma DEF LcdInv, PanelInv
<1> HIDE DEF fed
<1>8. PICK t : t = [fed EXCEPT !.dirty = {}]
  OBVIOUS
<1>9. /\ t \in Terminals /\ t.dirty = {} /\ t.screen = fed.screen /\ t.lens = fed.lens
      /\ t.row = fed.row /\ t.col = fed.col
  BY <1>7, <1>8 DEF Alike, Terminals
<1>10. Same(t, q)
  BY <1>7, <1>9 DEF Alike, Same
<1>11. \A r \in Rows : Drawn(t, r) = Drawn(fed, r)
  BY <1>9, Zenon DEF Drawn
<1>12. panel' = [r \in Rows |-> Drawn(t, r)]
  <2>1. Refreshed(panel, fed) = [r \in Rows |-> Drawn(fed, r)]
    BY <1>7, RefreshedLemma DEF Alike, LcdInv, PanelInv
  <2> QED BY <1>3, <1>11, <2>1
<1>13. term' = t
  BY <1>3, <1>8
<1>14. PanelInv'
  BY <1>9, <1>12, <1>13 DEF PanelInv
<1>15. RollInv'
  <2>1. q \in Papers
    BY <1>7 DEF Alike
  <2> QED BY <1>3, <1>6, <1>10, <1>13, <2>1 DEF RollInv
<1>16. TextTyped'
  BY <1>3, <1>4 DEF TextTyped
<1> QED BY <1>14, <1>15, <1>16 DEF LcdInv

\* Steps that print nothing.
LEMMA OthersKeepLcd ==
  ASSUME LcdInv, UNCHANGED << char_ring, lcd_vars, roll >>,
         {input', editor', pending'} \subseteq Seq(Byte)
  PROVE  LcdInv'
BY DEF LcdInv, TextTyped, PanelInv, RollInv, lcd_vars

LEMMA NextLcd ==
  ASSUME LcdInv, [ConsoleNext]_console_vars
  PROVE  LcdInv'
<1>0. /\ input \in Seq(Byte) /\ editor \in Seq(Byte) /\ pending \in Seq(Byte)
      /\ char_ring \in Seq(Byte)
  BY DEF LcdInv, TextTyped
<1>1. ASSUME NEW line \in Lines, PushLine(line) PROVE LcdInv'
  <2>1. line \in Seq(Byte) /\ "LF" \in Byte
    BY ByteFacts
  <2>2. PICK s : s = input \o line
    OBVIOUS
  <2>3. s \in Seq(Byte)
    BY <1>0, <2>1, <2>2
  <2>4. Append(s, "LF") \in Seq(Byte)
    BY <2>1, <2>3
  <2>5. input' \in Seq(Byte)
    BY <1>1, <2>2, <2>4, FittingLemma DEF PushLine
  <2> QED BY <1>0, <1>1, <2>5, OthersKeepLcd DEF PushLine
<1>2. CASE Reads
  <2>1. input' \in Seq(Byte) /\ Head(input) \in Byte
    BY <1>0, <1>2, HeadTailProperties DEF Reads
  <2> DEFINE fed == OneByte(editor, Head(input))
  <2>2. fed.buf \in Seq(Byte) /\ fed.run \in Seq(Seq(Byte))
    BY <1>0, <2>1, TakenInLemma DEF Taken
  <2>3. /\ editor' = fed.buf
        /\ IF fed.run # << >> THEN Run(Head(fed.run)) ELSE UNCHANGED << pending, due, misran >>
    BY <1>2 DEF Reads, OneByte
  <2> HIDE DEF fed
  <2>4. pending' \in Seq(Byte)
    <3>1. CASE fed.run = << >>
      BY <1>0, <2>3, <3>1
    <3>2. CASE fed.run # << >>
      <4>1. Head(fed.run) \in Seq(Byte)
        BY <2>2, <3>2, HeadTailProperties
      <4>2. PICK reply \in Replies \cup {<< >>} : pending' = Echo(Head(fed.run)) \o reply
        BY <2>3, <3>2 DEF Run
      <4>3. reply \in Seq(Byte)
        <5>1. << >> \in Seq(Byte)
          OBVIOUS
        <5> QED BY <5>1, ByteFacts, Zenon
      <4>4. Echo(Head(fed.run)) \in Seq(Byte)
        BY <4>1, EchoLemma
      <4> QED BY <4>2, <4>3, <4>4, JoinedLemma
    <3> QED BY <3>1, <3>2
  <2> QED BY <1>2, <2>1, <2>2, <2>3, <2>4, OthersKeepLcd DEF Reads
<1>3. CASE Prints
  <2>1. pending' \in Seq(Byte) /\ Head(pending) \in Byte
    BY <1>0, <1>3, HeadTailProperties DEF Prints
  <2> QED BY <1>0, <1>3, <2>1, PrintedKeepsLcd DEF Prints
<1>4. ASSUME NEW c \in Printed, OthersPrint(c) PROVE LcdInv'
  <2>1. c \in Byte
    BY ByteFacts
  <2> QED BY <1>0, <1>4, <2>1, PrintedKeepsLcd DEF OthersPrint, shell_vars
<1>5. CASE LcdTurn
  BY <1>5, LcdTurnKeepsLcd
<1>6. CASE UNCHANGED console_vars
  BY <1>0, <1>6, OthersKeepLcd DEF console_vars, lcd_vars
<1> QED BY <1>1, <1>2, <1>3, <1>4, <1>5, <1>6 DEF ConsoleNext

\* However many bytes the LCD task takes at once, however its batches fall between
\* those of the tasks that print, and whether a flush draws all rows or the dirty
\* ones: when the character ring is empty the panel shows the end of all it has
\* taken (lcd_task, Terminal).
THEOREM PanelAlwaysShowsThePrint == ConsoleSpec => []PanelShowsThePrint
<1>1. LcdInv => PanelShowsThePrint
  <2> SUFFICES ASSUME LcdInv, char_ring = << >> PROVE panel = Picture(roll)
    BY DEF PanelShowsThePrint
  <2>1. PICK p \in Papers : Same(term, p) /\ Ahead(p, char_ring, roll)
    BY DEF LcdInv, RollInv
  <2>2. p = roll
    BY <2>1, AheadNone
  <2> QED BY <2>1, <2>2, DrawnLemma DEF LcdInv, PanelInv
<1>2. LcdInv /\ [ConsoleNext]_console_vars => LcdInv'
  BY NextLcd
<1> QED BY <1>1, <1>2, InitLcd, PTL DEF ConsoleSpec

-----------------------------------------------------------------------------
(* The bytes that wait for the shell ask for exactly the commands due.     *)

Commands == Seq(Seq(Byte))

\* With b in its buffer the editor takes in s, empties the buffer and has the
\* commands r run: b[i] is in the buffer and r[i] still to be run after i bytes.
Serving(b, r, s) ==
  /\ b[Len(s)] = << >> /\ r[Len(s)] = << >>
  /\ \A i \in 0 .. Len(s) : b[i] \in Seq(Byte) /\ r[i] \in Commands
  /\ \A i \in 1 .. Len(s) : /\ b[i] = OneByte(b[i - 1], s[i]).buf
                            /\ r[i - 1] = OneByte(b[i - 1], s[i]).run \o r[i]

Serves(buf, s, commands) ==
  \E b, r : b[0] = buf /\ r[0] = commands /\ Serving(b, r, s)

LEMMA ServesNothing == Serves(<< >>, << >>, << >>)
<1> DEFINE f == [i \in {0} |-> << >>]
<1>1. f[0] = << >> /\ Len(<< >>) = 0 /\ << >> \in Seq(Byte) /\ << >> \in Commands
  BY DEF Commands
<1>2. Serving(f, f, << >>)
  <2> HIDE DEF f
  <2>1. \A i \in 0 .. 0 : i = 0
    OBVIOUS
  <2>2. \A i \in 1 .. 0 : FALSE
    OBVIOUS
  <2> QED BY <1>1, <2>1, <2>2, Zenon DEF Serving
<1> HIDE DEF f
<1> QED BY <1>1, <1>2 DEF Serves

\* The first byte is taken in.
LEMMA ServesTail ==
  ASSUME NEW s \in Seq(Byte), s # << >>, NEW buf, NEW commands, Serves(buf, s, commands)
  PROVE  LET one == OneByte(buf, Head(s))
         IN  \E rest \in Commands :
               commands = one.run \o rest /\ Serves(one.buf, Tail(s), rest)
<1>1. PICK b, r : b[0] = buf /\ r[0] = commands /\ Serving(b, r, s)
  BY DEF Serves
<1>2. PICK u : u = Tail(s)
  OBVIOUS
<1>3. /\ Len(s) \in Nat \ {0} /\ Len(u) = Len(s) - 1 /\ Head(s) = s[1]
      /\ \A i \in 1 .. Len(s) - 1 : u[i] = s[i + 1]
  BY <1>2
<1> DEFINE c == [i \in 0 .. Len(s) - 1 |-> b[i + 1]]
           q == [i \in 0 .. Len(s) - 1 |-> r[i + 1]]
<1>4. \A i \in 0 .. Len(u) : c[i] = b[i + 1] /\ q[i] = r[i + 1] /\ i + 1 \in 0 .. Len(s)
  BY <1>3
<1> HIDE DEF c, q
<1>5. Serving(c, q, u)
  <2>1. c[Len(u)] = << >> /\ q[Len(u)] = << >>
    <3>1. Len(u) \in 0 .. Len(u) /\ Len(u) + 1 = Len(s)
      BY <1>3
    <3> QED BY <1>1, <1>4, <3>1 DEF Serving
  <2>2. \A i \in 0 .. Len(u) : c[i] \in Seq(Byte) /\ q[i] \in Commands
    BY <1>1, <1>4 DEF Serving
  <2>3. ASSUME NEW i \in 1 .. Len(u)
        PROVE  /\ c[i] = OneByte(c[i - 1], u[i]).buf
               /\ q[i - 1] = OneByte(c[i - 1], u[i]).run \o q[i]
    <3>1. /\ i \in 0 .. Len(u) /\ i - 1 \in 0 .. Len(u) /\ i + 1 \in 1 .. Len(s)
          /\ (i - 1) + 1 = i /\ (i + 1) - 1 = i /\ i \in 1 .. Len(s) - 1
      BY <1>3
    <3>2. c[i] = b[i + 1] /\ q[i] = r[i + 1] /\ c[i - 1] = b[i] /\ q[i - 1] = r[i]
          /\ u[i] = s[i + 1]
      BY <1>3, <1>4, <3>1
    <3>3. /\ b[i + 1] = OneByte(b[i], s[i + 1]).buf
          /\ r[i] = OneByte(b[i], s[i + 1]).run \o r[i + 1]
      BY <1>1, <3>1 DEF Serving
    <3> QED BY <3>2, <3>3, Zenon
  <2> QED BY <2>1, <2>2, <2>3 DEF Serving
<1>6. /\ c[0] = OneByte(buf, Head(s)).buf
      /\ commands = OneByte(buf, Head(s)).run \o q[0] /\ q[0] \in Commands
  <2>1. 0 \in 0 .. Len(u) /\ 0 + 1 = 1 /\ 1 \in 1 .. Len(s) /\ 1 - 1 = 0
    BY <1>3
  <2>2. b[1] = OneByte(b[0], s[1]).buf /\ r[0] = OneByte(b[0], s[1]).run \o r[1]
    BY <1>1, <2>1 DEF Serving
  <2>3. c[0] = b[1] /\ q[0] = r[1]
    BY <1>4, <2>1
  <2>4. q[0] \in Commands
    BY <1>5, <2>1 DEF Serving
  <2> QED BY <1>1, <1>3, <2>2, <2>3, <2>4
<1>7. Serves(OneByte(buf, Head(s)).buf, u, q[0])
  BY <1>5, <1>6 DEF Serves
<1> QED BY <1>2, <1>6, <1>7

LEMMA CommandsJoin ==
  ASSUME NEW x \in Commands, NEW y \in Commands, NEW z \in Commands
  PROVE  (x \o y) \o z = x \o (y \o z) /\ x \o y \in Commands
BY ConcatAssociative, ConcatProperties DEF Commands

\* More bytes behind those that wait, and more commands behind those that are due.
LEMMA ServesBoth ==
  ASSUME NEW buf, NEW s \in Seq(Byte), NEW commands, Serves(buf, s, commands),
         NEW u \in Seq(Byte), NEW more, Serves(<< >>, u, more)
  PROVE  Serves(buf, s \o u, commands \o more)
<1>1. PICK b, r : b[0] = buf /\ r[0] = commands /\ Serving(b, r, s)
  BY DEF Serves
<1>2. PICK c, q : c[0] = << >> /\ q[0] = more /\ Serving(c, q, u)
  BY DEF Serves
<1>3. PICK n \in Nat : n = Len(s)
  OBVIOUS
<1>4. PICK m \in Nat : m = Len(u)
  OBVIOUS
<1>5. PICK v : v = s \o u
  OBVIOUS
<1>6. /\ Len(v) = n + m /\ \A i \in 1 .. n : v[i] = s[i]
      /\ \A i \in 1 .. m : v[n + i] = u[i]
  BY <1>3, <1>4, <1>5, JoinedLemma
<1> DEFINE f == [i \in 0 .. n + m |-> IF i <= n THEN b[i] ELSE c[i - n]]
           g == [i \in 0 .. n + m |-> IF i <= n THEN r[i] \o more ELSE q[i - n]]
<1>7. \A i \in 0 .. n : f[i] = b[i] /\ g[i] = r[i] \o more
  OBVIOUS
<1>8. /\ b[n] = << >> /\ r[n] = << >> /\ c[m] = << >> /\ q[m] = << >> /\ more \in Commands
      /\ \A i \in 0 .. n : b[i] \in Seq(Byte) /\ r[i] \in Commands
      /\ \A i \in 0 .. m : c[i] \in Seq(Byte) /\ q[i] \in Commands
  <2>1. 0 \in 0 .. m
    OBVIOUS
  <2> QED BY <1>1, <1>2, <1>3, <1>4, <2>1 DEF Serving
<1>9. << >> \o more = more /\ \A x \in Commands : x \o more \in Commands
  BY <1>8 DEF Commands
<1>10. \A i \in 0 .. m : f[n + i] = c[i] /\ g[n + i] = q[i]
  <2> SUFFICES ASSUME NEW i \in 0 .. m PROVE f[n + i] = c[i] /\ g[n + i] = q[i]
    OBVIOUS
  <2>1. CASE i = 0
    <3>1. n + i = n /\ n \in 0 .. n
      BY <2>1
    <3> HIDE DEF f, g
    <3> QED BY <1>2, <1>7, <1>8, <1>9, <2>1, <3>1
  <2>2. CASE i # 0
    <3>1. n + i \in 0 .. n + m /\ ~ (n + i <= n) /\ (n + i) - n = i
      BY <2>2
    <3> QED BY <3>1
  <2> QED BY <2>1, <2>2
<1> HIDE DEF f, g
<1>11. ASSUME NEW i \in 0 .. n + m PROVE f[i] \in Seq(Byte) /\ g[i] \in Commands
  <2>1. CASE i <= n
    <3>1. i \in 0 .. n
      BY <2>1
    <3> QED BY <1>7, <1>8, <1>9, <3>1
  <2>2. CASE ~ (i <= n)
    <3>1. i - n \in 0 .. m /\ n + (i - n) = i
      BY <2>2
    <3> QED BY <1>8, <1>10, <3>1
  <2> QED BY <2>1, <2>2
<1>12. ASSUME NEW i \in 1 .. n + m
       PROVE  /\ f[i] = OneByte(f[i - 1], v[i]).buf
              /\ g[i - 1] = OneByte(f[i - 1], v[i]).run \o g[i]
  <2>1. CASE i <= n
    <3>1. i \in 1 .. n /\ i \in 0 .. n /\ i - 1 \in 0 .. n /\ i \in 1 .. Len(s)
      BY <1>3, <2>1
    <3>2. PICK x : x = OneByte(b[i - 1], s[i])
      OBVIOUS
    <3>3. b[i] = x.buf /\ r[i - 1] = x.run \o r[i]
      BY <1>1, <3>1, <3>2 DEF Serving
    <3>4. x.run \in Commands
      <4>1. s[i] \in Byte /\ b[i - 1] \in Seq(Byte)
        BY <1>8, <3>1, ElementOfSeq
      <4> QED BY <3>2, <4>1, TakenInLemma DEF Taken, Commands
    <3>5. (x.run \o r[i]) \o more = x.run \o (r[i] \o more)
      BY <1>8, <3>1, <3>4, CommandsJoin
    <3>6. f[i - 1] = b[i - 1] /\ v[i] = s[i] /\ g[i - 1] = r[i - 1] \o more
          /\ f[i] = b[i] /\ g[i] = r[i] \o more
      BY <1>6, <1>7, <3>1
    <3> QED BY <3>2, <3>3, <3>5, <3>6, Zenon
  <2>2. CASE ~ (i <= n)
    <3>1. PICK k \in Nat : k = i - n
      <4>1. i - n \in Nat
        BY <2>2
      <4> QED BY <4>1
    <3>2. /\ k \in 1 .. m /\ k \in 0 .. m /\ k - 1 \in 0 .. m /\ n + k = i
          /\ n + (k - 1) = i - 1 /\ k \in 1 .. Len(u)
      BY <1>4, <2>2, <3>1
    <3>3. f[n + (k - 1)] = c[k - 1] /\ g[n + (k - 1)] = q[k - 1]
          /\ f[n + k] = c[k] /\ g[n + k] = q[k] /\ v[n + k] = u[k]
      BY <1>6, <1>10, <3>2
    <3>4. c[k] = OneByte(c[k - 1], u[k]).buf /\ q[k - 1] = OneByte(c[k - 1], u[k]).run \o q[k]
      BY <1>2, <3>2 DEF Serving
    <3> QED BY <3>2, <3>3, <3>4, Zenon
  <2> QED BY <2>1, <2>2
<1>13. f[n + m] = << >> /\ g[n + m] = << >>
  <2>1. m \in 0 .. m
    OBVIOUS
  <2> QED BY <1>8, <1>10, <2>1
<1>14. Serving(f, g, v)
  BY <1>6, <1>11, <1>12, <1>13 DEF Serving
<1>15. f[0] = buf /\ g[0] = commands \o more
  <2>1. 0 \in 0 .. n
    OBVIOUS
  <2> QED BY <1>1, <1>7, <2>1
<1> QED BY <1>5, <1>14, <1>15 DEF Serves

\* The function that Handled chooses exists.
LEMMA HandledRounds ==
  ASSUME NEW s \in Seq(Byte)
  PROVE  \E w : /\ w[0] = [buf |-> << >>, run |-> << >>]
                /\ \A i \in 1 .. Len(s) : w[i] = TakenIn(w[i - 1], s[i])
                /\ Handled(s) = w[Len(s)]
<1> DEFINE e == [buf |-> << >>, run |-> << >>]
           Loop(n, f) == f = [i \in 0 .. n |-> IF i = 0 THEN e ELSE TakenIn(f[i - 1], s[i])]
           T == {n \in Nat : \E f : Loop(n, f)}
<1>1. 0 \in T
  <2> DEFINE f == [i \in 0 .. 0 |-> e]
  <2>1. Loop(0, f)
    <3> HIDE DEF e
    <3> QED OBVIOUS
  <2> QED BY <2>1
<1>2. \A n \in 1 .. Len(s) : n - 1 \in T => n \in T
  <2> SUFFICES ASSUME NEW n \in 1 .. Len(s), n - 1 \in T PROVE n \in T
    OBVIOUS
  <2>1. PICK f : Loop(n - 1, f)
    OBVIOUS
  <2> HIDE DEF e
  <2> DEFINE g == [i \in 0 .. n |-> IF i = n THEN TakenIn(f[n - 1], s[n]) ELSE f[i]]
  <2>2. ASSUME NEW i \in 0 .. n
        PROVE  g[i] = IF i = 0 THEN e ELSE TakenIn(g[i - 1], s[i])
    <3>1. CASE i = n
      <4>1. n - 1 \in 0 .. n /\ n - 1 # n /\ i # 0
        BY <3>1
      <4>2. g[n - 1] = f[n - 1] /\ g[i] = TakenIn(f[n - 1], s[n])
        BY <3>1, <4>1
      <4> HIDE DEF g
      <4> QED BY <3>1, <4>1, <4>2
    <3>2. CASE i # n
      <4>1. i \in 0 .. n - 1 /\ (i # 0 => i - 1 \in 0 .. n /\ i - 1 # n)
        BY <3>2
      <4>2. g[i] = f[i] /\ (i # 0 => g[i - 1] = f[i - 1])
        BY <3>2, <4>1
      <4>3. f[i] = IF i = 0 THEN e ELSE TakenIn(f[i - 1], s[i])
        BY <2>1, <4>1
      <4> HIDE DEF g
      <4> QED BY <4>2, <4>3
    <3> QED BY <3>1, <3>2
  <2>3. g = [i \in 0 .. n |-> IF i = 0 THEN e ELSE TakenIn(g[i - 1], s[i])]
    <3>1. g = [i \in 0 .. n |-> g[i]]
      OBVIOUS
    <3> HIDE DEF g
    <3> QED BY <2>2, <3>1
  <2> HIDE DEF g
  <2> QED BY <2>3
<1>3. Len(s) \in T
  <2> HIDE DEF T
  <2>1. Len(s) \in Nat /\ Len(s) \in 0 .. Len(s)
    OBVIOUS
  <2>2. \A n \in 0 .. Len(s) : n \in T
    BY <1>1, <1>2, <2>1, UpTo, Zenon
  <2> QED BY <2>1, <2>2
<1> DEFINE w == CHOOSE f : Loop(Len(s), f)
<1>4. Loop(Len(s), w)
  <2>1. \E f : Loop(Len(s), f)
    BY <1>3
  <2> HIDE DEF Loop
  <2> QED BY <2>1
<1>5. Handled(s) = w[Len(s)]
  BY DEF Handled
<1> HIDE DEF w
<1>6. w[0] = e /\ \A i \in 1 .. Len(s) : w[i] = TakenIn(w[i - 1], s[i])
  <2> HIDE DEF e
  <2> QED BY <1>4
<1> QED BY <1>5, <1>6

LEMMA RestLemma ==
  ASSUME NEW p \in Commands, NEW q \in Commands, NEW R, R = p \o q
  PROVE  SubSeq(R, Len(p) + 1, Len(R)) = q
<1>1. /\ R \in Commands /\ Len(R) = Len(p) + Len(q) /\ Len(p) \in Nat /\ Len(q) \in Nat
      /\ \A i \in 1 .. Len(q) : R[Len(p) + i] = q[i]
  BY ConcatProperties DEF Commands
<1>2. PICK u : u = SubSeq(R, Len(p) + 1, Len(R))
  OBVIOUS
<1>3. /\ u \in Commands /\ Len(u) = Len(q)
      /\ \A i \in 1 .. Len(q) : u[i] = R[Len(p) + i]
  <2>1. PICK a \in Nat : a = Len(p)
    BY <1>1
  <2>2. PICK z \in Nat : z = Len(q)
    BY <1>1
  <2>3. a + 1 \in 1 .. Len(R) + 1 /\ Len(R) \in a .. Len(R) /\ Len(R) = a + z
    BY <1>1, <2>1, <2>2
  <2>4. /\ u \in Commands /\ Len(u) = z
        /\ \A i \in 1 .. z : u[i] = R[(a + 1) + i - 1]
    BY <1>1, <1>2, <2>1, <2>3, SubSeqProperties DEF Commands
  <2>5. \A i \in 1 .. z : (a + 1) + i - 1 = a + i
    OBVIOUS
  <2> QED BY <2>1, <2>2, <2>4, <2>5
<1>4. u = q
  BY <1>1, <1>3, SeqEqual DEF Commands
<1> QED BY <1>2, <1>4

Editors == [buf : Seq(Byte), run : Commands]

LEMMA EditorsLemma ==
  /\ \A x \in Editors : /\ x.buf \in Seq(Byte) /\ x.run \in Commands
                         /\ x = [buf |-> x.buf, run |-> x.run]
  /\ \A b \in Seq(Byte), c \in Commands : [buf |-> b, run |-> c] \in Editors
  /\ [buf |-> << >>, run |-> << >>] \in Editors
<1>1. << >> \in Seq(Byte) /\ << >> \in Commands
  BY DEF Commands
<1> QED BY <1>1 DEF Editors

\* The editor serves a text that it has run as a whole.
LEMMA HandledServes ==
  ASSUME NEW s \in Seq(Byte), NEW R, Handled(s) = [buf |-> << >>, run |-> R]
  PROVE  Serves(<< >>, s, R)
<1>1. PICK e : /\ e[0] = [buf |-> << >>, run |-> << >>]
               /\ \A i \in 1 .. Len(s) : e[i] = TakenIn(e[i - 1], s[i])
               /\ Handled(s) = e[Len(s)]
  BY HandledRounds
<1>2. PICK n \in Nat : n = Len(s)
  OBVIOUS
<1> DEFINE one(i) == OneByte(e[i - 1].buf, s[i])
<1>3. ASSUME NEW i \in 1 .. n, e[i - 1] \in Editors
      PROVE  /\ e[i] \in Editors /\ one(i).run \in Commands
             /\ e[i].buf = one(i).buf /\ e[i].run = e[i - 1].run \o one(i).run
  <2>1. s[i] \in Byte /\ e[i - 1].buf \in Seq(Byte) /\ e[i - 1].run \in Seq(Seq(Byte))
    BY <1>2, <1>3, ElementOfSeq, EditorsLemma DEF Commands
  <2>2. PICK x : x = one(i)
    OBVIOUS
  <2>3. /\ x.buf \in Seq(Byte) /\ x.run \in Commands
        /\ TakenIn([buf |-> e[i - 1].buf, run |-> e[i - 1].run], s[i])
             = [buf |-> x.buf, run |-> e[i - 1].run \o x.run]
    BY <2>1, <2>2, TakenInLemma DEF Taken, Commands
  <2>4. e[i] = [buf |-> x.buf, run |-> e[i - 1].run \o x.run]
    <3>1. e[i] = TakenIn(e[i - 1], s[i])
      BY <1>1, <1>2
    <3>2. e[i - 1] = [buf |-> e[i - 1].buf, run |-> e[i - 1].run]
      BY <1>3, EditorsLemma
    <3> QED BY <2>3, <3>1, <3>2
  <2>5. e[i - 1].run \o x.run \in Commands
    BY <1>3, <2>3, CommandsJoin, EditorsLemma
  <2>6. e[i] \in Editors
    BY <2>3, <2>4, <2>5, EditorsLemma
  <2> HIDE DEF one
  <2>7. e[i].buf = x.buf /\ e[i].run = e[i - 1].run \o x.run
    <3>1. PICK z : z = e[i - 1].run \o x.run
      OBVIOUS
    <3>2. PICK y : y = [buf |-> x.buf, run |-> z]
      OBVIOUS
    <3>3. y.buf = x.buf /\ y.run = z
      BY <3>2
    <3>4. e[i] = y
      BY <2>4, <3>1, <3>2, Zenon
    <3> QED BY <3>1, <3>3, <3>4, Zenon
  <2> QED BY <2>2, <2>3, <2>6, <2>7
<1>4. \A i \in 0 .. n : e[i] \in Editors
  <2> DEFINE T == {i \in 0 .. n : e[i] \in Editors}
  <2>1. 0 \in T
    BY <1>1, EditorsLemma
  <2>2. \A i \in 1 .. n : i - 1 \in T => i \in T
    <3> SUFFICES ASSUME NEW i \in 1 .. n, i - 1 \in T PROVE i \in T
      OBVIOUS
    <3>1. e[i - 1] \in Editors /\ i \in 0 .. n
      OBVIOUS
    <3>2. e[i] \in Editors
      BY <1>3, <3>1
    <3> QED BY <3>1, <3>2
  <2> HIDE DEF T
  <2>3. \A i \in 0 .. n : i \in T
    BY <2>1, <2>2, UpTo, Zenon
  <2> QED BY <2>3 DEF T
<1>5. \A i \in 1 .. n : i - 1 \in 0 .. n /\ i \in 0 .. n
  OBVIOUS
<1>6. \A i \in 1 .. n : /\ one(i).run \in Commands /\ e[i].buf = one(i).buf
                        /\ e[i].run = e[i - 1].run \o one(i).run
  <2> QED BY <1>3, <1>4, <1>5
<1>7. \A i \in 0 .. n : e[i].buf \in Seq(Byte) /\ e[i].run \in Commands
  BY <1>4, EditorsLemma
<1>8. e[n].buf = << >> /\ e[n].run = R /\ R \in Commands
  <2>1. n \in 0 .. n
    OBVIOUS
  <2> QED BY <1>1, <1>2, <1>7, <2>1
<1> DEFINE r == [i \in 0 .. n |-> SubSeq(R, Len(e[i].run) + 1, Len(R))]
           T == {k \in 0 .. n : r[n - k] \in Commands /\ R = e[n - k].run \o r[n - k]}
<1>9. \A i \in 0 .. n : \A q \in Commands : R = e[i].run \o q => r[i] = q
  BY <1>7, RestLemma
<1> HIDE DEF r, one
<1>10. << >> \in Commands /\ R = R \o << >>
  BY <1>8 DEF Commands
<1>11. r[n] = << >>
  <2>1. n \in 0 .. n
    OBVIOUS
  <2> QED BY <1>8, <1>9, <1>10, <2>1
<1>12. ASSUME NEW i \in 1 .. n, r[i] \in Commands, R = e[i].run \o r[i]
       PROVE  /\ r[i - 1] = one(i).run \o r[i] /\ r[i - 1] \in Commands
              /\ R = e[i - 1].run \o r[i - 1]
  <2>1. i - 1 \in 0 .. n /\ e[i - 1].run \in Commands /\ one(i).run \in Commands
    BY <1>5, <1>6, <1>7
  <2>2. R = (e[i - 1].run \o one(i).run) \o r[i]
    BY <1>6, <1>12
  <2>3. R = e[i - 1].run \o (one(i).run \o r[i]) /\ one(i).run \o r[i] \in Commands
    BY <1>12, <2>1, <2>2, CommandsJoin
  <2>4. r[i - 1] = one(i).run \o r[i]
    BY <1>9, <2>1, <2>3
  <2> QED BY <2>3, <2>4
<1>13. \A i \in 0 .. n : r[i] \in Commands /\ R = e[i].run \o r[i]
  <2>1. 0 \in T
    <3>1. n - 0 = n /\ 0 \in 0 .. n
      OBVIOUS
    <3>2. r[n - 0] \in Commands /\ R = e[n - 0].run \o r[n - 0]
      BY <1>8, <1>10, <1>11, <3>1, Zenon
    <3> QED BY <3>1, <3>2
  <2>2. \A k \in 1 .. n : k - 1 \in T => k \in T
    <3> SUFFICES ASSUME NEW k \in 1 .. n, k - 1 \in T PROVE k \in T
      OBVIOUS
    <3>1. PICK i \in 1 .. n : i = n - (k - 1) /\ i - 1 = n - k
      <4>1. n - (k - 1) \in 1 .. n /\ (n - (k - 1)) - 1 = n - k
        OBVIOUS
      <4> QED BY <4>1
    <3>2. r[i] \in Commands /\ R = e[i].run \o r[i]
      BY <3>1
    <3>3. r[i - 1] \in Commands /\ R = e[i - 1].run \o r[i - 1]
      BY <1>12, <3>2
    <3>4. r[n - k] \in Commands /\ R = e[n - k].run \o r[n - k]
      BY <3>1, <3>3, Zenon
    <3>5. k \in 0 .. n
      OBVIOUS
    <3> QED BY <3>4, <3>5
  <2> HIDE DEF T
  <2>3. \A k \in 0 .. n : k \in T
    BY <2>1, <2>2, UpTo, Zenon
  <2>4. \A i \in 0 .. n : n - i \in 0 .. n /\ n - (n - i) = i
    OBVIOUS
  <2>5. \A k \in 0 .. n : r[n - k] \in Commands /\ R = e[n - k].run \o r[n - k]
    BY <2>3 DEF T
  <2> QED BY <2>4, <2>5
<1> DEFINE b == [i \in 0 .. n |-> e[i].buf]
<1>14. \A i \in 0 .. n : b[i] = e[i].buf
  OBVIOUS
<1> HIDE DEF b
<1>15. Serving(b, r, s)
  <2>1. b[n] = << >> /\ r[n] = << >>
    <3>1. n \in 0 .. n
      OBVIOUS
    <3> QED BY <1>8, <1>11, <1>14, <3>1
  <2>2. \A i \in 0 .. n : b[i] \in Seq(Byte) /\ r[i] \in Commands
    BY <1>7, <1>13, <1>14
  <2>3. ASSUME NEW i \in 1 .. n
        PROVE  /\ b[i] = OneByte(b[i - 1], s[i]).buf
               /\ r[i - 1] = OneByte(b[i - 1], s[i]).run \o r[i]
    <3>1. i - 1 \in 0 .. n /\ i \in 0 .. n
      BY <1>5
    <3>2. r[i - 1] = one(i).run \o r[i]
      BY <1>12, <1>13, <3>1
    <3>3. b[i] = one(i).buf
      BY <1>6, <1>14, <3>1
    <3>4. one(i) = OneByte(b[i - 1], s[i])
      BY <1>14, <3>1 DEF one
    <3> QED BY <3>2, <3>3, <3>4
  <2> QED BY <1>2, <2>1, <2>2, <2>3 DEF Serving
<1>16. b[0] = << >> /\ r[0] = R
  <2>1. 0 \in 0 .. n
    OBVIOUS
  <2>2. e[0].run = << >> /\ e[0].buf = << >>
    BY <1>1
  <2>3. R = << >> \o R
    BY <1>8 DEF Commands
  <2> QED BY <1>8, <1>9, <1>14, <2>1, <2>2, <2>3
<1> QED BY <1>15, <1>16 DEF Serves

-----------------------------------------------------------------------------
(* The elements at the places in a set.                                    *)

LEMMA PlacesAreFinite ==
  ASSUME NEW n \in Nat, NEW K \in SUBSET (1 .. n)
  PROVE  IsFiniteSet(K) /\ Cardinality(K) \in 0 .. n
<1>1. IsFiniteSet(1 .. n) /\ Cardinality(1 .. n) = n
  <2>1. n = IF 1 > n THEN 0 ELSE n - 1 + 1
    OBVIOUS
  <2> QED BY <2>1, FS_Interval
<1>2. IsFiniteSet(K) /\ Cardinality(K) <= n
  BY <1>1, FS_Subset
<1> QED BY <1>2, FS_CardinalityType

LEMMA ExtractNone == \A s : Extract(s, {}) = << >>
<1> SUFFICES ASSUME NEW s PROVE Extract(s, {}) = << >>
  OBVIOUS
<1>1. Cardinality({}) = 0
  BY FS_EmptySet
<1> QED BY <1>1 DEF Extract

\* A place behind all others gives the last element.
LEMMA ExtractGrows ==
  ASSUME NEW n \in Nat, NEW K \in SUBSET (1 .. n), NEW m \in Nat, m > n, NEW s
  PROVE  Extract(s, K \cup {m}) = Append(Extract(s, K), s[m])
<1> DEFINE L == K \cup {m}
           Rank(i) == Cardinality({j \in K : j <= i})
           RankL(i) == Cardinality({j \in L : j <= i})
           Place(k) == {i \in K : Rank(i) = k}
           PlaceL(k) == {i \in L : RankL(i) = k}
<1>1. PICK c \in Nat : c = Cardinality(K)
  BY PlacesAreFinite
<1>2. Cardinality(L) = c + 1
  BY <1>1, PlacesAreFinite, FS_AddElement
<1>3. ASSUME NEW i \in K PROVE RankL(i) = Rank(i)
  <2>1. {j \in L : j <= i} = {j \in K : j <= i}
    OBVIOUS
  <2> QED BY <2>1
<1>4. RankL(m) = c + 1
  <2>1. {j \in L : j <= m} = L
    <3>1. \A j \in L : j <= m
      OBVIOUS
    <3> HIDE DEF L
    <3> QED BY <3>1
  <2> HIDE DEF L
  <2> QED BY <1>2, <2>1
<1>5. ASSUME NEW i \in K PROVE Rank(i) \in 0 .. c
  <2>1. {j \in K : j <= i} \in SUBSET K
    OBVIOUS
  <2>2. IsFiniteSet({j \in K : j <= i}) /\ Rank(i) <= c
    BY <1>1, <2>1, PlacesAreFinite, FS_Subset
  <2>3. Rank(i) \in Nat
    BY <2>2, FS_CardinalityType
  <2> HIDE DEF Rank
  <2> QED BY <2>2, <2>3
<1> HIDE DEF Rank, RankL
<1>6. ASSUME NEW k \in 1 .. c PROVE PlaceL(k) = Place(k)
  <2>1. k # c + 1
    OBVIOUS
  <2> QED BY <1>3, <1>4, <2>1
<1>7. PlaceL(c + 1) = {m}
  <2>1. \A i \in K : RankL(i) # c + 1
    BY <1>3, <1>5
  <2> QED BY <1>4, <2>1
<1>8. Min({m}) = m
  BY DEF Min
<1>9. /\ Extract(s, K) = [k \in 1 .. c |-> s[Min(Place(k))]]
      /\ Extract(s, L) = [k \in 1 .. c + 1 |-> s[Min(PlaceL(k))]]
  BY <1>1, <1>2 DEF Extract, Rank, RankL
<1> HIDE DEF L, Place, PlaceL
<1> DEFINE f == [k \in 1 .. c |-> s[Min(Place(k))]]
           g == [k \in 1 .. c + 1 |-> s[Min(PlaceL(k))]]
<1>10. /\ \A k \in 1 .. c : g[k] = f[k]
       /\ g[c + 1] = s[m]
  <2>1. \A k \in 1 .. c : k \in 1 .. c + 1 /\ PlaceL(k) = Place(k)
    BY <1>6
  <2>2. c + 1 \in 1 .. c + 1
    OBVIOUS
  <2> QED BY <1>7, <1>8, <2>1, <2>2
<1>11. g = Append(f, s[m])
  <2> DEFINE S == {f[k] : k \in 1 .. c} \cup {s[m]}
  <2>1. f \in Seq(S) /\ Len(f) = c
    <3>1. f \in [1 .. c -> S]
      OBVIOUS
    <3> HIDE DEF f, S
    <3> QED BY <3>1
  <2>2. g = [k \in 1 .. c + 1 |-> g[k]]
    OBVIOUS
  <2>3. s[m] \in S
    OBVIOUS
  <2> HIDE DEF f, g, S
  <2>4. g \in Seq(S) /\ Len(g) = c + 1
    <3>1. \A k \in 1 .. c : f[k] \in S
      BY <2>1
    <3>2. \A k \in 1 .. c + 1 : g[k] \in S
      BY <1>10, <2>3, <3>1
    <3>3. g \in [1 .. c + 1 -> S]
      BY <2>2, <3>2
    <3> QED BY <3>3
  <2>5. Append(f, s[m]) \in Seq(S) /\ Len(Append(f, s[m])) = c + 1
        /\ \A k \in 1 .. c + 1 : Append(f, s[m])[k] = g[k]
    BY <1>10, <2>1, <2>3, AppendProperties
  <2> QED BY <2>4, <2>5, SeqEqual
<1> QED BY <1>9, <1>11 DEF L

\* What holds of no places, and of one more behind the last, holds of all.
LEMMA ExtractLemma ==
  ASSUME NEW n \in Nat, NEW K \in SUBSET (1 .. n), NEW S, NEW s, \A i \in K : s[i] \in S
  PROVE  Extract(s, K) \in Seq(S) /\ Len(Extract(s, K)) = Cardinality(K)
<1> DEFINE T == {i \in 0 .. n : Extract(s, K \cap (1 .. i)) \in Seq(S)}
<1>1. 0 \in T
  <2>1. K \cap (1 .. 0) = {} /\ << >> \in Seq(S) /\ 0 \in 0 .. n
    OBVIOUS
  <2>2. Extract(s, K \cap (1 .. 0)) \in Seq(S)
    BY <2>1, ExtractNone, Zenon
  <2> QED BY <2>1, <2>2
<1>2. ASSUME NEW i \in 1 .. n, i - 1 \in T PROVE i \in T
  <2>1. PICK k \in Nat : k = i - 1 /\ k < i /\ i \in Nat /\ i \in 0 .. n
    OBVIOUS
  <2>2. PICK L \in SUBSET (1 .. k) : L = K \cap (1 .. k)
    OBVIOUS
  <2>3. Extract(s, L) \in Seq(S)
    BY <1>2, <2>1, <2>2
  <2>4. Extract(s, K \cap (1 .. i)) \in Seq(S)
    <3>1. CASE i \in K
      <4>1. K \cap (1 .. i) = L \cup {i}
        BY <2>1, <2>2, <3>1
      <4>2. Extract(s, L \cup {i}) = Append(Extract(s, L), s[i])
        BY <2>1, ExtractGrows
      <4>3. PICK x : x = Extract(s, L)
        OBVIOUS
      <4>4. Append(x, s[i]) \in Seq(S)
        BY <2>3, <3>1, <4>3, AppendProperties
      <4> QED BY <4>1, <4>2, <4>3, <4>4, Zenon
    <3>2. CASE i \notin K
      <4>1. K \cap (1 .. i) = L
        BY <2>1, <2>2, <3>2
      <4> QED BY <2>3, <4>1
    <3> QED BY <3>1, <3>2
  <2> QED BY <2>1, <2>4
<1> HIDE DEF T
<1>3. n \in T
  <2>1. \A i \in 0 .. n : i \in T
    BY <1>1, <1>2, UpTo
  <2> QED BY <2>1
<1>4. K \cap (1 .. n) = K
  OBVIOUS
<1>5. Extract(s, K) \in Seq(S)
  BY <1>3, <1>4 DEF T
<1>6. Cardinality(K) \in Nat
  BY PlacesAreFinite
<1>7. Len(Extract(s, K)) = Cardinality(K)
  <2>1. DOMAIN Extract(s, K) = 1 .. Cardinality(K)
    BY DEF Extract
  <2> QED BY <1>5, <1>6, <2>1, LenProperties
<1> QED BY <1>5, <1>7

\* Only these places matter.
LEMMA ExtractSame ==
  ASSUME NEW n \in Nat, NEW K \in SUBSET (1 .. n), NEW s, NEW t, \A i \in K : s[i] = t[i]
  PROVE  Extract(s, K) = Extract(t, K)
<1> DEFINE T == {i \in 0 .. n : Extract(s, K \cap (1 .. i)) = Extract(t, K \cap (1 .. i))}
<1>1. 0 \in T
  <2>1. K \cap (1 .. 0) = {}
    OBVIOUS
  <2> QED BY <2>1, ExtractNone
<1>2. ASSUME NEW i \in 1 .. n, i - 1 \in T PROVE i \in T
  <2>1. PICK k \in Nat : k = i - 1 /\ k < i /\ i \in Nat /\ i \in 0 .. n
    OBVIOUS
  <2>2. PICK L \in SUBSET (1 .. k) : L = K \cap (1 .. k)
    OBVIOUS
  <2>3. Extract(s, L) = Extract(t, L)
    BY <1>2, <2>1, <2>2
  <2>4. Extract(s, K \cap (1 .. i)) = Extract(t, K \cap (1 .. i))
    <3>1. CASE i \in K
      <4>1. K \cap (1 .. i) = L \cup {i} /\ s[i] = t[i]
        BY <2>1, <2>2, <3>1
      <4>2. /\ Extract(s, L \cup {i}) = Append(Extract(s, L), s[i])
            /\ Extract(t, L \cup {i}) = Append(Extract(t, L), t[i])
        BY <2>1, ExtractGrows
      <4> QED BY <2>3, <4>1, <4>2, Zenon
    <3>2. CASE i \notin K
      <4>1. K \cap (1 .. i) = L
        BY <2>1, <2>2, <3>2
      <4> QED BY <2>3, <4>1
    <3> QED BY <3>1, <3>2
  <2> QED BY <2>1, <2>4
<1> HIDE DEF T
<1>3. n \in T
  <2>1. \A i \in 0 .. n : i \in T
    BY <1>1, <1>2, UpTo
  <2> QED BY <2>1
<1>4. K \cap (1 .. n) = K
  OBVIOUS
<1> QED BY <1>3, <1>4 DEF T

-----------------------------------------------------------------------------
(* What is left when bytes are erased.                                     *)

Erasures(s, i, j) == Cardinality({k \in i + 1 .. j : s[k] = "BS"})

LEMMA ErasuresCount ==
  ASSUME NEW s, NEW i \in Nat, NEW j \in Nat
  PROVE  /\ Erasures(s, i, j) \in Nat
         /\ IsFiniteSet({k \in i + 1 .. j : s[k] = "BS"})
<1> DEFINE B == {k \in i + 1 .. j : s[k] = "BS"}
<1>1. IsFiniteSet(i + 1 .. j)
  BY FS_Interval
<1>2. B \in SUBSET (i + 1 .. j)
  OBVIOUS
<1>3. IsFiniteSet(B)
  BY <1>1, <1>2, FS_Subset
<1> QED BY <1>3, FS_CardinalityType DEF Erasures

LEMMA NoErasures == \A s : \A i \in Nat : Erasures(s, i, i) = 0
<1> SUFFICES ASSUME NEW s, NEW i \in Nat PROVE Erasures(s, i, i) = 0
  OBVIOUS
<1>1. {k \in i + 1 .. i : s[k] = "BS"} = {}
  OBVIOUS
<1> QED BY <1>1, FS_EmptySet DEF Erasures

LEMMA ErasuresApart ==
  ASSUME NEW s, NEW i \in Nat, NEW m \in Nat, NEW j \in Nat, i <= m, m <= j
  PROVE  Erasures(s, i, j) = Erasures(s, i, m) + Erasures(s, m, j)
<1> DEFINE B == {k \in i + 1 .. m : s[k] = "BS"}
           C == {k \in m + 1 .. j : s[k] = "BS"}
<1>1. IsFiniteSet(B) /\ IsFiniteSet(C)
  BY ErasuresCount
<1>2. B \cup C = {k \in i + 1 .. j : s[k] = "BS"} /\ B \cap C = {}
  OBVIOUS
<1>3. Cardinality(B) \in Nat /\ Cardinality(C) \in Nat
  BY <1>1, FS_CardinalityType
<1> HIDE DEF B, C
<1>4. Cardinality(B \cup C) = Cardinality(B) + Cardinality(C)
  BY <1>1, <1>2, <1>3, FS_Union, FS_EmptySet
<1> QED BY <1>2, <1>4 DEF Erasures, B, C

LEMMA OneMoreErasure ==
  ASSUME NEW s, NEW j \in Nat
  PROVE  Erasures(s, j, j + 1) = IF s[j + 1] = "BS" THEN 1 ELSE 0
<1>1. {k \in j + 1 .. j + 1 : s[k] = "BS"} = IF s[j + 1] = "BS" THEN {j + 1} ELSE {}
  OBVIOUS
<1>2. Cardinality({j + 1}) = 1
  BY FS_Singleton
<1> QED BY <1>1, <1>2, FS_EmptySet DEF Erasures

LEMMA ErasuresSame ==
  ASSUME NEW s, NEW t, NEW i \in Nat, NEW j \in Nat, \A k \in i + 1 .. j : s[k] = t[k]
  PROVE  Erasures(s, i, j) = Erasures(t, i, j)
<1>1. {k \in i + 1 .. j : s[k] = "BS"} = {k \in i + 1 .. j : t[k] = "BS"}
  OBVIOUS
<1> QED BY <1>1 DEF Erasures

\* A survivor is not outweighed by what follows, nothing at all included.
LEMMA SurvivesTo ==
  ASSUME NEW s \in Seq(Byte), NEW i \in 1 .. Len(s)
  PROVE  Survives(s, i) <=> /\ s[i] # "BS"
                            /\ \A j \in i .. Len(s) : 2 * Erasures(s, i, j) <= j - i
<1>1. PICK n \in Nat : n = Len(s)
  OBVIOUS
<1>2. Erasures(s, i, i) = 0
  BY NoErasures
<1>3. Survives(s, i) <=> /\ s[i] # "BS"
                         /\ \A j \in i + 1 .. n : 2 * Erasures(s, i, j) <= j - i
  BY <1>1 DEF Survives, Erasures
<1>4. \A j \in i .. n : j = i \/ j \in i + 1 .. n
  OBVIOUS
<1>5. \A j \in i + 1 .. n : j \in i .. n
  OBVIOUS
<1> QED BY <1>1, <1>2, <1>3, <1>4, <1>5

\* One more byte: if it erases, a survivor must have one to spare.
LEMMA KeptNext ==
  ASSUME NEW s \in Seq(Byte), NEW c \in Byte
  PROVE  Kept(Append(s, c)) =
           IF c # "BS" THEN Kept(s) \cup {Len(s) + 1}
           ELSE {i \in Kept(s) : 2 * Erasures(s, i, Len(s)) < Len(s) - i}
<1>1. PICK n \in Nat : n = Len(s)
  OBVIOUS
<1>2. PICK t : t = Append(s, c)
  OBVIOUS
<1>3. t \in Seq(Byte) /\ Len(t) = n + 1 /\ t[n + 1] = c /\ \A k \in 1 .. n : t[k] = s[k]
  BY <1>1, <1>2, AppendProperties
<1>4. ASSUME NEW i \in 1 .. n
      PROVE  Survives(t, i) <=>
               Survives(s, i) /\ (c = "BS" => 2 * Erasures(s, i, n) < n - i)
  <2>0. i \in Nat /\ n \in i .. n /\ i <= n /\ n <= n + 1 /\ n + 1 \in Nat
    OBVIOUS
  <2>1. \A j \in i .. n : Erasures(t, i, j) = Erasures(s, i, j)
    <3> SUFFICES ASSUME NEW j \in i .. n PROVE Erasures(t, i, j) = Erasures(s, i, j)
      OBVIOUS
    <3> QED BY <1>3, ErasuresSame
  <2>2. PICK e \in Nat : e = Erasures(s, i, n)
    BY <2>0, ErasuresCount
  <2>3. Erasures(t, i, n + 1) = e + (IF c = "BS" THEN 1 ELSE 0)
    <3>1. Erasures(t, n, n + 1) = IF c = "BS" THEN 1 ELSE 0
      BY <1>3, OneMoreErasure
    <3>2. Erasures(t, i, n + 1) = Erasures(t, i, n) + Erasures(t, n, n + 1)
      BY <2>0, ErasuresApart
    <3>3. Erasures(t, i, n) = e
      BY <2>0, <2>1, <2>2
    <3> QED BY <3>1, <3>2, <3>3
  <2>4. (\A j \in i .. n + 1 : 2 * Erasures(t, i, j) <= j - i)
          <=> /\ \A j \in i .. n : 2 * Erasures(s, i, j) <= j - i
              /\ c = "BS" => 2 * e < n - i
    <3>1. \A j \in i .. n + 1 : j \in i .. n \/ j = n + 1
      OBVIOUS
    <3>2. n + 1 \in i .. n + 1 /\ \A j \in i .. n : j \in i .. n + 1
      OBVIOUS
    <3>3. 2 * e <= n - i => /\ (c = "BS" => 2 * e < n - i)
                                 <=> 2 * Erasures(t, i, n + 1) <= (n + 1) - i
      BY <2>3
    <3> QED BY <2>0, <2>1, <2>2, <3>1, <3>2, <3>3
  <2>5. i \in 1 .. Len(t) /\ i \in 1 .. Len(s) /\ t[i] = s[i]
    BY <1>1, <1>3
  <2> QED BY <1>1, <1>3, <2>2, <2>4, <2>5, SurvivesTo
<1>5. Survives(t, n + 1) <=> c # "BS"
  BY <1>3 DEF Survives
<1>6. DOMAIN t = 1 .. n + 1 /\ DOMAIN s = 1 .. n
  BY <1>1, <1>3
<1>7. \A i \in 1 .. n + 1 : i \in 1 .. n \/ i = n + 1
  OBVIOUS
<1> QED BY <1>1, <1>2, <1>4, <1>5, <1>6, <1>7 DEF Kept

\* Only the last survivor has none to spare.
LEMMA LastSurvivor ==
  ASSUME NEW s \in Seq(Byte), NEW m \in Kept(s), \A i \in Kept(s) : i <= m
  PROVE  {i \in Kept(s) : 2 * Erasures(s, i, Len(s)) < Len(s) - i} = Kept(s) \ {m}
<1>1. PICK n \in Nat : n = Len(s)
  OBVIOUS
<1>2. \A i \in Kept(s) :
        /\ i \in 1 .. n /\ i \in Nat /\ s[i] # "BS"
        /\ \A j \in i .. n : 2 * Erasures(s, i, j) <= j - i
  <2> SUFFICES ASSUME NEW i \in Kept(s)
               PROVE  /\ i \in 1 .. n /\ i \in Nat /\ s[i] # "BS"
                      /\ \A j \in i .. n : 2 * Erasures(s, i, j) <= j - i
    OBVIOUS
  <2>1. i \in 1 .. Len(s) /\ Survives(s, i)
    BY DEF Kept
  <2> QED BY <1>1, <2>1, SurvivesTo
<1>3. ASSUME NEW i \in Kept(s), i # m PROVE 2 * Erasures(s, i, n) < n - i
  <2>1. /\ i \in Nat /\ m \in Nat /\ m - 1 \in Nat /\ (m - 1) + 1 = m /\ i <= m - 1 /\ m - 1 <= m
        /\ m <= n /\ i <= m /\ m - 1 \in i .. n /\ n \in m .. n
    BY <1>2, <1>3
  <2>2. Erasures(s, i, n) = Erasures(s, i, m) + Erasures(s, m, n)
    BY <2>1, ErasuresApart
  <2>3. Erasures(s, i, m) = Erasures(s, i, m - 1) + Erasures(s, m - 1, m)
    BY <2>1, ErasuresApart
  <2>4. Erasures(s, m - 1, m) = 0
    BY <1>2, <2>1, OneMoreErasure
  <2>5. 2 * Erasures(s, i, m - 1) <= (m - 1) - i /\ 2 * Erasures(s, m, n) <= n - m
    BY <1>2, <2>1
  <2>6. Erasures(s, i, m - 1) \in Nat /\ Erasures(s, m, n) \in Nat
    BY <2>1, ErasuresCount
  <2> QED BY <2>1, <2>2, <2>3, <2>4, <2>5, <2>6
<1>4. ~ (2 * Erasures(s, m, n) < n - m)
  <2> SUFFICES ASSUME 2 * Erasures(s, m, n) < n - m PROVE FALSE
    OBVIOUS
  <2>0. m \in Nat /\ m \in 1 .. n
    BY <1>2
  <2> DEFINE J == {j \in m .. n : 2 * Erasures(s, m, j) = j - m}
  <2>1. m \in J
    BY <2>0, NoErasures
  <2>2. PICK a \in J : \A j \in J : j <= a
    <3>1. J \in SUBSET (0 .. n)
      BY <2>0
    <3> HIDE DEF J
    <3> QED BY <2>1, <3>1, GreatestExists
  <2>3. /\ a \in Nat /\ a \in m .. n /\ 2 * Erasures(s, m, a) = a - m /\ a < n
        /\ \A j \in a + 1 .. n : j \in m .. n /\ j \notin J /\ j \in Nat
    BY <2>0, <2>2
  <2>4. ASSUME NEW j \in a + 1 .. n PROVE 2 * Erasures(s, a, j) < j - a
    <3>1. 2 * Erasures(s, m, j) <= j - m /\ 2 * Erasures(s, m, j) # j - m
      BY <1>2, <2>3
    <3>2. Erasures(s, m, j) = Erasures(s, m, a) + Erasures(s, a, j)
      BY <2>0, <2>3, ErasuresApart
    <3>3. PICK x \in Nat : x = Erasures(s, m, a)
      BY <2>0, <2>3, ErasuresCount
    <3>4. PICK y \in Nat : y = Erasures(s, a, j)
      BY <2>3, ErasuresCount
    <3>5. 2 * (x + y) <= j - m /\ 2 * (x + y) # j - m /\ 2 * x = a - m
      BY <2>3, <3>1, <3>2, <3>3, <3>4
    <3>6. 2 * y < j - a
      BY <2>0, <2>3, <3>5
    <3> QED BY <3>4, <3>6
  <2>5. Erasures(s, a, a + 1) = 0 /\ s[a + 1] # "BS"
    <3>1. 2 * Erasures(s, a, a + 1) < (a + 1) - a
      BY <2>3, <2>4
    <3>2. Erasures(s, a, a + 1) = IF s[a + 1] = "BS" THEN 1 ELSE 0
      BY <2>3, OneMoreErasure
    <3> QED BY <2>3, <3>1, <3>2
  <2>6. ASSUME NEW j \in a + 1 .. n PROVE 2 * Erasures(s, a + 1, j) <= j - (a + 1)
    <3>1. Erasures(s, a, j) = Erasures(s, a, a + 1) + Erasures(s, a + 1, j)
      BY <2>3, ErasuresApart
    <3>2. Erasures(s, a + 1, j) \in Nat /\ 2 * Erasures(s, a, j) < j - a
      <4>1. a + 1 \in Nat /\ j \in Nat
        BY <2>3
      <4> QED BY <2>4, <4>1, ErasuresCount
    <3> QED BY <2>3, <2>5, <3>1, <3>2
  <2>7. a + 1 \in 1 .. Len(s)
    BY <1>1, <2>3
  <2>8. a + 1 \in Kept(s)
    BY <1>1, <2>5, <2>6, <2>7, SurvivesTo DEF Kept
  <2> QED BY <2>0, <2>3, <2>8
<1> QED BY <1>1, <1>3, <1>4

-----------------------------------------------------------------------------
(* The editor does what was meant.                                         *)

LEMMA KeptFacts ==
  ASSUME NEW s \in Seq(Byte)
  PROVE  /\ Kept(s) \in SUBSET (1 .. Len(s))
         /\ Extract(s, Kept(s)) \in Seq(Byte) /\ Len(Extract(s, Kept(s))) <= Len(s)
<1>1. PICK n \in Nat : n = Len(s) /\ DOMAIN s = 1 .. n
  OBVIOUS
<1>2. PICK K \in SUBSET (1 .. n) : K = Kept(s)
  BY <1>1 DEF Kept
<1>3. \A i \in K : s[i] \in Byte
  BY <1>1, <1>2, ElementOfSeq
<1>4. Extract(s, K) \in Seq(Byte) /\ Len(Extract(s, K)) = Cardinality(K)
  BY <1>3, ExtractLemma
<1>5. Cardinality(K) \in 0 .. n
  BY PlacesAreFinite
<1> QED BY <1>1, <1>2, <1>4, <1>5

\* Room for a text, or its beginning.
Fit(text) == SubSeq(text, 1, Min({Len(text), SHELL_BUF_SIZE - 1}))

LEMMA FitLemma ==
  ASSUME NEW s \in Seq(Byte)
  PROVE  /\ Len(s) <= SHELL_BUF_SIZE - 1 => Fit(s) = s
         /\ ~ (Len(s) < SHELL_BUF_SIZE - 1) =>
              /\ Len(Fit(s)) = SHELL_BUF_SIZE - 1
              /\ \A c \in Byte : Fit(Append(s, c)) = Fit(s)
<1>1. PICK room \in Nat : room = SHELL_BUF_SIZE - 1
  BY EditorAssumption
<1>2. PICK n \in Nat : n = Len(s)
  OBVIOUS
<1>3. Fit(s) = SubSeq(s, 1, IF n <= room THEN n ELSE room)
  <2>1. Min({n, room}) = IF n <= room THEN n ELSE room
    BY TwoNumbers
  <2> QED BY <1>1, <1>2, <2>1, Zenon DEF Fit
<1>4. ASSUME n <= room PROVE Fit(s) = s
  BY <1>2, <1>3, <1>4, SubSeqFull
<1>5. ASSUME ~ (n < room)
      PROVE  Len(Fit(s)) = room /\ \A c \in Byte : Fit(Append(s, c)) = Fit(s)
  <2>1. Fit(s) = SubSeq(s, 1, room)
    BY <1>3, <1>5
  <2>2. ASSUME NEW c \in Byte PROVE Fit(Append(s, c)) = Fit(s)
    <3>1. PICK t : t = Append(s, c)
      OBVIOUS
    <3>2. t \in Seq(Byte) /\ Len(t) = n + 1 /\ \A i \in 1 .. n : t[i] = s[i]
      BY <1>2, <3>1, AppendProperties
    <3>3. Fit(t) = SubSeq(t, 1, room)
      <4>1. Min({n + 1, room}) = room
        BY <1>5, TwoNumbers
      <4> QED BY <1>1, <3>2, <4>1 DEF Fit
    <3>4. SubSeq(t, 1, room) = SubSeq(s, 1, room)
      <4>1. \A i \in 1 .. room : t[i] = s[i] /\ s[i] \in Byte
        BY <1>2, <1>5, <3>2, ElementOfSeq
      <4> QED BY <1>2, <1>5, <3>2, <4>1
    <3> QED BY <2>1, <3>1, <3>3, <3>4
  <2>3. Len(SubSeq(s, 1, room)) = room
    BY <1>2, <1>5
  <2> QED BY <2>1, <2>2, <2>3
<1> QED BY <1>1, <1>2, <1>4, <1>5

\* LineEditor::feed with a byte that does not end a line.
LEMMA EditedAsMeant ==
  ASSUME NEW s \in Seq(Byte), NEW c \in Byte, c = "BS" => Len(s) < SHELL_BUF_SIZE
  PROVE  Meant(Append(s, c)) = Edit(Meant(s), c)
<1>1. PICK room \in Nat : room = SHELL_BUF_SIZE - 1
  BY EditorAssumption
<1>2. PICK n \in Nat : n = Len(s)
  OBVIOUS
<1>3. PICK t : t = Append(s, c)
  OBVIOUS
<1>4. t \in Seq(Byte) /\ Len(t) = n + 1 /\ t[n + 1] = c /\ \A i \in 1 .. n : t[i] = s[i]
  BY <1>2, <1>3, AppendProperties
<1>5. PICK K \in SUBSET (1 .. n) : K = Kept(s)
  BY <1>2, KeptFacts
<1>6. PICK text \in Seq(Byte) : text = Extract(s, K) /\ Len(text) <= n
  BY <1>2, <1>5, KeptFacts
<1>7. Meant(s) = Fit(text)
  BY <1>5, <1>6 DEF Meant, Fit
<1>8. CASE c # "BS"
  <2>1. Kept(t) = K \cup {n + 1}
    BY <1>2, <1>3, <1>5, <1>8, KeptNext
  <2>2. Extract(t, K) = text
    <3>1. \A i \in K : s[i] = t[i]
      BY <1>4
    <3> QED BY <1>6, <3>1, ExtractSame
  <2>3. Extract(t, K \cup {n + 1}) = Append(text, c)
    <3>1. n + 1 \in Nat /\ n + 1 > n
      OBVIOUS
    <3>2. Extract(t, K \cup {n + 1}) = Append(Extract(t, K), t[n + 1])
      BY <3>1, ExtractGrows
    <3> QED BY <1>4, <2>2, <3>2
  <2>4. Meant(t) = Fit(Append(text, c))
    BY <2>1, <2>3 DEF Meant, Fit
  <2>5. CASE Len(text) < room
    <3>1. Append(text, c) \in Seq(Byte) /\ Len(Append(text, c)) <= room /\ Len(text) <= room
      BY <1>1, <2>5
    <3>2. Fit(Append(text, c)) = Append(text, c) /\ Fit(text) = text
      BY <1>1, <3>1, FitLemma
    <3>3. Edit(text, c) = Append(text, c)
      BY <1>1, <1>8, <2>5 DEF Edit
    <3> QED BY <1>3, <1>7, <2>4, <3>2, <3>3
  <2>6. CASE ~ (Len(text) < room)
    <3>1. Len(Fit(text)) = room /\ Fit(Append(text, c)) = Fit(text)
      BY <1>1, <2>6, FitLemma
    <3>2. Edit(Fit(text), c) = Fit(text)
      BY <1>1, <1>8, <3>1 DEF Edit
    <3> QED BY <1>3, <1>7, <2>4, <3>1, <3>2
  <2> QED BY <2>5, <2>6
<1>9. CASE c = "BS"
  <2>1. Kept(t) = {i \in K : 2 * Erasures(s, i, Len(s)) < Len(s) - i}
    BY <1>3, <1>5, <1>9, KeptNext
  <2>2. Len(text) <= room
    <3>1. Len(s) < SHELL_BUF_SIZE
      BY <1>9
    <3> QED BY <1>1, <1>2, <1>6, <3>1, EditorAssumption
  <2>3. Meant(s) = text
    BY <1>1, <1>7, <2>2, FitLemma
  <2>4. Edit(text, c) = SubSeq(text, 1, Len(text) - 1)
    BY <1>9 DEF Edit
  <2>5. CASE K = {}
    <3>1. Kept(t) = {} /\ text = << >>
      BY <1>6, <2>1, <2>5, ExtractNone
    <3>2. Meant(t) = Fit(<< >>)
      BY <3>1, ExtractNone DEF Meant, Fit
    <3>3. Fit(<< >>) = << >>
      <4>1. << >> \in Seq(Byte) /\ Len(<< >>) = 0 /\ 0 <= SHELL_BUF_SIZE - 1
        BY <1>1
      <4> QED BY <4>1, FitLemma
    <3>4. SubSeq(text, 1, Len(text) - 1) = << >>
      BY <3>1, SubSeqEmpty
    <3> QED BY <1>3, <2>3, <2>4, <3>2, <3>3, <3>4
  <2>6. CASE K # {}
    <3>1. PICK m \in K : \A i \in K : i <= m
      <4>1. K \in SUBSET (0 .. n)
        OBVIOUS
      <4> QED BY <2>6, <4>1, GreatestExists
    <3>2. PICK k \in Nat : k = m - 1 /\ m > k /\ m \in Nat
      <4>1. m - 1 \in Nat /\ m > m - 1 /\ m \in Nat
        OBVIOUS
      <4> QED BY <4>1
    <3>3. PICK L \in SUBSET (1 .. k) : L = K \ {m}
      <4>1. K \ {m} \in SUBSET (1 .. k)
        BY <3>1, <3>2
      <4> QED BY <4>1
    <3>4. Kept(t) = L
      BY <1>5, <2>1, <3>1, <3>3, LastSurvivor
    <3>5. PICK rest \in Seq(Byte) : rest = Extract(t, L) /\ rest = Extract(s, L)
      <4>1. \A i \in L : s[i] = t[i] /\ s[i] \in Byte
        BY <1>2, <1>4, <3>3, ElementOfSeq
      <4>2. Extract(s, L) = Extract(t, L) /\ Extract(s, L) \in Seq(Byte)
        BY <4>1, ExtractSame, ExtractLemma
      <4> QED BY <4>2
    <3>6. text = Append(rest, s[m])
      <4>1. K = L \cup {m}
        BY <3>3
      <4>2. Extract(s, L \cup {m}) = Append(Extract(s, L), s[m])
        BY <3>2, ExtractGrows
      <4> QED BY <1>6, <3>5, <4>1, <4>2, Zenon
    <3>7. s[m] \in Byte
      BY <1>2, ElementOfSeq
    <3>8. Len(text) = Len(rest) + 1 /\ SubSeq(text, 1, Len(text) - 1) = rest
      <4>1. Len(text) = Len(rest) + 1 /\ \A i \in 1 .. Len(rest) : text[i] = rest[i]
        BY <3>6, <3>7, AppendProperties
      <4>2. Len(text) - 1 = Len(rest)
        BY <4>1
      <4>3. SubSeq(text, 1, Len(rest)) = rest
        BY <4>1
      <4> QED BY <4>1, <4>2, <4>3
    <3>9. Fit(rest) = rest
      <4>1. Len(rest) <= room
        BY <2>2, <3>8
      <4> QED BY <1>1, <4>1, FitLemma
    <3>10. Meant(t) = Fit(rest)
      BY <3>4, <3>5 DEF Meant, Fit
    <3> QED BY <1>3, <2>3, <2>4, <3>8, <3>9, <3>10
  <2> QED BY <2>5, <2>6
<1> QED BY <1>8, <1>9

LEMMA NothingMeant == Meant(<< >>) = << >>
<1>1. << >> \in Seq(Byte) /\ Len(<< >>) = 0 /\ 0 <= SHELL_BUF_SIZE - 1
  BY EditorAssumption
<1>2. Kept(<< >>) = {}
  BY DEF Kept
<1>3. Fit(<< >>) = << >>
  BY <1>1, FitLemma
<1> QED BY <1>2, <1>3, ExtractNone DEF Meant, Fit

-----------------------------------------------------------------------------
(* Lines in a text.                                                        *)

LEMMA BegunLemma ==
  ASSUME NEW text \in Seq(Byte), NEW i \in 1 .. Len(text)
  PROVE  /\ Begun(text, i - 1) \in Seq(Byte) /\ Len(Begun(text, i - 1)) <= i - 1
         /\ Begun(text, i) = IF EndsLine(text[i]) THEN << >>
                             ELSE Append(Begun(text, i - 1), text[i])
<1>1. PICK k \in Nat : k = i - 1 /\ k + 1 = i /\ i \in Nat /\ k < i
  OBVIOUS
<1>2. PICK n \in Nat : n = Len(text) /\ i <= n
  OBVIOUS
<1> DEFINE E(j) == {0} \cup {x \in 1 .. j : text[x] \in {"LF", "CR"}}
<1>3. \A j \in Nat : Max(E(j)) \in E(j) /\ \A y \in E(j) : y <= Max(E(j))
  <2> SUFFICES ASSUME NEW j \in Nat PROVE Max(E(j)) \in E(j) /\ \A y \in E(j) : y <= Max(E(j))
    OBVIOUS
  <2>1. E(j) \in SUBSET (0 .. j) /\ E(j) # {}
    OBVIOUS
  <2> HIDE DEF E
  <2> QED BY <2>1, GreatestExists
<1>4. PICK m \in 0 .. k : m = Max(E(k))
  <2>1. E(k) \subseteq 0 .. k
    OBVIOUS
  <2> HIDE DEF E
  <2> QED BY <1>3, <2>1
<1>5. Begun(text, k) = SubSeq(text, m + 1, k) /\ Begun(text, i) = SubSeq(text, Max(E(i)) + 1, i)
  BY <1>4 DEF Begun
<1>6. /\ SubSeq(text, m + 1, k) \in Seq(Byte) /\ Len(SubSeq(text, m + 1, k)) <= k
  <2>1. m + 1 \in Int /\ k \in Int /\ k - (m + 1) + 1 <= k /\ 0 <= k
    BY <1>1, <1>4
  <2>2. \A x \in m + 1 .. k : text[x] \in Byte
    BY <1>1, <1>2, <1>4, ElementOfSeq
  <2>3. /\ SubSeq(text, m + 1, k) \in Seq(Byte)
        /\ Len(SubSeq(text, m + 1, k)) = IF m + 1 <= k THEN k - (m + 1) + 1 ELSE 0
    BY <2>1, <2>2, SubSeqProperties
  <2> QED BY <2>1, <2>3
<1>7. CASE EndsLine(text[i])
  <2>1. i \in E(i) /\ \A y \in E(i) : y <= i
    BY <1>1, <1>7 DEF EndsLine
  <2>2. Max(E(i)) \in E(i) /\ \A y \in E(i) : y <= Max(E(i))
    BY <1>1, <1>3
  <2>3. E(i) \subseteq Nat
    BY <1>1
  <2> HIDE DEF E
  <2>4. Max(E(i)) = i
    BY <1>1, <2>1, <2>2, <2>3
  <2>5. SubSeq(text, i + 1, i) = << >>
    BY <1>1, SubSeqEmpty
  <2> QED BY <1>1, <1>5, <1>6, <1>7, <2>4, <2>5
<1>8. CASE ~ EndsLine(text[i])
  <2>1. E(i) = E(k)
    <3>1. \A x \in 1 .. i : x \in 1 .. k \/ x = i
      BY <1>1
    <3>2. \A x \in 1 .. k : x \in 1 .. i
      BY <1>1
    <3> QED BY <1>8, <3>1, <3>2 DEF EndsLine
  <2> HIDE DEF E
  <2>2. SubSeq(text, m + 1, i) = Append(SubSeq(text, m + 1, k), text[i])
    BY <1>1, <1>2, <1>4
  <2> QED BY <1>1, <1>4, <1>5, <1>6, <1>8, <2>1, <2>2
<1> QED BY <1>7, <1>8

LEMMA TakenInCases ==
  ASSUME NEW b, NEW r, NEW c
  PROVE  TakenIn([buf |-> b, run |-> r], c) =
           IF ~EndsLine(c) THEN [buf |-> Edit(b, c), run |-> r]
           ELSE [buf |-> << >>, run |-> IF Valid(b) THEN Append(r, Trim(b)) ELSE r]
BY DEF TakenIn, AfterEnd

\* A line by itself is read as its writer meant it, if bytes that are erased are not
\* among those that do not fit (LineEditor::feed).
LEMMA LineIsRead ==
  ASSUME NEW line \in Seq(Byte), "LF" \in Byte,
         Contains(line, "BS") => Len(line) < SHELL_BUF_SIZE
  PROVE  Handled(Append(line, "LF")) = [buf |-> << >>, run |-> Asked(line)]
<1>1. PICK t : t = Append(line, "LF")
  OBVIOUS
<1>2. PICK n \in Nat : n = Len(line) + 1
  OBVIOUS
<1>3. /\ t \in Seq(Byte) /\ Len(t) = n /\ DOMAIN t = 1 .. n /\ t[n] = "LF" /\ n \in 1 .. n
      /\ \A i \in 1 .. n - 1 : t[i] = line[i]
  BY <1>1, <1>2, AppendProperties
<1>4. PICK w : /\ w[0] = [buf |-> << >>, run |-> << >>]
               /\ \A i \in 1 .. n : w[i] = TakenIn(w[i - 1], t[i])
               /\ Handled(t) = w[n]
  BY <1>3, HandledRounds
<1>5. PICK F : F = [e \in 1 .. n |-> AskedAt(t, e)]
  OBVIOUS
<1>6. PICK R \in SUBSET (1 .. n) :
        \A e \in 1 .. n : e \in R <=> EndsLine(t[e]) /\ Valid(Meant(Begun(t, e - 1)))
  <2>1. Readable(t) \in SUBSET (1 .. n)
        /\ \A e \in 1 .. n :
             e \in Readable(t) <=> EndsLine(t[e]) /\ Valid(Meant(Begun(t, e - 1)))
    BY <1>3 DEF Readable, EndsLine
  <2> QED BY <2>1
<1>7. Asked(line) = Extract(F, R)
  <2>1. R = Readable(t)
    <3>1. Readable(t) \in SUBSET (1 .. n)
          /\ \A e \in 1 .. n :
               e \in Readable(t) <=> EndsLine(t[e]) /\ Valid(Meant(Begun(t, e - 1)))
      BY <1>3 DEF Readable, EndsLine
    <3> QED BY <1>6, <3>1
  <2> QED BY <1>1, <1>3, <1>5, <2>1 DEF Asked
<1> DEFINE e(i) == [buf |-> Meant(Begun(t, i)), run |-> Extract(F, R \cap (1 .. i))]
           T == {i \in 0 .. n : w[i] = e(i)}
<1>8. 0 \in T
  <2>1. Begun(t, 0) = << >>
    <3>1. {0} \cup {j \in 1 .. 0 : t[j] \in {"LF", "CR"}} = {0} /\ Max({0}) = 0
      BY DEF Max
    <3>2. SubSeq(t, 0 + 1, 0) = << >>
      BY SubSeqEmpty
    <3> QED BY <3>1, <3>2 DEF Begun
  <2>2. R \cap (1 .. 0) = {}
    OBVIOUS
  <2>3. e(0) = [buf |-> << >>, run |-> << >>]
    BY <2>1, <2>2, NothingMeant, ExtractNone
  <2> HIDE DEF e
  <2> QED BY <1>4, <2>3
<1>9. ASSUME NEW i \in 1 .. n, i - 1 \in T PROVE i \in T
  <2>1. PICK k \in Nat : k = i - 1 /\ i > k /\ i \in Nat /\ i \in 0 .. n /\ i \in 1 .. Len(t)
    BY <1>3
  <2>2. PICK L \in SUBSET (1 .. k) : L = R \cap (1 .. k)
    OBVIOUS
  <2>3. PICK s : s = Begun(t, k)
    OBVIOUS
  <2>4. PICK b : b = Meant(s)
    OBVIOUS
  <2>5. PICK r : r = Extract(F, L)
    OBVIOUS
  <2>6. PICK c \in Byte : c = t[i]
    BY <1>3, ElementOfSeq
  <2>7. w[i] = TakenIn([buf |-> b, run |-> r], c)
    BY <1>4, <1>9, <2>1, <2>2, <2>3, <2>4, <2>5, <2>6
  <2>8. /\ s \in Seq(Byte) /\ Len(s) <= k
        /\ Begun(t, i) = IF EndsLine(c) THEN << >> ELSE Append(s, c)
    BY <1>3, <2>1, <2>3, <2>6, BegunLemma
  <2>9. i \in R <=> EndsLine(c) /\ Valid(b)
    BY <1>6, <2>1, <2>3, <2>4, <2>6
  <2>10. i \in R => R \cap (1 .. i) = L \cup {i}
    BY <2>1, <2>2
  <2>11. i \notin R => R \cap (1 .. i) = L
    BY <2>1, <2>2
  <2> HIDE DEF T
  <2>12. CASE ~EndsLine(c)
    <3>1. c = "BS" => Len(s) < SHELL_BUF_SIZE
      <4> SUFFICES ASSUME c = "BS" PROVE Len(s) < SHELL_BUF_SIZE
        OBVIOUS
      <4>1. i # n
        BY <1>3, <2>6
      <4>2. i \in 1 .. Len(line) /\ line[i] = "BS"
        BY <1>2, <1>3, <2>6, <4>1
      <4>3. Contains(line, "BS")
        BY <4>2 DEF Contains
      <4>4. Len(line) < SHELL_BUF_SIZE
        BY <4>3
      <4> QED BY <2>1, <2>8, <4>2, <4>4, EditorAssumption
    <3>2. Meant(Begun(t, i)) = Edit(b, c)
      BY <2>4, <2>8, <2>12, <3>1, EditedAsMeant
    <3>3. Extract(F, R \cap (1 .. i)) = r
      BY <2>5, <2>9, <2>11, <2>12
    <3>4. w[i] = [buf |-> Edit(b, c), run |-> r]
      BY <2>7, <2>12, TakenInCases
    <3>5. w[i] = e(i)
      BY <3>2, <3>3, <3>4
    <3> HIDE DEF e
    <3> QED BY <2>1, <3>5 DEF T
  <2>13. CASE EndsLine(c)
    <3>1. Meant(Begun(t, i)) = << >>
      BY <2>8, <2>13, NothingMeant
    <3>2. Extract(F, R \cap (1 .. i)) = IF Valid(b) THEN Append(r, Trim(b)) ELSE r
      <4>1. CASE Valid(b)
        <5>1. Extract(F, L \cup {i}) = Append(Extract(F, L), F[i])
          BY <2>1, ExtractGrows
        <5>2. F[i] = Trim(b)
          BY <1>5, <2>1, <2>3, <2>4 DEF AskedAt
        <5> QED BY <2>5, <2>9, <2>10, <2>13, <4>1, <5>1, <5>2, Zenon
      <4>2. CASE ~Valid(b)
        BY <2>5, <2>9, <2>11, <2>13, <4>2
      <4> QED BY <4>1, <4>2
    <3>3. w[i] = [buf |-> << >>, run |-> IF Valid(b) THEN Append(r, Trim(b)) ELSE r]
      BY <2>7, <2>13, TakenInCases
    <3>4. w[i] = e(i)
      BY <3>1, <3>2, <3>3
    <3> HIDE DEF e
    <3> QED BY <2>1, <3>4 DEF T
  <2> QED BY <2>12, <2>13
<1>10. w[n] = e(n)
  <2> HIDE DEF T
  <2>1. n \in 0 .. n
    OBVIOUS
  <2>2. n \in T
    BY <1>8, <1>9, <2>1, UpTo
  <2> HIDE DEF e
  <2> QED BY <2>2 DEF T
<1>11. Meant(Begun(t, n)) = << >>
  <2>1. EndsLine(t[n]) /\ n \in 1 .. Len(t)
    BY <1>3 DEF EndsLine
  <2>2. Begun(t, n) = << >>
    BY <1>3, <2>1, BegunLemma
  <2> QED BY <2>2, NothingMeant
<1>12. R \cap (1 .. n) = R
  OBVIOUS
<1> QED BY <1>1, <1>4, <1>7, <1>10, <1>11, <1>12

\* Whatever the line, its end leaves the editor empty.
LEMMA LineIsEnded ==
  ASSUME NEW line \in Seq(Byte), "LF" \in Byte
  PROVE  Handled(Append(line, "LF"))
           = [buf |-> << >>, run |-> Handled(Append(line, "LF")).run]
<1>1. PICK t : t = Append(line, "LF")
  OBVIOUS
<1>2. PICK n \in Nat : n = Len(line) + 1
  OBVIOUS
<1>3. t \in Seq(Byte) /\ Len(t) = n /\ t[n] = "LF" /\ n \in 1 .. n
  BY <1>1, <1>2, AppendProperties
<1>4. PICK w : /\ \A i \in 1 .. n : w[i] = TakenIn(w[i - 1], t[i])
               /\ Handled(t) = w[n]
  BY <1>3, HandledRounds
<1>5. Handled(t) = TakenIn(w[n - 1], "LF") /\ EndsLine("LF")
  BY <1>3, <1>4 DEF EndsLine
<1>6. PICK r : Handled(t) = [buf |-> << >>, run |-> r]
  BY <1>5 DEF TakenIn, AfterEnd
<1> QED BY <1>1, <1>6

\* A line by itself has run what it asks for.
LEMMA LinesAreRead ==
  \A line \in Lines :
    Handled(Append(line, "LF")) = [buf |-> << >>, run |-> Requests[line]]
<1> SUFFICES ASSUME NEW line \in Lines
             PROVE  Handled(Append(line, "LF")) = [buf |-> << >>, run |-> Requests[line]]
  OBVIOUS
<1>1. line \in Seq(Byte) /\ "LF" \in Byte
  BY ByteFacts
<1>2. CASE Plain(line)
  BY <1>1, <1>2, LineIsRead DEF Plain, Requests
<1>3. CASE ~Plain(line)
  BY <1>1, <1>3, LineIsEnded DEF Requests
<1> QED BY <1>2, <1>3

-----------------------------------------------------------------------------
(* The shell runs what the lines ask for.                                  *)

QueueInv == overrun \/ (~misran /\ Serves(editor, input, due))

LEMMA ReadsKeepsQueue ==
  ASSUME TextTyped, QueueInv, Reads
  PROVE  QueueInv'
<1>1. CASE overrun
  BY <1>1 DEF Reads, QueueInv
<1>2. CASE ~overrun
  <2>1. ~misran /\ Serves(editor, input, due)
    BY <1>2 DEF QueueInv
  <2>2. input \in Seq(Byte) /\ input # << >> /\ editor \in Seq(Byte)
    BY DEF TextTyped, Reads
  <2>3. PICK one : one = OneByte(editor, Head(input))
    OBVIOUS
  <2>4. PICK rest \in Commands :
          due = one.run \o rest /\ Serves(one.buf, Tail(input), rest)
    BY <2>1, <2>2, <2>3, ServesTail
  <2>5. one.run \in Commands /\ Len(one.run) <= 1
    <3>1. Head(input) \in Byte
      BY <2>2, HeadTailProperties
    <3> QED BY <2>2, <2>3, <3>1, TakenInLemma DEF Taken, Commands
  <2>6. /\ editor' = one.buf /\ input' = Tail(input) /\ overrun' = overrun
        /\ IF one.run # << >> THEN Run(Head(one.run)) ELSE UNCHANGED << pending, due, misran >>
    BY <2>3 DEF Reads, OneByte
  <2>7. ~misran' /\ due' = rest
    <3>1. CASE one.run = << >>
      <4>1. due = rest
        BY <2>4, <3>1 DEF Commands
      <4> QED BY <2>1, <2>6, <3>1, <4>1
    <3>2. CASE one.run # << >>
      <4>1. PICK x : one.run = << x >>
        <5>1. PICK run \in Seq(Seq(Byte)) : run = one.run
          BY <2>5 DEF Commands
        <5>2. run # << >> /\ Len(run) <= 1
          BY <2>5, <3>2, <5>1
        <5>3. Len(run) = 1
          <6>1. PICK n : n = Len(run)
            OBVIOUS
          <6>2. n \in Nat \ {0} /\ n <= 1
            BY <5>2, <6>1, EmptySeq
          <6>3. n = 1
            BY <6>2
          <6> QED BY <6>1, <6>3
        <5>4. run = << run[1] >>
          BY <5>3
        <5> QED BY <5>1, <5>4
      <4>2. due = << x >> \o rest /\ x \in Seq(Byte)
        BY <2>4, <2>5, <4>1 DEF Commands
      <4>3. due # << >> /\ Head(due) = x /\ Tail(due) = rest
        BY <4>2 DEF Commands
      <4>4. Head(one.run) = x
        BY <4>1
      <4> QED BY <2>1, <2>6, <3>2, <4>3, <4>4 DEF Run
    <3> QED BY <3>1, <3>2
  <2> QED BY <2>4, <2>6, <2>7 DEF QueueInv
<1> QED BY <1>1, <1>2

LEMMA PushLineKeepsQueue ==
  ASSUME TextTyped, QueueInv, NEW line \in Lines, PushLine(line)
  PROVE  QueueInv'
<1>1. CASE overrun'
  BY <1>1 DEF QueueInv
<1>2. CASE ~overrun'
  <2>1. /\ ~overrun /\ ~ (Len(input) + Len(line) >= INPUT_BUF_SIZE)
        /\ due' = due \o Requests[line] /\ editor' = editor /\ misran' = misran
        /\ input' = Fitting(Append(input \o line, "LF"))
    BY <1>2 DEF PushLine
  <2>2. ~misran /\ Serves(editor, input, due)
    BY <2>1 DEF QueueInv
  <2>3. input \in Seq(Byte) /\ line \in Seq(Byte) /\ "LF" \in Byte
    BY ByteFacts DEF TextTyped
  <2>4. PICK u : u = Append(line, "LF")
    OBVIOUS
  <2>5. u \in Seq(Byte) /\ Len(u) = Len(line) + 1 /\ u = line \o << "LF" >>
    BY <2>3, <2>4, AppendIsConcat
  <2>6. PICK v : v = input \o u
    OBVIOUS
  <2>7. v \in Seq(Byte) /\ Len(v) = Len(input) + Len(u) /\ v = Append(input \o line, "LF")
    <3>1. << "LF" >> \in Seq(Byte) /\ input \o line \in Seq(Byte)
      BY <2>3
    <3>2. v = (input \o line) \o << "LF" >>
      BY <2>3, <2>5, <2>6, <3>1, ConcatAssociative
    <3>3. v = Append(input \o line, "LF")
      BY <2>3, <3>1, <3>2, AppendIsConcat
    <3> QED BY <2>3, <2>5, <2>6, <3>3, ConcatProperties
  <2>8. input' = v
    <3>1. Len(v) \in Nat /\ INPUT_BUF_SIZE \in Nat /\ Len(v) <= INPUT_BUF_SIZE
      BY <2>1, <2>3, <2>5, <2>7, ConsoleAssumption
    <3>2. PICK m : m = Min({Len(v), INPUT_BUF_SIZE})
      OBVIOUS
    <3>3. m = Len(v)
      <4>1. \A y \in {Len(v), INPUT_BUF_SIZE} : Len(v) <= y
        BY <3>1
      <4>2. \A x \in {Len(v), INPUT_BUF_SIZE} :
              (\A y \in {Len(v), INPUT_BUF_SIZE} : x <= y) => x = Len(v)
        BY <3>1
      <4> QED BY <3>2, <4>1, <4>2 DEF Min
    <3>4. SubSeq(v, 1, Len(v)) = v
      BY <2>7
    <3> QED BY <2>1, <2>7, <3>2, <3>3, <3>4 DEF Fitting
  <2>9. Serves(<< >>, u, Requests[line])
    BY <2>4, <2>5, HandledServes, LinesAreRead
  <2>10. Serves(editor, v, due \o Requests[line])
    BY <2>2, <2>3, <2>5, <2>6, <2>9, ServesBoth
  <2> QED BY <2>1, <2>2, <2>8, <2>10 DEF QueueInv
<1> QED BY <1>1, <1>2

LEMMA NextQueue ==
  ASSUME TextTyped, QueueInv, [ConsoleNext]_console_vars
  PROVE  QueueInv'
<1>1. ASSUME UNCHANGED << input, editor, due, misran, overrun >> PROVE QueueInv'
  BY <1>1 DEF QueueInv
<1>2. ASSUME NEW line \in Lines, PushLine(line) PROVE QueueInv'
  BY <1>2, PushLineKeepsQueue
<1>3. CASE Reads
  BY <1>3, ReadsKeepsQueue
<1>4. CASE Prints
  BY <1>1, <1>4 DEF Prints, history
<1>5. ASSUME NEW c \in Printed, OthersPrint(c) PROVE QueueInv'
  BY <1>1, <1>5 DEF OthersPrint, shell_vars, history
<1>6. CASE LcdTurn
  BY <1>1, <1>6 DEF LcdTurn, shell_vars, history
<1>7. CASE UNCHANGED console_vars
  BY <1>1, <1>7 DEF console_vars
<1> QED BY <1>2, <1>3, <1>4, <1>5, <1>6, <1>7 DEF ConsoleNext

\* However the bytes of the lines fall between the turns of the shell, the input
\* ring losing none of them: the shell runs the commands the lines ask for as their
\* writer edited them or, of a line both edited and too long, as the editor takes it
\* by itself, in order, none twice and none joined to another (shell_push_input,
\* LineEditor::feed, parse_and_run).
THEOREM RunsOnlyWhatWasSent == ConsoleSpec => []RunsWhatWasSent
<1>1. ConsoleInit => LcdInv /\ QueueInv
  BY InitLcd, ServesNothing DEF ConsoleInit, QueueInv
<1>2. LcdInv /\ QueueInv /\ [ConsoleNext]_console_vars => (LcdInv /\ QueueInv)'
  BY NextLcd, NextQueue DEF LcdInv
<1>3. LcdInv /\ QueueInv => RunsWhatWasSent
  BY DEF QueueInv, RunsWhatWasSent
<1> QED BY <1>1, <1>2, <1>3, PTL DEF ConsoleSpec
=============================================================================
