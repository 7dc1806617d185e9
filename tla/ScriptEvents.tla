---------------------------- MODULE ScriptEvents ----------------------------
(***************************************************************************)
(* The events of one script of an entity (CScript, IScripted): run by      *)
(* name, by calls with a delay, by loops and by their own repeatdelay.     *)
(* Commands call further events on the C++ stack, which is modelled as it  *)
(* is; an event is executed one command at a time, and which command comes *)
(* next is left open.  The blocks of if and else are left out.             *)
(***************************************************************************)
EXTENDS Integers, SequencesExt, FiniteSetsExt, Selection

CONSTANTS
  Names,      \* the names of the script's events, in order
  Unnamed,    \* the name of an event that has none
  EffectDie,  \* effect_die
  MaxLoops,   \* bound: iterations of a calleventloop
  MaxDelay,   \* bound: delays of calls and of repeatdelay
  MaxTime,    \* bound: the clock
  MaxOwed,    \* bound: delayed calls and repeats waiting at a time
  MaxDepth    \* bound: the depth of the stack

Event == 1..Len(Names)
Name  == ToSet(Names) \ {Unnamed}

ASSUME ConstantsAssumption ==
  /\ {MaxLoops, MaxDelay, MaxTime, MaxOwed, MaxDepth} \subseteq Nat
  /\ Names \in Seq(ToSet(Names)) /\ EffectDie \in Name

VARIABLES
  now,        \* gpGlobals->time
  next,       \* fNextExecutionTime of each event
  timed,      \* TimedExecutions of each event
  stop,       \* the events with bFullStop set
  stack,      \* the functions running, outermost first
  current,    \* m.CurrentEvent, 0 for NULL
  iteration,  \* m.m_Iteration
  breakLoop,  \* MSC_BREAK_LOOP is 1
  resetLoop,  \* MSC_RESET_LOOP
  removed,    \* m.RemoveNextFrame
  alive,      \* the script is in m_Scripts
  owed,       \* history: executions of each event promised and not begun
  seen        \* history: when the script's events were last run

vars == <<now, next, timed, stop, stack, current, iteration, breakLoop,
          resetLoop, removed, alive, owed, seen>>

registers == <<current, iteration, breakLoop, resetLoop>>
schedule  == <<next, timed, owed>>
lifetime  == <<now, removed, alive, seen>>

Never   == -1  \* never run by itself
NoReset == -5

\* The functions that can be on the stack, with their local variables.
Running(named, i, left)       == [proc |-> "RunScriptEvents", named |-> named, i |-> i, left |-> left]
ByName(name, i, saved)        == [proc |-> "RunScriptEventByName", name |-> name, i |-> i, saved |-> saved]
Executing(e)                  == [proc |-> "Script_ExecuteEvent", event |-> e]
Looping(name, i, loops, saved) ==
  [proc |-> "CallEvent", name |-> name, i |-> i, loops |-> loops, saved |-> saved]

Frame ==
  [proc : {"RunScriptEvents"}, named : BOOLEAN, i : 0..Len(Names), left : Nat]
    \cup [proc : {"RunScriptEventByName"}, name : Name, i : 0..Len(Names), saved : Event \cup {0}]
    \cup [proc : {"Script_ExecuteEvent"}, event : Event]
    \cup [proc : {"CallEvent"}, name : Name, i : Nat, loops : Nat, saved : Nat]

Top(proc) == stack # <<>> /\ Last(stack).proc = proc

TypeOK ==
  /\ now \in 0..MaxTime /\ seen \in Never..MaxTime
  /\ next \in [Event -> Never..MaxTime + MaxDelay]
  /\ timed \in [Event -> Seq(0..MaxTime + MaxDelay)]
  /\ stop \subseteq Event
  /\ stack \in Seq(Frame)
  /\ current \in Event \cup {0} /\ iteration \in Nat
  /\ breakLoop \in BOOLEAN /\ resetLoop \in {NoReset, -1}
  /\ removed \in BOOLEAN /\ alive \in BOOLEAN
  /\ owed \in [Event -> Nat]

Init ==
  /\ now = 0 /\ seen = Never
  /\ next = [e \in Event |-> IF Names[e] = Unnamed THEN 0 ELSE Never]
  /\ timed = [e \in Event |-> <<>>]
  /\ stop = {} /\ stack = <<>>
  /\ current = 0 /\ iteration = 0
  /\ breakLoop = FALSE /\ resetLoop = NoReset
  /\ removed = FALSE /\ alive = TRUE
  /\ owed = [e \in Event |-> IF Names[e] = Unnamed THEN 1 ELSE 0]
-----------------------------------------------------------------------------
(* The entity's frame.                                                     *)

Tick ==
  /\ stack = <<>>
  /\ now < MaxTime
  /\ now' = now + 1
  /\ UNCHANGED <<schedule, stop, stack, registers, removed, alive, seen>>

\* IScripted::RunScriptEvents; dead monsters run only named events.
RunScripts(named) ==
  /\ alive /\ stack = <<>>
  /\ IF removed
     THEN /\ alive' = FALSE
          /\ UNCHANGED <<stack, seen>>
     ELSE /\ stack' = <<Running(named, 0, 0)>>
          /\ seen' = now
          /\ UNCHANGED alive
  /\ UNCHANGED <<now, removed, schedule, stop, registers>>

Due(times)     == Only(times, 0 .. now)
\* Fault: TimedExecutions.erase(e) without the decrement skips the next entry.
Waiting_Bug(times) ==
  Only([k \in 1..Len(times) |->
          IF now >= times[k] /\ (k = 1 \/ now < times[k - 1]) THEN Never ELSE times[k]], Nat)

Waiting(times) == Only(times, Nat \ 0 .. now)

\* CScript::RunScriptEvents takes the due times of the next event.
NextEvent ==
  LET top == Last(stack)
      e   == top.i + 1
      repeats == next[e] > Never /\ now >= next[e]
  IN /\ Top("RunScriptEvents") /\ top.left = 0
     /\ IF e > Len(Names)
        THEN stack' = Front(stack) /\ UNCHANGED <<next, timed>>
        ELSE IF Names[e] = Unnamed /\ top.named
        THEN /\ stack' = Append(Front(stack), Running(top.named, e, 0))
             /\ UNCHANGED <<next, timed>>
        ELSE /\ next' = [next EXCEPT ![e] = IF repeats THEN Never ELSE @]
             /\ timed' = [timed EXCEPT ![e] = Waiting(@)]
             /\ stack' = Append(Front(stack),
                                Running(top.named, e,
                                        Len(Due(timed[e])) + IF repeats THEN 1 ELSE 0))
     /\ UNCHANGED <<owed, stop, registers, lifetime>>

RunDue ==
  LET top == Last(stack)
  IN /\ Top("RunScriptEvents") /\ top.left > 0
     /\ stack' = Front(stack) \o <<Running(top.named, top.i, top.left - 1),
                                   Executing(top.i)>>
     /\ current' = top.i
     /\ owed' = [owed EXCEPT ![top.i] = @ - 1]
     /\ UNCHANGED <<next, timed, stop, iteration, breakLoop, resetLoop, lifetime>>

\* The entity calls an event of its script (IScripted::CallScriptEvent).
CallScriptEvent(name) ==
  /\ alive /\ stack = <<>>
  /\ stack' = <<ByName(name, 0, current)>>
  /\ UNCHANGED <<schedule, stop, registers, lifetime>>

\* CScript::RunScriptEventByName runs every event of that name.
NextOfName ==
  LET top  == Last(stack)
      more == {e \in Event : e > top.i /\ Names[e] = top.name}
      e    == Min(more)
  IN /\ Top("RunScriptEventByName")
     /\ IF more = {}
        THEN stack' = Front(stack) /\ current' = top.saved
        ELSE /\ stack' = Front(stack) \o <<ByName(top.name, e, top.saved), Executing(e)>>
             /\ current' = e
     /\ UNCHANGED <<schedule, stop, iteration, breakLoop, resetLoop, lifetime>>
-----------------------------------------------------------------------------
(* Commands of the event being executed.                                   *)

RoomFor(n) == n + MapThenSumSet(LAMBDA f : owed[f], Event) <= MaxOwed

Executes(e) == Top("Script_ExecuteEvent") /\ e = Last(stack).event /\ e \notin stop

\* Fault: bFullStop is not reset.
StopsLeft_Bug(e) == stop

\* Event.bFullStop = false when the event is over.
StopsLeft(e) == stop \ {e}

\* The end of Script_ExecuteEvent, after the last command or an exit.
Return ==
  /\ Top("Script_ExecuteEvent")
  /\ stack' = Front(stack)
  /\ stop' = StopsLeft(Last(stack).event)
  /\ current' = 0
  /\ UNCHANGED <<schedule, iteration, breakLoop, resetLoop, lifetime>>

Exit(e) ==
  /\ Executes(e)
  /\ stop' = stop \cup {e}
  /\ UNCHANGED <<schedule, stack, registers, lifetime>>

\* callevent (one loop) and calleventloop, without a delay; an event cannot
\* call itself this way.
CallEvent(e, name, loops) ==
  /\ Executes(e) /\ Len(stack) < MaxDepth
  /\ name # Names[e]
  /\ iteration' = 0
  /\ resetLoop' = NoReset
  /\ stack' = stack \o <<Looping(name, 0, loops, iteration), ByName(name, 0, current)>>
  /\ UNCHANGED <<schedule, stop, current, breakLoop, lifetime>>

\* Fault: LoopAgain leaves m_Iteration as the last iteration had it.
LoopAgain_Bug ==
  LET top == Last(stack)
      i   == top.i + 1
      ends == breakLoop \/ i >= top.loops
  IN /\ Top("CallEvent")
     /\ breakLoop' = FALSE
     /\ resetLoop' = NoReset
     /\ iteration' = IF ends THEN iteration ELSE i
     /\ stack' = IF ends THEN Front(stack)
                 ELSE Front(stack) \o <<Looping(top.name, i, top.loops, top.saved),
                                        ByName(top.name, 0, current)>>
     /\ UNCHANGED <<schedule, stop, current, lifetime>>

\* for(int i = 0; i < Loops; i++), after one iteration: i++ follows a reset.
LoopAgain ==
  LET top == Last(stack)
      i   == 1 + IF resetLoop # NoReset THEN resetLoop ELSE top.i
      ends == breakLoop \/ i >= top.loops
  IN /\ Top("CallEvent")
     /\ breakLoop' = FALSE
     /\ resetLoop' = IF breakLoop THEN resetLoop ELSE NoReset
     /\ iteration' = IF ends THEN top.saved ELSE i
     /\ stack' = IF ends THEN Front(stack)
                 ELSE Front(stack) \o <<Looping(top.name, i, top.loops, top.saved),
                                        ByName(top.name, 0, current)>>
     /\ UNCHANGED <<schedule, stop, current, lifetime>>

BreakLoop(e) ==
  /\ Executes(e)
  /\ breakLoop' = TRUE
  /\ UNCHANGED <<schedule, stop, stack, current, iteration, resetLoop, lifetime>>

\* resetloop without a parameter: from the first iteration.
ResetLoop(e) ==
  /\ Executes(e)
  /\ resetLoop' = -1
  /\ UNCHANGED <<schedule, stop, stack, current, iteration, breakLoop, lifetime>>

\* callexternal with the script's own entity.
CallExternal(e, name) ==
  /\ Executes(e) /\ Len(stack) < MaxDepth
  /\ stack' = Append(stack, ByName(name, 0, current))
  /\ UNCHANGED <<schedule, stop, registers, lifetime>>

\* callevent with a delay: CallEventTimed, for every event of that name.
CallEventTimed(e, name, delay) ==
  LET called == {f \in Event : Names[f] = name}
  IN /\ Executes(e)
     /\ RoomFor(Cardinality(called))
     /\ timed' = [f \in Event |-> IF f \in called THEN Append(timed[f], now + delay)
                                  ELSE timed[f]]
     /\ owed' = [f \in Event |-> IF f \in called THEN owed[f] + 1 ELSE owed[f]]
     /\ UNCHANGED <<next, stop, stack, registers, lifetime>>

RepeatDelay(e, delay) ==
  /\ Executes(e)
  /\ next[e] # Never \/ RoomFor(1)
  /\ next' = [next EXCEPT ![e] = now + delay]
  /\ owed' = [owed EXCEPT ![e] = IF next[e] = Never THEN @ + 1 ELSE @]
  /\ UNCHANGED <<timed, stop, stack, registers, lifetime>>

\* removescript; scripts of effects run effect_die first.
RemoveScript(e, effect) ==
  /\ Executes(e) /\ Len(stack) < MaxDepth
  /\ removed' = TRUE
  /\ stack' = IF effect THEN Append(stack, ByName(EffectDie, 0, current)) ELSE stack
  /\ UNCHANGED <<schedule, stop, registers, now, alive, seen>>
-----------------------------------------------------------------------------
EventStep(e) ==
  \/ Exit(e)
  \/ BreakLoop(e)
  \/ ResetLoop(e)
  \/ \E effect \in BOOLEAN : RemoveScript(e, effect)
  \/ \E delay \in 0..MaxDelay : RepeatDelay(e, delay)
  \/ \E name \in Name :
       \/ \E loops \in 1..MaxLoops : CallEvent(e, name, loops)
       \/ CallExternal(e, name)
       \/ \E delay \in 1..MaxDelay : CallEventTimed(e, name, delay)

Next ==
  \/ Tick
  \/ \E named \in BOOLEAN : RunScripts(named)
  \/ \E name \in Name : CallScriptEvent(name)
  \/ NextEvent \/ RunDue \/ NextOfName \/ LoopAgain \/ Return
  \/ \E e \in Event : EventStep(e)

Spec == Init /\ [][Next]_vars
-----------------------------------------------------------------------------
(* Properties.                                                             *)

Loops == {k \in 1..Len(stack) : stack[k].proc = "CallEvent"}

\* Commands look up local variables in m.CurrentEvent and $get(iteration) in
\* m_Iteration, which every call overwrites.  However events call, loop,
\* break and exit, the command that is running finds its own event and the
\* count of the innermost loop it was called from.
RegistersBelongToCaller ==
  /\ stack = <<>> => current = 0
  /\ Top("Script_ExecuteEvent") => current = Last(stack).event
  /\ iteration = IF Loops = {} THEN 0 ELSE stack[Max(Loops)].i

\* A delayed call, or a repeat, runs its event exactly once and in the first
\* frame at or after its time, although the list it waits in is changed by
\* the very events that are run from it: between frames nothing is overdue
\* and every execution promised is still waiting or has begun.
DelayedCallsRunOnce ==
  stack = <<>> =>
    \A e \in Event :
      /\ \A t \in ToSet(timed[e]) : t > seen
      /\ owed[e] = Len(timed[e]) + IF next[e] = Never THEN 0 ELSE 1

\* exit stops the event that runs it and nothing else: bFullStop is never
\* left over for a caller, another event, or a later run of the same event.
ExitIsOwn == \A e \in stop : Top("Script_ExecuteEvent") /\ Last(stack).event = e
=============================================================================
