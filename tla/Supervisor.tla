------------------------------ MODULE Supervisor ------------------------------
(***************************************************************************)
(* The supervisor of examples/two_hermes_regtest/run.py and the command    *)
(* loop of its two children, run_hermes.py.                                *)
(*                                                                         *)
(* The supervisor starts alice and bob, waits for the ready line of each,  *)
(* asks each for its status, and then passes one operator command at a     *)
(* time to a child and waits, without a time limit, for the one line that  *)
(* answers it.  When anything fails it stops both.  A child may die at any *)
(* moment, and the supervisor may be interrupted at any moment.  The pipes *)
(* to a child last as long as the supervisor.                              *)
(***************************************************************************)
EXTENDS Naturals, Sequences

CONSTANTS
    Commands,         \* the commands an operator may give, "status" among them
    MaxInterrupts     \* bound on the number of interrupts

ASSUME SupervisorAssumption ==
    /\ "status" \in Commands
    /\ "ready" \notin Commands
    /\ MaxInterrupts \in Nat

VARIABLES
    at,           \* where the supervisor is
    who,          \* the child it is busy with
    asked,        \* the command it waits to see answered
    handles,      \* the children whose handle main() has
    interrupts,   \* how often it was interrupted
    child,        \* the status of each child
    doing,        \* the command each child works on
    stdin,        \* the lines in the pipe to each child
    stdout        \* and in the pipe from it

supervisorVars == <<at, who, asked, handles, interrupts>>
childVars == <<child, doing, stdin, stdout>>
vars == <<supervisorVars, childVars>>

Children == {"alice", "bob"}

Positions == {"spawn", "ready", "hello", "hello_reply", "check", "input", "reply",
              "stop", "exited"}

Ended(c) == child[c] \in {"none", "dead"}

SupervisorTypeOK ==
    /\ at \in Positions
    /\ who \in Children
    /\ asked \in Commands
    /\ handles \subseteq Children
    /\ interrupts \in 0 .. MaxInterrupts
    /\ child \in [Children -> {"none", "starting", "reading", "working", "interrupted", "dead"}]
    /\ doing \in [Children -> Commands]
    /\ stdin \in [Children -> Seq(Commands)]
    /\ stdout \in [Children -> Seq(Commands \cup {"ready"})]

Init ==
    /\ at = "spawn"
    /\ who = "alice"
    /\ asked = "status"
    /\ handles = {}
    /\ interrupts = 0
    /\ child = [c \in Children |-> "none"]
    /\ doing = [c \in Children |-> "status"]
    /\ stdin = [c \in Children |-> <<>>]
    /\ stdout = [c \in Children |-> <<>>]

GoTo(position, c) == at' = position /\ who' = c

\* main() leaves its try block.
Stop == GoTo("stop", "alice")

-----------------------------------------------------------------------------
(* Starting *)

\* Popen in _start_process.
Spawn ==
    /\ at = "spawn"
    /\ child' = [child EXCEPT ![who] = "starting"]
    /\ GoTo("ready", who)
    /\ UNCHANGED <<asked, handles, interrupts, doing, stdin, stdout>>

\* There is no wrapper, or it cannot be run.
SpawnFails ==
    /\ at = "spawn"
    /\ Stop
    /\ UNCHANGED <<asked, handles, interrupts, childVars>>

\* The ready line is taken out of the pipe.
ReadyLeft(c) == UNCHANGED stdout
ReadyConsumed(c) == stdout' = [stdout EXCEPT ![c] = Tail(@)]

\* _start_process consumes the ready line, and main() has the handle.
Ready ==
    /\ at = "ready"
    /\ stdout[who] # <<>>
    /\ ReadyConsumed(who)
    /\ handles' = handles \cup {who}
    /\ IF who = "alice" THEN GoTo("spawn", "bob") ELSE GoTo("hello", "alice")
    /\ UNCHANGED <<asked, interrupts, child, doing, stdin>>

\* The end of the pipe: no line, and none to come.
Closed(c) == stdout[c] = <<>> /\ child[c] = "dead"

-----------------------------------------------------------------------------
(* Commands *)

\* _send_jsonl up to its readline; a dead child breaks the pipe.
Send(c, command, position) ==
    /\ asked' = command
    /\ IF child[c] = "dead"
       THEN Stop /\ UNCHANGED stdin
       ELSE GoTo(position, c) /\ stdin' = [stdin EXCEPT ![c] = Append(@, command)]
    /\ UNCHANGED <<handles, interrupts, child, doing, stdout>>

\* main() asks each child for its status.
Hello == at = "hello" /\ Send(who, "status", "hello_reply")

\* The operator names a child and a command.
OperatorCommand ==
    /\ at = "input"
    /\ \E c \in Children, command \in Commands : Send(c, command, "reply")

\* The answer arrives.
Reply ==
    /\ at \in {"hello_reply", "reply"}
    /\ stdout[who] # <<>>
    /\ stdout' = [stdout EXCEPT ![who] = Tail(@)]
    /\ IF at = "hello_reply" /\ who = "alice" THEN GoTo("hello", "bob") ELSE GoTo("check", who)
    /\ UNCHANGED <<asked, handles, interrupts, child, doing, stdin>>

\* When readline gives up: at the end of the pipe only.
GivesUpWaiting(c) == stdout[c] = <<>>
GivesUp(c) == Closed(c)

\* The child closed its output, before it was ready or before it answered.
ChildGone ==
    /\ at \in {"ready", "hello_reply", "reply"}
    /\ GivesUp(who)
    /\ Stop
    /\ UNCHANGED <<asked, handles, interrupts, childVars>>

\* _check_children.
SomeChildAlive == \E c \in Children : child[c] # "dead"
ChildrenAlive == \A c \in Children : child[c] # "dead"

\* The operator loop: _check_children, then up to 0.25 s for input.
Check ==
    /\ at = "check"
    /\ IF ChildrenAlive THEN GoTo("input", who) ELSE Stop
    /\ UNCHANGED <<asked, handles, interrupts, childVars>>

NoInput ==
    /\ at = "input"
    /\ GoTo("check", who)
    /\ UNCHANGED <<asked, handles, interrupts, childVars>>

\* shutdown, the end of the input, or a line that is no command.
InputEnds ==
    /\ at = "input"
    /\ Stop
    /\ UNCHANGED <<asked, handles, interrupts, childVars>>

-----------------------------------------------------------------------------
(* Stopping *)

\* The finally block, one child after the other: _stop_process of a child it has a
\* handle of closes its input, terminates it, and kills it if that takes too long.
StopFirst ==
    /\ at = "stop"
    /\ child' = IF who \in handles THEN [child EXCEPT ![who] = "dead"] ELSE child
    /\ GoTo("exited", who)
    /\ UNCHANGED <<asked, handles, interrupts, doing, stdin, stdout>>
StopChild ==
    /\ at = "stop"
    /\ child' = IF who \in handles THEN [child EXCEPT ![who] = "dead"] ELSE child
    /\ IF who = "alice" THEN GoTo("stop", "bob") ELSE GoTo("exited", who)
    /\ UNCHANGED <<asked, handles, interrupts, doing, stdin, stdout>>

\* KeyboardInterrupt: in the try block it leads to the finally block, in the finally
\* block out of main().  The children get it too if it comes from the terminal: a
\* child that works takes its snapshot and ends, any other one ends at once.
Interrupt ==
    /\ at # "exited"
    /\ interrupts < MaxInterrupts
    /\ interrupts' = interrupts + 1
    /\ IF at = "stop" THEN GoTo("exited", who) ELSE Stop
    /\ \/ UNCHANGED child
       \/ child' = [c \in Children |-> IF child[c] = "working" THEN "interrupted"
                                       ELSE IF child[c] \in {"starting", "reading"} THEN "dead"
                                       ELSE child[c]]
    /\ UNCHANGED <<asked, handles, doing, stdin, stdout>>

-----------------------------------------------------------------------------
(* The children: main() of run_hermes.py *)

Connected == at # "exited"

Becomes(c, status) == child' = [child EXCEPT ![c] = status]

\* The process is constructed and says so, if anybody is there to read it.
ChildStarts(c) ==
    /\ child[c] = "starting"
    /\ IF Connected
       THEN Becomes(c, "reading") /\ stdout' = [stdout EXCEPT ![c] = Append(@, "ready")]
       ELSE Becomes(c, "dead") /\ UNCHANGED stdout
    /\ UNCHANGED <<supervisorVars, doing, stdin>>

ChildReads(c) ==
    /\ child[c] = "reading"
    /\ stdin[c] # <<>>
    /\ Becomes(c, "working")
    /\ doing' = [doing EXCEPT ![c] = Head(stdin[c])]
    /\ stdin' = [stdin EXCEPT ![c] = Tail(@)]
    /\ UNCHANGED <<supervisorVars, stdout>>

\* A command is answered by one line, whether its handler returned or raised.
WriteUnlessError(c) == UNCHANGED stdout \/ stdout' = [stdout EXCEPT ![c] = Append(@, doing[c])]
WriteAnswer(c) == stdout' = [stdout EXCEPT ![c] = Append(@, doing[c])]

ChildAnswers(c) ==
    /\ child[c] = "working"
    /\ IF Connected THEN Becomes(c, "reading") /\ WriteAnswer(c)
                    ELSE Becomes(c, "dead") /\ UNCHANGED stdout
    /\ UNCHANGED <<supervisorVars, doing, stdin>>

\* An empty line from readline ends the loop.
SkipsEmptyLine(c) == FALSE
EndOfInput(c) == stdin[c] = <<>> /\ ~Connected

ChildSeesEnd(c) ==
    /\ child[c] = "reading"
    /\ EndOfInput(c)
    /\ Becomes(c, "dead")
    /\ UNCHANGED <<supervisorVars, doing, stdin, stdout>>

\* An interrupted command has taken its snapshot.
ChildEnds(c) ==
    /\ child[c] = "interrupted"
    /\ Becomes(c, "dead")
    /\ UNCHANGED <<supervisorVars, doing, stdin, stdout>>

\* A child cannot be constructed on its files, crashes or is killed.
ChildDies(c) ==
    /\ ~Ended(c)
    /\ Becomes(c, "dead")
    /\ UNCHANGED <<supervisorVars, doing, stdin, stdout>>

-----------------------------------------------------------------------------
(* Specification *)

Supervise ==
    \/ Spawn \/ SpawnFails \/ Ready \/ Hello \/ OperatorCommand \/ Reply \/ ChildGone
    \/ Check \/ NoInput \/ InputEnds \/ StopChild

ChildRuns(c) ==
    ChildStarts(c) \/ ChildReads(c) \/ ChildAnswers(c) \/ ChildSeesEnd(c) \/ ChildEnds(c)

Next ==
    \/ Supervise
    \/ Interrupt
    \/ \E c \in Children : ChildRuns(c) \/ ChildDies(c)

\* Every process goes on while it can: the wait for input ends after 0.25 s, and a
\* handler ends because its subprocesses have time limits.
Spec ==
    /\ Init /\ [][Next]_vars
    /\ WF_vars(Supervise)
    /\ \A c \in Children : WF_vars(ChildRuns(c))

-----------------------------------------------------------------------------
(* Properties *)

\* SAFETY.  A response is the answer to the command that was sent: the ready line
\* is out of the way, and no line of an earlier command is left in the pipe.
AnswersMatch ==
    /\ at \in {"hello_reply", "reply"}
         => \A n \in DOMAIN stdout[who] : stdout[who][n] = asked
    /\ at \in {"hello", "check", "input"} => stdout[who] = <<>>

\* SAFETY.  Unless it is interrupted, the supervisor stops no child in the middle of
\* a command, whichever way it comes to the end: an orderly stop is no crash of
\* execute().
StoppedBetweenCommands ==
    at = "stop" /\ interrupts = 0 => \A c \in Children : child[c] # "working"

\* SAFETY.  Unless it is interrupted, the supervisor is gone only after both children
\* have ended, at whatever point of starting them or talking to them it failed.
NothingLeftBehind ==
    at = "exited" /\ interrupts = 0 => \A c \in Children : Ended(c)

\* LIVENESS.  Nobody waits for ever: a command is answered or its child has died,
\* and then the supervisor goes on or stops.
CommandsAreAnswered == at \in {"hello_reply", "reply"} ~> at \notin {"hello_reply", "reply"}

\* LIVENESS.  The supervisor fails closed: when one child has died, in the end both
\* are dead and the supervisor is gone.
FailsClosed ==
    (\E c \in Children : child[c] = "dead")
      ~> (at = "exited" /\ \A c \in Children : Ended(c))

\* LIVENESS.  No child outlives the supervisor for long, not even one that was being
\* started, and whose handle was lost, when the interrupt came.
NoOrphans == at = "exited" ~> \A c \in Children : Ended(c)

-----------------------------------------------------------------------------
(* The inductive invariant behind the safety properties *)

\* How far the conversation with a child is.
PipesAre(c, in, out) == stdin[c] = in /\ stdout[c] = out

NotStarted(c) == PipesAre(c, <<>>, <<>>) /\ child[c] = "none"

Starting(c) ==
    \/ PipesAre(c, <<>>, <<>>) /\ child[c] \in {"starting", "dead"}
    \/ PipesAre(c, <<>>, <<"ready">>) /\ child[c] \in {"reading", "dead"}

Waiting(c) == PipesAre(c, <<>>, <<>>) /\ child[c] \in {"reading", "dead"}

Answering(c) ==
    \/ PipesAre(c, <<asked>>, <<>>) /\ child[c] \in {"reading", "dead"}
    \/ PipesAre(c, <<>>, <<>>) /\ child[c] = "working" /\ doing[c] = asked
    \/ PipesAre(c, <<>>, <<>>) /\ child[c] = "dead"
    \/ PipesAre(c, <<>>, <<asked>>) /\ child[c] \in {"reading", "dead"}

AtRest(c) == Ended(c) \/ (child[c] = "reading" /\ stdin[c] = <<>>)

\* Where the supervisor is tells how far its conversation with each child is.
Conversation ==
    /\ at = "spawn" => NotStarted(who)
    /\ at = "ready" => Starting(who)
    /\ at \in {"spawn", "ready"} => IF who = "alice" THEN NotStarted("bob") ELSE Waiting("alice")
    /\ at \in {"hello", "check", "input"} => \A c \in Children : Waiting(c)
    /\ at \in {"hello_reply", "reply"}
         => Answering(who) /\ \A c \in Children \ {who} : Waiting(c)
    /\ at = "stop" /\ interrupts = 0 => \A c \in Children : AtRest(c)

\* The handles main() has while it runs, and the children they leave it once it stops:
\* one that it cannot stop has ended by itself.
Holding ==
    /\ at \in {"spawn", "ready"} => handles = IF who = "alice" THEN {} ELSE {"alice"}
    /\ at \in {"hello", "hello_reply", "check", "input", "reply"} => handles = Children
    /\ at = "stop" /\ interrupts = 0
         => \A c \in Children : c \in handles \/ Ended(c)
    /\ at = "stop" /\ interrupts = 0 /\ who = "bob" => Ended("alice")
    /\ NothingLeftBehind

\* SAFETY.  Deaths and interrupts at any moment leave every place of main() with the
\* lines, the children and the handles that the code at that place expects.
SupervisorIInv == SupervisorTypeOK /\ Conversation /\ Holding
==============================================================================
