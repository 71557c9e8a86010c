--------------------------- MODULE SupervisorProofs ---------------------------
(***************************************************************************)
(* Proofs about Supervisor, for every set of commands and every number of  *)
(* interrupts.  The specification's fairness plays no part in them.        *)
(***************************************************************************)
EXTENDS Supervisor, TLAPS

(***************************************************************************)
(* Types                                                                   *)
(***************************************************************************)

\* Where the supervisor goes.
LEMMA GoToType ==
    ASSUME NEW position \in Positions, NEW c \in Children, GoTo(position, c)
    PROVE  at' \in Positions /\ who' \in Children
BY DEF GoTo

\* Leaving the try block.
LEMMA StopType == Stop => at' \in Positions /\ who' \in Children
BY DEF Stop, GoTo, Positions, Children

\* Every step preserves the types.
LEMMA NextType == SupervisorTypeOK /\ [Next]_vars => SupervisorTypeOK'
<1> SUFFICES ASSUME SupervisorTypeOK, [Next]_vars PROVE SupervisorTypeOK'
  OBVIOUS
<1> USE DEF SupervisorTypeOK
<1>1. CASE Spawn \/ SpawnFails
  BY <1>1, StopType, GoToType DEF Spawn, SpawnFails, childVars, Positions
<1>2. CASE Ready
  <2>1. at' \in Positions /\ who' \in Children
    BY <1>2 DEF Ready, GoTo, Positions, Children
  <2>2. Tail(stdout[who]) \in Seq(Commands \cup {"ready"})
    BY <1>2 DEF Ready
  <2> QED
    BY <1>2, <2>1, <2>2 DEF Ready, ReadyConsumed
<1>3. ASSUME NEW c \in Children, NEW command \in Commands, NEW position \in Positions,
             Send(c, command, position)
      PROVE  SupervisorTypeOK'
  <2>1. at' \in Positions /\ who' \in Children
    BY <1>3, StopType, GoToType DEF Send
  <2>2. Append(stdin[c], command) \in Seq(Commands)
    OBVIOUS
  <2>3. stdin' \in [Children -> Seq(Commands)]
    BY <1>3, <2>2 DEF Send
  <2> QED
    BY <1>3, <2>1, <2>3 DEF Send
<1>4. CASE Hello \/ OperatorCommand
  <2>1. {"hello_reply", "reply"} \subseteq Positions
    BY DEF Positions
  <2> QED
    BY <1>3, <1>4, <2>1, SupervisorAssumption DEF Hello, OperatorCommand
<1>5. CASE Reply
  <2>1. at' \in Positions /\ who' \in Children
    BY <1>5 DEF Reply, GoTo, Positions, Children
  <2>2. Tail(stdout[who]) \in Seq(Commands \cup {"ready"})
    BY <1>5 DEF Reply
  <2> QED
    BY <1>5, <2>1, <2>2 DEF Reply
<1>6. CASE ChildGone \/ Check \/ NoInput \/ InputEnds
  <2>1. at' \in Positions /\ who' \in Children
    BY <1>6 DEF ChildGone, Check, NoInput, InputEnds, Stop, GoTo, Positions, Children
  <2> QED
    BY <1>6, <2>1 DEF ChildGone, Check, NoInput, InputEnds, childVars
<1>7. CASE StopChild
  <2>1. at' \in Positions /\ who' \in Children
    BY <1>7 DEF StopChild, GoTo, Positions, Children
  <2> QED
    BY <1>7, <2>1 DEF StopChild
<1>8. CASE Interrupt
  <2>1. at' \in Positions /\ who' \in Children
    BY <1>8 DEF Interrupt, Stop, GoTo, Positions, Children
  <2>2. interrupts' \in 0 .. MaxInterrupts
    BY <1>8, SupervisorAssumption DEF Interrupt
  <2>3. child' \in [Children -> {"none", "starting", "reading", "working", "interrupted", "dead"}]
    BY <1>8 DEF Interrupt
  <2> QED
    BY <1>8, <2>1, <2>2, <2>3 DEF Interrupt
<1>9. ASSUME NEW c \in Children, ChildRuns(c) \/ ChildDies(c) PROVE SupervisorTypeOK'
  <2>1. /\ UNCHANGED supervisorVars
        /\ child' \in [Children -> {"none", "starting", "reading", "working", "interrupted",
                                    "dead"}]
    BY <1>9 DEF ChildRuns, ChildDies, ChildStarts, ChildReads, ChildAnswers, ChildSeesEnd,
                ChildEnds, Becomes
  <2>2. doing' \in [Children -> Commands] /\ stdin' \in [Children -> Seq(Commands)]
    <3>1. stdin[c] # <<>> => Head(stdin[c]) \in Commands /\ Tail(stdin[c]) \in Seq(Commands)
      OBVIOUS
    <3> QED
      BY <1>9, <3>1 DEF ChildRuns, ChildDies, ChildStarts, ChildReads, ChildAnswers,
                        ChildSeesEnd, ChildEnds
  <2>3. stdout' \in [Children -> Seq(Commands \cup {"ready"})]
    <3>1. CASE UNCHANGED stdout
      BY <3>1
    <3>2. ASSUME NEW line \in Commands \cup {"ready"},
                 stdout' = [stdout EXCEPT ![c] = Append(@, line)]
          PROVE  stdout' \in [Children -> Seq(Commands \cup {"ready"})]
      <4>1. Append(stdout[c], line) \in Seq(Commands \cup {"ready"})
        OBVIOUS
      <4> QED
        BY <3>2, <4>1
    <3>3. doing[c] \in Commands \cup {"ready"}
      OBVIOUS
    <3> QED
      BY <1>9, <3>1, <3>2, <3>3
      DEF ChildRuns, ChildDies, ChildStarts, ChildReads, ChildAnswers, ChildSeesEnd,
          ChildEnds, WriteAnswer
  <2> QED
    BY <2>1, <2>2, <2>3 DEF supervisorVars
<1>10. CASE UNCHANGED vars
  BY <1>10 DEF vars, supervisorVars, childVars
<1> QED
  BY <1>1, <1>2, <1>4, <1>5, <1>6, <1>7, <1>8, <1>9, <1>10 DEF Next, Supervise

\* The initial state is well typed.
LEMMA InitType == Init => SupervisorTypeOK
BY SupervisorAssumption DEF Init, SupervisorTypeOK, Positions, Children

\* THEOREM.  Every reachable state of the supervisor and its children is well typed.
THEOREM SupervisorTypeCorrect == Spec => []SupervisorTypeOK
BY InitType, NextType, PTL DEF Spec

-----------------------------------------------------------------------------
(***************************************************************************)
(* The conversation with the children                                      *)
(***************************************************************************)

\* Pipes of at most one line.
LEMMA OneLine ==
    ASSUME NEW line
    PROVE  /\ Append(<<>>, line) = <<line>>
           /\ Head(<<line>>) = line
           /\ Tail(<<line>>) = <<>>
           /\ <<line>> # <<>>
           /\ \A n \in DOMAIN <<line>> : <<line>>[n] = line
OBVIOUS

\* A child that nothing happens to stays where it is in the conversation.
LEMMA ConversationStays ==
    ASSUME NEW c \in Children, child'[c] = child[c], doing'[c] = doing[c],
           stdin'[c] = stdin[c], stdout'[c] = stdout[c]
    PROVE  /\ NotStarted(c) => NotStarted(c)'
           /\ Starting(c) => Starting(c)'
           /\ Waiting(c) => Waiting(c)'
           /\ Answering(c) /\ asked' = asked => Answering(c)'
BY DEF NotStarted, Starting, Waiting, Answering, PipesAre

\* What a child does moves it within the stage of its conversation.
LEMMA ChildMoves ==
    ASSUME SupervisorTypeOK, NEW c \in Children, ChildRuns(c) \/ ChildDies(c),
           at # "exited"
    PROVE  /\ ~NotStarted(c)
           /\ Starting(c) => Starting(c)'
           /\ Waiting(c) => Waiting(c)'
           /\ Answering(c) => Answering(c)'
           /\ \A d \in Children \ {c} :
                /\ child'[d] = child[d] /\ doing'[d] = doing[d]
                /\ stdin'[d] = stdin[d] /\ stdout'[d] = stdout[d]
<1> USE DEF SupervisorTypeOK
<1>0. asked' = asked /\ at' = at /\ who' = who
  BY DEF ChildRuns, ChildDies, ChildStarts, ChildReads, ChildAnswers, ChildSeesEnd, ChildEnds,
         supervisorVars
<1>1. CASE ChildStarts(c)
  <2>1. /\ child[c] = "starting"
        /\ child' = [child EXCEPT ![c] = "reading"]
        /\ stdout' = [stdout EXCEPT ![c] = Append(@, "ready")]
        /\ UNCHANGED <<doing, stdin>>
    BY <1>1 DEF ChildStarts, Connected, Becomes
  <2> QED
    BY <2>1, OneLine DEF NotStarted, Starting, Waiting, Answering, PipesAre
<1>2. CASE ChildReads(c)
  <2>1. /\ child[c] = "reading" /\ stdin[c] # <<>>
        /\ child' = [child EXCEPT ![c] = "working"]
        /\ doing' = [doing EXCEPT ![c] = Head(stdin[c])]
        /\ stdin' = [stdin EXCEPT ![c] = Tail(@)]
        /\ UNCHANGED stdout
    BY <1>2 DEF ChildReads, Becomes
  <2> QED
    BY <1>0, <2>1, OneLine DEF NotStarted, Starting, Waiting, Answering, PipesAre
<1>3. CASE ChildAnswers(c)
  <2>1. /\ child[c] = "working"
        /\ child' = [child EXCEPT ![c] = "reading"]
        /\ stdout' = [stdout EXCEPT ![c] = Append(@, doing[c])]
        /\ UNCHANGED <<doing, stdin>>
    BY <1>3 DEF ChildAnswers, Connected, Becomes, WriteAnswer
  <2> QED
    BY <1>0, <2>1, OneLine DEF NotStarted, Starting, Waiting, Answering, PipesAre
<1>4. CASE ChildSeesEnd(c) \/ ChildEnds(c) \/ ChildDies(c)
  <2>1. /\ child[c] # "none"
        /\ child' = [child EXCEPT ![c] = "dead"]
        /\ UNCHANGED <<doing, stdin, stdout>>
    BY <1>4 DEF ChildSeesEnd, ChildEnds, ChildDies, Becomes, Ended
  <2> QED
    BY <1>0, <2>1 DEF NotStarted, Starting, Waiting, Answering, PipesAre
<1> QED
  BY <1>1, <1>2, <1>3, <1>4 DEF ChildRuns

\* What a child does while the supervisor stops.
LEMMA RestMoves ==
    ASSUME SupervisorTypeOK, NEW c \in Children, ChildRuns(c) \/ ChildDies(c),
           at # "exited", \A d \in Children : AtRest(d)
    PROVE  \A d \in Children : AtRest(d)'
<1>1. child' = [child EXCEPT ![c] = "dead"] /\ UNCHANGED stdin
  BY DEF ChildRuns, ChildDies, ChildStarts, ChildReads, ChildAnswers, ChildSeesEnd, ChildEnds,
         EndOfInput, Connected, AtRest, Ended, Becomes
<1> QED
  BY <1>1 DEF SupervisorTypeOK, AtRest, Ended

\* Leaving the try block with all children at rest.
LEMMA StopsAtRest ==
    ASSUME Stop, UNCHANGED <<child, stdin>>, \A c \in Children : AtRest(c)
    PROVE  Conversation'
<1>1. at' = "stop"
  BY DEF Stop, GoTo
<1>2. \A c \in Children : AtRest(c)'
  BY DEF AtRest, Ended
<1> QED
  BY <1>1, <1>2 DEF Conversation

\* A child that has not started or waits is at rest.
LEMMA WaitingAtRest ==
    ASSUME NEW c \in Children, NotStarted(c) \/ Waiting(c)
    PROVE  AtRest(c)
BY DEF NotStarted, Waiting, PipesAre, AtRest, Ended

\* A step of a child keeps the conversation.
LEMMA ChildKeeps ==
    ASSUME SupervisorIInv, NEW c \in Children, ChildRuns(c) \/ ChildDies(c)
    PROVE  Conversation'
<1> USE DEF SupervisorIInv
<1>1. UNCHANGED supervisorVars
  BY DEF ChildRuns, ChildDies, ChildStarts, ChildReads, ChildAnswers, ChildSeesEnd, ChildEnds
<1>2. CASE at = "exited"
  BY <1>1, <1>2 DEF Conversation, supervisorVars
<1>3. CASE at = "stop"
  BY <1>1, <1>3, RestMoves DEF Conversation, supervisorVars
<1>4. CASE at \notin {"stop", "exited"}
  <2>1. /\ ~NotStarted(c)
        /\ Starting(c) => Starting(c)'
        /\ Waiting(c) => Waiting(c)'
        /\ Answering(c) => Answering(c)'
    BY <1>4, ChildMoves
  <2>2. \A d \in Children \ {c} : /\ NotStarted(d) => NotStarted(d)'
                                  /\ Starting(d) => Starting(d)'
                                  /\ Waiting(d) => Waiting(d)'
                                  /\ Answering(d) => Answering(d)'
    BY <1>1, <1>4, ChildMoves, ConversationStays DEF supervisorVars
  <2>3. /\ at' = at /\ who' = who /\ who \in Children
    BY <1>1 DEF supervisorVars, SupervisorTypeOK
  <2> QED
    BY <1>4, <2>1, <2>2, <2>3 DEF Conversation, Children
<1> QED
  BY <1>2, <1>3, <1>4

\* Starting: Popen, and the ready line.
LEMMA StartKeeps ==
    ASSUME SupervisorIInv, Spawn \/ SpawnFails \/ Ready
    PROVE  Conversation'
<1> USE DEF SupervisorIInv
<1>1. CASE SpawnFails
  <2>1. \A c \in Children : NotStarted(c) \/ Waiting(c)
    BY <1>1 DEF SpawnFails, Conversation, SupervisorTypeOK, Children
  <2> QED
    BY <1>1, <2>1, WaitingAtRest, StopsAtRest DEF SpawnFails, childVars
<1>2. CASE Spawn
  <2>1. /\ at = "spawn" /\ at' = "ready" /\ who' = who /\ who \in Children
        /\ child' = [child EXCEPT ![who] = "starting"] /\ UNCHANGED <<doing, stdin, stdout>>
    BY <1>2 DEF Spawn, GoTo, SupervisorTypeOK
  <2>2. Starting(who)'
    BY <2>1 DEF Conversation, NotStarted, Starting, PipesAre, SupervisorTypeOK
  <2>3. ASSUME NEW c \in Children \ {who}
        PROVE  (NotStarted(c) => NotStarted(c)') /\ (Waiting(c) => Waiting(c)')
    BY <2>1, <2>3, ConversationStays DEF SupervisorTypeOK
  <2> QED
    BY <2>1, <2>2, <2>3 DEF Conversation, Children
<1>3. CASE Ready
  <2>1. /\ at = "ready" /\ who \in Children /\ stdout[who] # <<>>
        /\ stdout' = [stdout EXCEPT ![who] = Tail(@)] /\ UNCHANGED <<child, doing, stdin>>
    BY <1>3 DEF Ready, ReadyConsumed, SupervisorTypeOK
  <2>2. /\ stdin'[who] = <<>> /\ stdout'[who] = <<>> /\ child'[who] \in {"reading", "dead"}
    BY <2>1, OneLine DEF Conversation, Starting, PipesAre, SupervisorTypeOK
  <2>3. ASSUME NEW c \in Children \ {who}
        PROVE  (NotStarted(c) => NotStarted(c)') /\ (Waiting(c) => Waiting(c)')
    BY <2>1, <2>3, ConversationStays DEF SupervisorTypeOK
  <2>4. CASE who = "alice"
    <3>1. at' = "spawn" /\ who' = "bob"
      BY <1>3, <2>4 DEF Ready, GoTo
    <3>2. Waiting("alice")'
      BY <2>2, <2>4 DEF Waiting, PipesAre
    <3>3. NotStarted("bob")'
      BY <2>1, <2>3, <2>4 DEF Conversation, Children
    <3> QED
      BY <3>1, <3>2, <3>3 DEF Conversation
  <2>5. CASE who = "bob"
    <3>1. at' = "hello"
      BY <1>3, <2>5 DEF Ready, GoTo
    <3>2. Waiting("bob")'
      BY <2>2, <2>5 DEF Waiting, PipesAre
    <3>3. Waiting("alice")'
      BY <2>1, <2>3, <2>5 DEF Conversation, Children
    <3> QED
      BY <3>1, <3>2, <3>3 DEF Conversation, Children
  <2> QED
    BY <2>1, <2>4, <2>5 DEF Children
<1> QED
  BY <1>1, <1>2, <1>3

\* Sending a command to a child, when both wait for one.
LEMMA SendKeeps ==
    ASSUME SupervisorTypeOK, \A c \in Children : Waiting(c), NEW c \in Children, NEW command,
           NEW position \in {"hello_reply", "reply"}, Send(c, command, position)
    PROVE  Conversation'
<1>1. CASE child[c] = "dead"
  BY <1>1, WaitingAtRest, StopsAtRest DEF Send
<1>2. CASE child[c] # "dead"
  <2>1. /\ at' = position /\ who' = c /\ asked' = command
        /\ stdin' = [stdin EXCEPT ![c] = Append(@, command)] /\ UNCHANGED <<child, doing, stdout>>
    BY <1>2 DEF Send, GoTo
  <2>2. Answering(c)'
    <3>1. stdin[c] = <<>> /\ stdout[c] = <<>> /\ child[c] \in {"reading", "dead"}
      BY DEF Waiting, PipesAre
    <3>2. stdin'[c] = <<asked'>>
      BY <2>1, <3>1, OneLine DEF SupervisorTypeOK
    <3> QED
      BY <2>1, <3>1, <3>2 DEF Answering, PipesAre
  <2>3. \A d \in Children \ {c} : Waiting(d)'
    BY <2>1, ConversationStays DEF SupervisorTypeOK
  <2> QED
    BY <2>1, <2>2, <2>3 DEF Conversation
<1> QED
  BY <1>1, <1>2

\* The answer arrives, and both children wait again.
LEMMA ReplyKeeps ==
    ASSUME SupervisorIInv, Reply
    PROVE  Conversation'
<1> USE DEF SupervisorIInv
<1>1. /\ at \in {"hello_reply", "reply"} /\ who \in Children /\ stdout[who] # <<>>
      /\ stdout' = [stdout EXCEPT ![who] = Tail(@)] /\ UNCHANGED <<child, doing, stdin>>
      /\ at' \in {"hello", "check"}
  BY DEF Reply, GoTo, SupervisorTypeOK
<1>2. \/ Waiting(who)
      \/ stdin[who] = <<>> /\ stdout[who] = <<asked>> /\ child[who] \in {"reading", "dead"}
  BY <1>1 DEF Conversation, Answering, Waiting, PipesAre
<1>3. stdin'[who] = <<>> /\ stdout'[who] = <<>> /\ child'[who] \in {"reading", "dead"}
  BY <1>1, <1>2, OneLine DEF Waiting, PipesAre, SupervisorTypeOK
<1>4. \A c \in Children \ {who} : Waiting(c)'
  BY <1>1, ConversationStays DEF Conversation, SupervisorTypeOK
<1>5. \A c \in Children : Waiting(c)'
  BY <1>3, <1>4 DEF Waiting, PipesAre
<1> QED
  BY <1>1, <1>5 DEF Conversation

\* A child has closed its output: it is dead, and the other one waits.
LEMMA GoneKeeps ==
    ASSUME SupervisorIInv, ChildGone
    PROVE  Conversation'
<1> USE DEF SupervisorIInv
<1>1. /\ at \in {"ready", "hello_reply", "reply"} /\ who \in Children /\ child[who] = "dead"
      /\ Stop /\ UNCHANGED <<child, stdin>>
  BY DEF ChildGone, GivesUp, Closed, childVars, SupervisorTypeOK
<1>2. \A c \in Children \ {who} : NotStarted(c) \/ Waiting(c)
  BY <1>1 DEF Conversation, Children
<1>3. AtRest(who)
  BY <1>1 DEF AtRest, Ended
<1> QED
  BY <1>1, <1>2, <1>3, WaitingAtRest, StopsAtRest

\* Every step keeps the conversation.
LEMMA NextConversation ==
    ASSUME SupervisorIInv, [Next]_vars
    PROVE  Conversation'
<1>1. SupervisorTypeOK /\ who \in Children
  BY DEF SupervisorIInv, SupervisorTypeOK
<1>2. at \in {"hello", "check", "input"} => \A c \in Children : Waiting(c)
  BY DEF SupervisorIInv, Conversation
<1>3. CASE Hello \/ OperatorCommand
  BY <1>1, <1>2, <1>3, SendKeeps DEF Hello, OperatorCommand
<1>4. CASE Check \/ NoInput \/ InputEnds
  <2>1. UNCHANGED <<child, doing, stdin, stdout>> /\ \A c \in Children : Waiting(c)
    BY <1>2, <1>4 DEF Check, NoInput, InputEnds, childVars
  <2>2. CASE Stop
    BY <2>1, <2>2, WaitingAtRest, StopsAtRest
  <2>3. CASE at' \in {"check", "input"}
    BY <2>1, <2>3, ConversationStays DEF Conversation
  <2> QED
    BY <1>4, <2>2, <2>3 DEF Check, NoInput, InputEnds, GoTo
<1>5. CASE StopChild
  <2>1. CASE at' = "exited"
    BY <2>1 DEF Conversation
  <2>2. CASE at' = "stop"
    <3>1. at = "stop" /\ UNCHANGED <<interrupts, stdin>>
      BY <1>5 DEF StopChild
    <3>2. \A c \in Children : child'[c] = child[c] \/ child'[c] = "dead"
      BY <1>1, <1>5 DEF StopChild, SupervisorTypeOK
    <3> QED
      BY <2>2, <3>1, <3>2 DEF SupervisorIInv, Conversation, AtRest, Ended
  <2> QED
    BY <1>5, <2>1, <2>2 DEF StopChild, GoTo
<1>6. CASE Interrupt
  <2>1. at' \in {"stop", "exited"}
    BY <1>6 DEF Interrupt, Stop, GoTo
  <2>2. interrupts' # 0
    BY <1>1, <1>6, SupervisorAssumption DEF Interrupt, SupervisorTypeOK
  <2> QED
    BY <2>1, <2>2 DEF Conversation
<1>7. CASE UNCHANGED vars
  BY <1>7 DEF SupervisorIInv, Conversation, NotStarted, Starting, Waiting, Answering, AtRest,
              Ended, PipesAre, vars, supervisorVars, childVars
<1> QED
  BY <1>3, <1>4, <1>5, <1>6, <1>7, StartKeeps, ReplyKeeps, GoneKeeps, ChildKeeps
  DEF Next, Supervise

\* A child does not come back, and its steps leave the supervisor alone.
LEMMA ChildrenStayEnded ==
    ASSUME SupervisorTypeOK, NEW d \in Children, ChildRuns(d) \/ ChildDies(d)
    PROVE  UNCHANGED supervisorVars /\ \A c \in Children : Ended(c) => Ended(c)'
<1>1. UNCHANGED supervisorVars
  BY DEF ChildRuns, ChildStarts, ChildReads, ChildAnswers, ChildSeesEnd, ChildEnds, ChildDies
<1>2. ~Ended(d) /\ \E status : Becomes(d, status)
  BY DEF ChildRuns, ChildStarts, ChildReads, ChildAnswers, ChildSeesEnd, ChildEnds, ChildDies,
         Ended
<1>3. \A c \in Children : c # d => child'[c] = child[c]
  BY <1>2 DEF Becomes, SupervisorTypeOK
<1> QED
  BY <1>1, <1>2, <1>3 DEF Ended

\* Every step keeps the handles right.
LEMMA NextHolding ==
    ASSUME SupervisorIInv, [Next]_vars
    PROVE  Holding'
<1>1. /\ SupervisorTypeOK /\ Conversation /\ Holding
      /\ who \in Children /\ child \in [Children -> {"none", "starting", "reading", "working",
                                                     "interrupted", "dead"}]
  BY DEF SupervisorIInv, SupervisorTypeOK
<1> USE DEF Children
\* main() may leave its try block when every child it has no handle of has ended.
<1>2. ASSUME Stop, UNCHANGED <<handles, interrupts, child>>,
             \A c \in Children : c \in handles \/ Ended(c)
      PROVE  Holding'
  BY <1>2 DEF Stop, GoTo, Holding, NothingLeftBehind, Ended
<1>3. CASE Spawn
  BY <1>1, <1>3 DEF Spawn, GoTo, Holding, NothingLeftBehind
<1>4. CASE SpawnFails
  <2>1. \A c \in Children : c \in handles \/ Ended(c)
    BY <1>1, <1>4 DEF SpawnFails, Holding, Conversation, NotStarted, Ended
  <2> QED
    BY <1>2, <1>4, <2>1 DEF SpawnFails, childVars
<1>5. CASE Ready
  BY <1>1, <1>5 DEF Ready, GoTo, Holding, NothingLeftBehind
<1>6. CASE Hello \/ OperatorCommand
  <2>1. PICK c \in Children, command \in Commands, position \in {"hello_reply", "reply"} :
          Send(c, command, position)
    BY <1>1, <1>6, SupervisorAssumption DEF Hello, OperatorCommand
  <2>2. handles = Children
    BY <1>1, <1>6 DEF Hello, OperatorCommand, Holding
  <2>3. CASE Stop
    BY <1>2, <2>1, <2>2, <2>3 DEF Send
  <2>4. CASE at' = position
    BY <2>1, <2>2, <2>4 DEF Send, Holding, NothingLeftBehind
  <2> QED
    BY <2>1, <2>3, <2>4 DEF Send, GoTo
<1>7. CASE Reply
  BY <1>1, <1>7 DEF Reply, GoTo, Holding, NothingLeftBehind
<1>8. CASE ChildGone
  <2>1. child[who] = "dead"
    BY <1>8 DEF ChildGone, GivesUp, Closed
  <2>2. \A c \in Children : c \in handles \/ Ended(c)
    BY <1>1, <1>8, <2>1 DEF ChildGone, Holding, Conversation, NotStarted, Ended
  <2> QED
    BY <1>2, <1>8, <2>2 DEF ChildGone, childVars
<1>9. CASE Check \/ NoInput \/ InputEnds
  <2>1. handles = Children /\ UNCHANGED <<handles, interrupts, child>>
    BY <1>1, <1>9 DEF Check, NoInput, InputEnds, Holding, childVars
  <2>2. CASE Stop
    BY <1>2, <2>1, <2>2
  <2>3. CASE at' \in {"check", "input"}
    BY <2>1, <2>3 DEF Holding, NothingLeftBehind
  <2> QED
    BY <1>9, <2>2, <2>3 DEF Check, NoInput, InputEnds, GoTo
<1>10. CASE StopChild
  <2>1. /\ at = "stop" /\ UNCHANGED <<handles, interrupts>>
        /\ at' = (IF who = "alice" THEN "stop" ELSE "exited")
        /\ who' = "bob"
    BY <1>1, <1>10 DEF StopChild, GoTo
  <2>2. \A c \in Children : Ended(c) => Ended(c)'
    BY <1>1, <1>10 DEF StopChild, Ended
  <2>3. interrupts = 0 => child'[who] \in {"none", "dead"}
    BY <1>1, <1>10, <2>1 DEF StopChild, Holding, Ended
  <2>4. CASE who = "alice"
    BY <1>1, <2>1, <2>2, <2>3, <2>4 DEF Holding, NothingLeftBehind, Ended
  <2>5. CASE who = "bob"
    BY <1>1, <2>1, <2>2, <2>3, <2>5 DEF Holding, NothingLeftBehind, Ended
  <2> QED
    BY <1>1, <2>4, <2>5
<1>11. CASE Interrupt
  <2>1. at' \in {"stop", "exited"}
    BY <1>11 DEF Interrupt, Stop, GoTo
  <2>2. interrupts' # 0
    BY <1>1, <1>11, SupervisorAssumption DEF Interrupt, SupervisorTypeOK
  <2> QED
    BY <2>1, <2>2 DEF Holding, NothingLeftBehind
<1>12. ASSUME NEW d \in Children, ChildRuns(d) \/ ChildDies(d)
       PROVE  Holding'
  <2>1. UNCHANGED supervisorVars /\ \A c \in Children : Ended(c) => Ended(c)'
    BY <1>1, <1>12, ChildrenStayEnded
  <2> QED
    BY <1>1, <2>1 DEF supervisorVars, Holding, NothingLeftBehind
<1>13. CASE UNCHANGED vars
  BY <1>1, <1>13 DEF vars, supervisorVars, childVars, Holding, NothingLeftBehind, Ended
<1> QED
  BY <1>3, <1>4, <1>5, <1>6, <1>7, <1>8, <1>9, <1>10, <1>11, <1>12, <1>13 DEF Next, Supervise

\* THEOREM.  The position of the supervisor tells how far the conversation with each
\* child is, in every reachable state.
THEOREM SupervisorInvariance == Spec => []SupervisorIInv
<1>1. Init => SupervisorIInv
  <2> SUFFICES ASSUME Init PROVE Conversation /\ Holding
    BY InitType DEF SupervisorIInv
  <2>1. Conversation
    BY DEF Init, Conversation, NotStarted, PipesAre, Children
  <2>2. Holding
    BY DEF Init, Holding, NothingLeftBehind
  <2> QED
    BY <2>1, <2>2
<1>2. SupervisorIInv /\ [Next]_vars => SupervisorIInv'
  BY NextType, NextConversation, NextHolding DEF SupervisorIInv
<1> QED
  BY <1>1, <1>2, PTL DEF Spec

\* THEOREM.  A response is the answer to the command that was sent, whatever the
\* commands and whenever children die or interrupts come.
THEOREM AnswersAlwaysMatch == Spec => []AnswersMatch
<1>1. SupervisorIInv => AnswersMatch
  <2> SUFFICES ASSUME SupervisorIInv PROVE AnswersMatch
    OBVIOUS
  <2>1. at \in {"hello_reply", "reply"} => \A n \in DOMAIN stdout[who] : stdout[who][n] = asked
    <3>1. at \in {"hello_reply", "reply"} => stdout[who] = <<>> \/ stdout[who] = <<asked>>
      BY DEF SupervisorIInv, Conversation, Answering, PipesAre
    <3> QED
      BY <3>1, OneLine
  <2>2. at \in {"hello", "check", "input"} => stdout[who] = <<>>
    BY DEF SupervisorIInv, SupervisorTypeOK, Conversation, Waiting, PipesAre
  <2> QED
    BY <2>1, <2>2 DEF AnswersMatch
<1> QED
  BY <1>1, SupervisorInvariance, PTL

\* THEOREM.  An uninterrupted supervisor stops no child in the middle of a command.
THEOREM NoCommandIsCut == Spec => []StoppedBetweenCommands
<1>1. SupervisorIInv => StoppedBetweenCommands
  BY DEF SupervisorIInv, Conversation, AtRest, Ended, StoppedBetweenCommands
<1> QED
  BY <1>1, SupervisorInvariance, PTL

\* THEOREM.  An uninterrupted supervisor leaves no child behind, not even one that it
\* failed to start: there is no state in which it is gone and a child still runs.
THEOREM NoChildLeftBehind == Spec => []NothingLeftBehind
<1>1. SupervisorIInv => NothingLeftBehind
  BY DEF SupervisorIInv, Holding
<1> QED
  BY <1>1, SupervisorInvariance, PTL
==============================================================================
