-------------------------- MODULE AgentJobsProofs --------------------------
(***************************************************************************)
(* Proofs about AgentJobs, for any jobs, sessions, grants and bound: what  *)
(* a tool was started with, what a refusal ends, and what a session shows. *)
(* The first two follow from one invariant about each job by itself; it    *)
(* needs no more than that steps of others leave the job as it is.         *)
(***************************************************************************)
EXTENDS AgentJobs, FiniteSetTheorems, TLAPS

\* Stages of a job that has a call at hand, and those that await a decision.
Awaiting == {"card"} \union Waiting
AtHand == {"preview", "tool", "running"} \union Awaiting \union Decisions
\* Stages in which every card was followed by its tool.
Settled == {"none", "named", "listed", "config", "turn", "ask", "call", "running"}

Types ==
    /\ stage \in [Jobs -> Stages]
    /\ session \in [Jobs -> Sessions]
    /\ asked \in [Jobs -> SUBSET Permissions] /\ allow \in [Jobs -> SUBSET Tools]
    /\ calls \in [Jobs -> Seq(Tools)] /\ at \in [Jobs -> Nat]
    /\ pending \in [Jobs -> Decisions \union {"none", "open"}]
    /\ said \in [Jobs -> SUBSET (Nat \X {"once", "always"})]
    /\ ran \in [Jobs -> SUBSET Nat] /\ cards \in [Jobs -> SUBSET Nat]
    /\ active \in [Sessions -> Jobs \union {NoJob, "deleted"}]

\* A job goes through its calls in order, and runs none of them twice.
Order(j) ==
    /\ at[j] <= Len(calls[j]) /\ (stage[j] = "call" => at[j] < Len(calls[j]))
    /\ stage[j] \in AtHand => at[j] > 0
    /\ ran[j] \union cards[j] \subseteq 1..at[j]
    /\ stage[j] \in AtHand \ {"running"} => at[j] \notin ran[j]
    /\ stage[j] = "none" => ran[j] = {}

\* No card is left behind without its tool having been started.
Refusal(j) ==
    /\ stage[j] \in Settled => cards[j] \subseteq ran[j]
    /\ \A c \in cards[j] : c < at[j] => c \in ran[j]

\* A decision is only there while it is awaited, and is the user's on this call's id.
Heard(j) ==
    /\ pending[j] # "none" => stage[j] \in Awaiting \union Decisions
    /\ stage[j] \in Awaiting => pending[j] # "none"
    /\ pending[j] \in {"once", "always"} => <<call_id(j, at[j]), pending[j]>> \in said[j]
    /\ stage[j] \in {"once", "always"} => <<call_id(j, at[j]), stage[j]>> \in said[j]

\* The permissions that a job has come from its request or from the user.
Remembered(j) ==
    \A tool \in allow[j] :
        \/ tool \in asked[j]
        \/ \E b \in 1..at[j] : calls[j][b] = tool /\ <<call_id(j, b), "always">> \in said[j]

Permitted(j, c) ==
    \/ calls[j][c] \in asked[j] \union {"free"}
    \/ \E d \in {"once", "always"} : <<call_id(j, c), d>> \in said[j]
    \/ \E b \in 1..(c - 1) : calls[j][b] = calls[j][c] /\ <<call_id(j, b), "always">> \in said[j]

Approved(j) ==
    /\ stage[j] = "tool" => Permitted(j, at[j])
    /\ \A c \in ran[j] : Permitted(j, c)

JobInv(j) == Order(j) /\ Refusal(j) /\ Heard(j) /\ Remembered(j) /\ Approved(j)

AgentInv == \A j \in Jobs : JobInv(j)

\* A session shows only a job of its own that has not finished.
ShownInv ==
    \A s \in Sessions : active[s] \in Jobs =>
        session[active[s]] = s /\ stage[active[s]] \notin Finished
-----------------------------------------------------------------------------
\* What a provider may answer with is a sequence of calls, and goes at the end.
LEMMA Answers ==
    ASSUME NEW m, NEW more \in UNION {[1..n -> Tools] : n \in 0..m}
    PROVE  more \in Seq(Tools)
<1>1. PICK n \in 0..m : more \in [1..n -> Tools] OBVIOUS
<1>2. n \in Nat OBVIOUS
<1> QED BY <1>1, <1>2

LEMMA Appended ==
    ASSUME NEW p \in Seq(Tools), NEW q \in Seq(Tools)
    PROVE  /\ p \o q \in Seq(Tools) /\ Len(p) <= Len(p \o q)
           /\ \A i \in 1..Len(p) : (p \o q)[i] = p[i]
           /\ q # <<>> => Len(p) < Len(p \o q)
OBVIOUS

LEMMA Unmoved ==
    ASSUME NEW j \in Jobs, JobInv(j),
           stage'[j] = stage[j], asked'[j] = asked[j], allow'[j] = allow[j],
           calls'[j] = calls[j], at'[j] = at[j], pending'[j] = pending[j],
           cards'[j] = cards[j], said'[j] = said[j], ran'[j] = ran[j]
    PROVE  JobInv(j)'
<1>1. Order(j)' BY DEF JobInv, Order
<1>2. Refusal(j)' BY DEF JobInv, Refusal
<1>3. Heard(j)' BY DEF JobInv, Heard
<1>4. Remembered(j)' BY DEF JobInv, Remembered
<1>5. Approved(j)' BY DEF JobInv, Approved, Permitted
<1> QED BY <1>1, <1>2, <1>3, <1>4, <1>5 DEF JobInv

-----------------------------------------------------------------------------
LEMMA TypesStep ==
    ASSUME AgentAssumption, Types, AgentInv, [Next]_vars
    PROVE  Types'
<1> USE DEF Types, locals, approval, rows, history, At, Go
<1>1. ASSUME NEW j \in Jobs, CreateStep(j) PROVE Types'
  BY ZenonT(40), <1>1 DEF CreateStep, Register, Spawn, Stages
<1>2. ASSUME NEW j \in Jobs, AskStep(j) PROVE Types'
  <2>1. CASE call_agent_provider(j)
    BY <2>1, Answers, Appended DEF call_agent_provider, Stages
  <2> QED BY ZenonT(40), <1>2, <2>1 DEF AskStep, Configure, Turn, AskCancelled, AskFail, Stages
<1>3. ASSUME NEW j \in Jobs, CallStep(j) PROVE Types'
  <2>1. CASE NextCall(j) BY <2>1 DEF NextCall, Stages
  <2>2. CASE SetPending(j) BY <2>2 DEF SetPending, Stages
  <2>3. CASE ShowCard(j) BY <2>3 DEF ShowCard, Stages, Waiting
  <2>4. CASE WaitTurn(j) BY <2>4 DEF WaitTurn, Stages, Waiting, Decisions
  <2>5. CASE Park(j) \/ WakeUp(j) BY ZenonT(40), <2>5 DEF Park, WakeUp, Stages, Waiting
  <2>6. CASE WaitCancelled(j) \/ Reject(j)
    BY ZenonT(40), <2>6 DEF WaitCancelled, Reject, Stages, Decisions
  <2>7. CASE Approve(j)
    <3>1. at[j] \in 1..Len(calls[j])
      BY <2>7 DEF Approve, AgentInv, JobInv, Order, AtHand, Decisions
    <3>2. Tool(j) \in Tools BY <3>1 DEF Tool
    <3>3. "tool" \in Stages BY DEF Stages
    <3> QED BY <2>7, <3>2, <3>3 DEF Approve, Permissions, Tools
  <2>8. CASE execute_agent_tool(j) BY <2>8 DEF execute_agent_tool, Stages
  <2>9. CASE ToolResult(j) BY <2>9 DEF ToolResult, Stages
  <2> QED BY <1>3, <2>1, <2>2, <2>3, <2>4, <2>5, <2>6, <2>7, <2>8, <2>9 DEF CallStep
<1>4. ASSUME NEW j \in Jobs, EndStep(j) PROVE Types'
  <2>1. CASE Unlist(j)
    <3>1. <<>> \in Seq(Tools) /\ "gone" \in Stages BY DEF Stages, Finished
    <3> QED BY <2>1, <3>1 DEF Unlist
  <2>2. CASE ClearSession(j)
    BY <2>2 DEF ClearSession, set_session_job, Stages, Finished
  <2> QED BY ZenonT(40), <1>4, <2>1, <2>2 DEF EndStep, TellEnd, Done, Stages, Finished
<1>5. ASSUME NEW j \in Jobs, UserStep(j) PROVE Types'
  <2>1. ASSUME NEW granted \in Grants, create_agent_job(j, granted) PROVE Types'
    BY <2>1 DEF create_agent_job, set_session_job, Stages, AgentAssumption, Permissions, Tools
  <2>2. CASE Cancel(j) BY <2>2 DEF Cancel
  <2>3. ASSUME NEW i \in Ids, NEW d \in Decisions, Answer(j, i, d) PROVE Types'
    <3>1. d # "reject" => <<i, d>> \in Nat \X {"once", "always"}
      BY AgentAssumption DEF Ids, Calls, Decisions
    <3>2. said' \in [Jobs -> SUBSET (Nat \X {"once", "always"})]
      BY <2>3, <3>1 DEF Answer
    <3>3. pending' = [pending EXCEPT ![j] = d] \/ pending' = pending
      BY <2>3 DEF Answer, resolve_tool_approval
    <3>4. UNCHANGED <<stage, locals, AI_JOBS, rows, cards, ran>>
      BY <2>3 DEF Answer
    <3>5. pending' \in [Jobs -> Decisions \union {"none", "open"}]
      BY ZenonT(40), <3>3
    <3> QED BY <3>2, <3>4, <3>5
  <2> QED BY <1>5, <2>1, <2>2, <2>3 DEF UserStep
<1>6. ASSUME NEW s \in Sessions, SessionStep(s) PROVE Types'
  BY <1>6 DEF SessionStep, delete_session, DeleteRow, CleanUp
<1>7. CASE UNCHANGED vars BY <1>7 DEF vars
<1> QED BY <1>1, <1>2, <1>3, <1>4, <1>5, <1>6, <1>7 DEF Next, JobStep

-----------------------------------------------------------------------------
LEMMA Others ==
    ASSUME Types, AgentInv, NEW j \in Jobs, JobStep(j) \/ UserStep(j),
           NEW k \in Jobs \ {j}
    PROVE  JobInv(k)'
<1> USE DEF Types, locals, approval, rows, history, At, Go
<1>0. JobInv(k) BY DEF AgentInv
<1>1. CASE CreateStep(j) BY <1>0, <1>1, Unmoved DEF CreateStep, Register, Spawn
<1>2. CASE AskStep(j)
  BY <1>0, <1>2, Unmoved DEF AskStep, Configure, Turn, AskCancelled, AskFail, call_agent_provider
<1>3. CASE NextCall(j) \/ SetPending(j) \/ ShowCard(j) \/ WaitTurn(j)
  BY <1>0, <1>3, Unmoved DEF NextCall, SetPending, ShowCard, WaitTurn
<1>4. CASE Park(j) \/ WakeUp(j) \/ WaitCancelled(j) \/ Approve(j)
  BY <1>0, <1>4, Unmoved DEF Park, WakeUp, WaitCancelled, Approve
<1>5. CASE Reject(j) \/ execute_agent_tool(j) \/ ToolResult(j)
  BY <1>0, <1>5, Unmoved DEF Reject, execute_agent_tool, ToolResult
<1>6. CASE EndStep(j)
  BY <1>0, <1>6, Unmoved DEF EndStep, TellEnd, ClearSession, Done, Unlist
<1>7. CASE UserStep(j)
  BY <1>0, <1>7, Unmoved DEF UserStep, create_agent_job, Cancel, Answer, resolve_tool_approval
<1> QED BY <1>1, <1>2, <1>3, <1>4, <1>5, <1>6, <1>7 DEF JobStep, CallStep

\* What was remembered or permitted stays so while the job only goes on.
GoesOn(j) ==
    /\ asked'[j] = asked[j] /\ said[j] \subseteq said'[j]
    /\ at[j] \in Nat /\ at'[j] \in Nat /\ at[j] <= at'[j]
    /\ \A b \in 1..at[j] : calls'[j][b] = calls[j][b]

LEMMA RememberedStays ==
    ASSUME NEW j \in Jobs, Remembered(j), GoesOn(j), allow'[j] = allow[j]
    PROVE  Remembered(j)'
<1> SUFFICES ASSUME NEW tool \in allow[j], tool \notin asked[j]
             PROVE  \E b \in 1..at'[j] : calls'[j][b] = tool /\ <<call_id(j, b), "always">> \in said'[j]
  BY DEF Remembered, GoesOn
<1>1. PICK b \in 1..at[j] : calls[j][b] = tool /\ <<call_id(j, b), "always">> \in said[j]
  BY DEF Remembered
<1>2. b \in 1..at'[j] /\ calls'[j][b] = tool /\ <<call_id(j, b), "always">> \in said'[j]
  BY <1>1 DEF GoesOn
<1> QED BY <1>2

LEMMA PermittedStays ==
    ASSUME NEW j \in Jobs, NEW c \in 1..at[j], Permitted(j, c), GoesOn(j)
    PROVE  Permitted(j, c)'
<1>1. calls'[j][c] = calls[j][c] /\ 1..(c - 1) \subseteq 1..at[j] BY DEF GoesOn
<1>2. CASE calls[j][c] \in asked[j] \union {"free"}
  BY <1>1, <1>2 DEF GoesOn, Permitted
<1>3. CASE \E d \in {"once", "always"} : <<call_id(j, c), d>> \in said[j]
  BY <1>3 DEF GoesOn, Permitted
<1>4. CASE \E b \in 1..(c - 1) : calls[j][b] = calls[j][c] /\ <<call_id(j, b), "always">> \in said[j]
  BY <1>1, <1>4 DEF GoesOn, Permitted
<1> QED BY <1>2, <1>3, <1>4 DEF Permitted

\* A step that leaves a job where it is in its calls.
LEMMA Moved ==
    ASSUME NEW j \in Jobs, JobInv(j), at[j] \in Nat,
           asked'[j] = asked[j], allow'[j] = allow[j], calls'[j] = calls[j],
           at'[j] = at[j], said'[j] = said[j], ran'[j] = ran[j], cards'[j] = cards[j],
           stage'[j] # "none", stage'[j] = "tool" => stage[j] = "tool",
           stage'[j] = "call" => at[j] < Len(calls[j]),
           stage'[j] \in AtHand => stage[j] \in AtHand,
           stage'[j] \in AtHand \ {"running"} => at[j] \notin ran[j],
           stage'[j] \in Settled => cards[j] \subseteq ran[j],
           Heard(j)'
    PROVE  JobInv(j)'
<1>1. Order(j)' BY DEF JobInv, Order
<1>2. Refusal(j)' BY DEF JobInv, Refusal
<1>3. GoesOn(j) BY DEF GoesOn
<1>4. Remembered(j)' BY <1>3, RememberedStays DEF JobInv
<1>5. Approved(j)' BY DEF JobInv, Approved, Permitted
<1> QED BY <1>1, <1>2, <1>4, <1>5 DEF JobInv

LEMMA InvStep ==
    ASSUME AgentAssumption, Types, AgentInv, [Next]_vars
    PROVE  AgentInv'
<1> DEFINE Rest(j) ==
        /\ asked'[j] = asked[j] /\ allow'[j] = allow[j] /\ calls'[j] = calls[j]
        /\ at'[j] = at[j] /\ said'[j] = said[j] /\ ran'[j] = ran[j] /\ at[j] \in Nat
<1> USE DEF locals, approval, rows, history, At, Go, Waiting, Decisions,
        Awaiting, AtHand, Settled
<1>1. ASSUME NEW j \in Jobs, CreateStep(j) PROVE JobInv(j)'
  <2>0. JobInv(j) BY DEF AgentInv
  <2>1. /\ Rest(j) /\ cards'[j] = cards[j] /\ pending'[j] = pending[j]
        /\ stage[j] \in {"named", "listed"} /\ stage'[j] \in {"listed", "config"}
    BY <1>1 DEF Types, CreateStep, Register, Spawn
  <2>2. Heard(j)' BY <2>0, <2>1 DEF JobInv, Heard
  <2>3. cards[j] \subseteq ran[j] BY <2>0, <2>1 DEF JobInv, Refusal
  <2> QED BY <2>0, <2>1, <2>2, <2>3, Moved
<1>2. ASSUME NEW j \in Jobs, AskStep(j) PROVE JobInv(j)'
  <2>0. JobInv(j) BY DEF AgentInv
  <2>1. CASE call_agent_provider(j)
    <3> PICK more \in UNION {[1..n -> Tools] : n \in 0..(MaxWork - Work)} :
          /\ calls' = [calls EXCEPT ![j] = @ \o more]
          /\ Go(j, IF more = <<>> THEN "save" ELSE "call")
      BY <2>1 DEF call_agent_provider
    <3>1. /\ \A i \in 1..Len(calls[j]) : calls'[j][i] = calls[j][i]
          /\ Len(calls[j]) <= Len(calls'[j])
          /\ stage'[j] = "call" => Len(calls[j]) < Len(calls'[j])
          /\ stage'[j] \in {"save", "call"}
          /\ Len(calls[j]) \in Nat /\ Len(calls'[j]) \in Nat
      BY Answers, Appended DEF Types
    <3>2. /\ asked'[j] = asked[j] /\ allow'[j] = allow[j] /\ at'[j] = at[j]
          /\ said'[j] = said[j] /\ ran'[j] = ran[j] /\ cards'[j] = cards[j]
          /\ pending'[j] = pending[j] /\ at[j] \in Nat /\ stage[j] = "ask"
      BY <2>1 DEF call_agent_provider, Types
    <3>3. Order(j)' BY <2>0, <3>1, <3>2 DEF JobInv, Order
    <3>4. Refusal(j)' BY <2>0, <3>1, <3>2 DEF JobInv, Refusal
    <3>5. Heard(j)' BY <2>0, <3>1, <3>2 DEF JobInv, Heard
    <3>6. GoesOn(j) BY <2>0, <3>1, <3>2 DEF JobInv, Order, GoesOn
    <3>7. Remembered(j)' BY <2>0, <3>2, <3>6, RememberedStays DEF JobInv
    <3>8. Approved(j)'
      <4>1. \A c \in ran[j] : c \in 1..at[j] /\ Permitted(j, c)
        BY <2>0 DEF JobInv, Order, Approved
      <4> QED BY <3>1, <3>2, <3>6, <4>1, PermittedStays DEF Approved
    <3> QED BY <3>3, <3>4, <3>5, <3>7, <3>8 DEF JobInv
  <2>2. CASE Configure(j) \/ Turn(j) \/ AskCancelled(j) \/ AskFail(j)
    <3>1. /\ Rest(j) /\ cards'[j] = cards[j] /\ pending'[j] = pending[j]
          /\ stage[j] \in {"config", "turn", "ask"}
          /\ stage'[j] \in {"turn", "fail", "cancel", "ask"}
      BY <2>2 DEF Types, Configure, Turn, AskCancelled, AskFail
    <3>2. Heard(j)' BY <2>0, <3>1 DEF JobInv, Heard
    <3>3. cards[j] \subseteq ran[j] BY <2>0, <3>1 DEF JobInv, Refusal
    <3> QED BY <2>0, <3>1, <3>2, <3>3, Moved
  <2> QED BY <1>2, <2>1, <2>2 DEF AskStep
<1>3. ASSUME NEW j \in Jobs, CallStep(j) PROVE JobInv(j)'
  <2>0. JobInv(j) BY DEF AgentInv
  <2>1. CASE NextCall(j)
    <3> DEFINE c == at[j] + 1
    <3>1. /\ at'[j] = c /\ at[j] \in Nat /\ c <= Len(calls[j]) /\ stage[j] = "call"
          /\ asked'[j] = asked[j] /\ allow'[j] = allow[j] /\ calls'[j] = calls[j]
          /\ said'[j] = said[j] /\ ran'[j] = ran[j] /\ cards'[j] = cards[j]
          /\ pending'[j] = pending[j] /\ stage'[j] \in {"tool", "preview"}
          /\ stage'[j] = "tool" => tool_permission_granted(calls[j][c], allow[j])
      BY <2>0, <2>1 DEF NextCall, JobInv, Order, Types
    <3>2. Order(j)' BY <2>0, <3>1 DEF JobInv, Order
    <3>3. Refusal(j)' BY <2>0, <3>1 DEF JobInv, Refusal, Order
    <3>4. Heard(j)' BY <2>0, <3>1 DEF JobInv, Heard
    <3>5. GoesOn(j) BY <3>1 DEF GoesOn
    <3>6. Remembered(j)' BY <2>0, <3>1, <3>5, RememberedStays DEF JobInv
    <3>7. Approved(j)'
      <4>1. stage'[j] = "tool" => Permitted(j, c)
        BY <2>0, <3>1 DEF JobInv, Remembered, Permitted, tool_permission_granted
      <4>2. \A b \in ran[j] : b \in 1..at[j] /\ Permitted(j, b)
        BY <2>0 DEF JobInv, Order, Approved
      <4>3. \A b \in ran[j] : Permitted(j, b)' BY <3>5, <4>2, PermittedStays
      <4>4. stage'[j] = "tool" => Permitted(j, at[j])' BY <3>1, <4>1 DEF Permitted
      <4> QED BY <3>1, <4>3, <4>4 DEF Approved
    <3> QED BY <3>2, <3>3, <3>4, <3>6, <3>7 DEF JobInv
  <2>2. CASE SetPending(j) \/ ShowCard(j) \/ WaitTurn(j) \/ Park(j) \/ WakeUp(j)
    <3>1. Rest(j) /\ stage[j] \in {"preview"} \union Awaiting
      BY <2>2 DEF SetPending, ShowCard, WaitTurn, Park, WakeUp, Types
    <3>0. pending[j] # "none" => pending[j] \in Decisions \union {"open"} BY DEF Types
    <3>2. /\ stage'[j] \in AtHand \ {"preview", "tool", "running"}
          /\ cards'[j] \subseteq cards[j] \union {at[j]}
          /\ pending'[j] = pending[j] \/ (stage'[j] = "card" /\ pending'[j] = "open")
          /\ stage'[j] \in Decisions => stage'[j] = pending[j]
          /\ stage[j] = "preview" => stage'[j] = "card" /\ pending'[j] = "open"
      <4>1. CASE SetPending(j)
        <5>1. /\ stage[j] = "preview" /\ stage'[j] = "card" /\ pending'[j] = "open"
              /\ cards'[j] = cards[j]
          BY <4>1 DEF SetPending, Types
        <5> QED BY <5>1
      <4>2. CASE ShowCard(j)
        <5>1. /\ stage[j] = "card" /\ stage'[j] = "wait" /\ pending'[j] = pending[j]
              /\ cards'[j] = cards[j] \union {at[j]}
          BY <4>2 DEF ShowCard, Types
        <5> QED BY <5>1
      <4>3. CASE WaitTurn(j)
        <5>1. pending[j] # "none" BY <2>0, <4>3 DEF WaitTurn, JobInv, Heard
        <5>2. /\ stage[j] = "wait" /\ pending'[j] = pending[j] /\ cards'[j] = cards[j]
              /\ stage'[j] = IF pending[j] = "open" THEN "poll" ELSE pending[j]
          BY <4>3 DEF WaitTurn, Types
        <5> QED BY <3>0, <5>1, <5>2
      <4>4. CASE Park(j) \/ WakeUp(j)
        <5>1. /\ stage[j] \in Waiting /\ stage'[j] \in Waiting
              /\ pending'[j] = pending[j] /\ cards'[j] = cards[j]
          BY <4>4 DEF Park, WakeUp, Types
        <5> QED BY <5>1
      <4> QED BY <2>2, <4>1, <4>2, <4>3, <4>4
    <3>3. at[j] > 0 /\ at[j] \notin ran[j] BY <2>0, <3>1 DEF JobInv, Order
    <3>4. Order(j)' BY <2>0, <3>1, <3>2, <3>3 DEF JobInv, Order
    <3>5. Refusal(j)' BY <2>0, <3>1, <3>2, <3>3 DEF JobInv, Refusal
    <3>6. Heard(j)' BY <2>0, <3>1, <3>2 DEF JobInv, Heard
    <3>7. Remembered(j)' BY <2>0, <3>1 DEF JobInv, Remembered
    <3>8. Approved(j)' BY <2>0, <3>1, <3>2 DEF JobInv, Approved, Permitted
    <3> QED BY <3>4, <3>5, <3>6, <3>7, <3>8 DEF JobInv
  <2>3. CASE WaitCancelled(j) \/ Reject(j)
    <3>1. /\ Rest(j) /\ cards'[j] = cards[j] /\ pending'[j] = "none"
          /\ \/ stage[j] \in Waiting /\ stage'[j] = "reject"
             \/ stage[j] = "reject" /\ stage'[j] = "save"
      BY <2>3 DEF WaitCancelled, Reject, Types
    <3>2. Heard(j)' BY <3>1 DEF Heard
    <3>3. stage'[j] = "reject" => at[j] \notin ran[j] BY <2>0, <3>1 DEF JobInv, Order
    <3> QED BY <2>0, <3>1, <3>2, <3>3, Moved
  <2>4. CASE Approve(j)
    <3>1. /\ asked'[j] = asked[j] /\ calls'[j] = calls[j] /\ at'[j] = at[j] /\ at[j] \in Nat
          /\ said'[j] = said[j] /\ ran'[j] = ran[j] /\ cards'[j] = cards[j]
          /\ stage[j] \in {"once", "always"} /\ <<call_id(j, at[j]), stage[j]>> \in said[j]
          /\ stage'[j] = "tool" /\ pending'[j] = "none" /\ at[j] > 0
          /\ \A t \in allow'[j] :
                t \in allow[j] \/ (t = calls[j][at[j]] /\ <<call_id(j, at[j]), "always">> \in said[j])
      BY ZenonT(40), <2>0, <2>4 DEF Approve, JobInv, Order, Heard, Tool, Types
    <3>2. Order(j)' BY <2>0, <3>1 DEF JobInv, Order
    <3>3. Refusal(j)' BY <2>0, <3>1 DEF JobInv, Refusal
    <3>4. Heard(j)' BY <2>0, <3>1 DEF JobInv, Heard
    <3>5. Remembered(j)'
      <4>1. at[j] \in 1..at[j] BY <3>1
      <4> QED BY <2>0, <3>1, <4>1 DEF JobInv, Remembered
    <3>6. Approved(j)' BY <2>0, <3>1 DEF JobInv, Approved, Permitted
    <3> QED BY <3>2, <3>3, <3>4, <3>5, <3>6 DEF JobInv
  <2>5. CASE execute_agent_tool(j)
    <3>1. /\ asked'[j] = asked[j] /\ allow'[j] = allow[j] /\ calls'[j] = calls[j]
          /\ at'[j] = at[j] /\ said'[j] = said[j] /\ cards'[j] = cards[j]
          /\ pending'[j] = pending[j] /\ stage[j] = "tool" /\ stage'[j] = "running" /\ at[j] > 0
          /\ ran'[j] = ran[j] \union {at[j]} /\ at[j] \in Nat
      BY <2>0, <2>5 DEF execute_agent_tool, JobInv, Order, Types
    <3>2. Order(j)' BY <2>0, <3>1 DEF JobInv, Order
    <3>3. Refusal(j)' BY <2>0, <3>1 DEF JobInv, Refusal, Order
    <3>4. Heard(j)' BY <2>0, <3>1 DEF JobInv, Heard
    <3>5. Remembered(j)' BY <2>0, <3>1 DEF JobInv, Remembered
    <3>6. Approved(j)' BY <2>0, <3>1 DEF JobInv, Approved, Permitted
    <3> QED BY <3>2, <3>3, <3>4, <3>5, <3>6 DEF JobInv
  <2>6. CASE ToolResult(j)
    <3>1. /\ Rest(j) /\ cards'[j] = cards[j] /\ pending'[j] = pending[j]
          /\ stage[j] = "running" /\ stage'[j] \in {"turn", "call"}
          /\ stage'[j] = "call" => at[j] # Len(calls[j])
          /\ Len(calls[j]) \in Nat
      BY <2>6 DEF ToolResult, Types
    <3>2. Heard(j)' BY <2>0, <3>1 DEF JobInv, Heard
    <3>3. cards[j] \subseteq ran[j] /\ at[j] <= Len(calls[j])
      BY <2>0, <3>1 DEF JobInv, Order, Refusal
    <3> QED BY <2>0, <3>1, <3>2, <3>3, Moved
  <2> QED BY <1>3, <2>1, <2>2, <2>3, <2>4, <2>5, <2>6 DEF CallStep
<1>4. ASSUME NEW j \in Jobs, EndStep(j) PROVE JobInv(j)'
  <2>0. JobInv(j) BY DEF AgentInv
  <2>1. CASE Unlist(j)
    <3>1. /\ calls'[j] = <<>> /\ at'[j] = 0 /\ Len(<<>>) = 0
          /\ allow'[j] = {} /\ cards'[j] = {} /\ ran'[j] = {}
          /\ stage[j] = "unlist" /\ stage'[j] = "gone" /\ pending'[j] = pending[j]
      BY <2>1 DEF Unlist, Types
    <3> QED BY <2>0, <3>1 DEF JobInv, Order, Refusal, Heard, Remembered, Approved
  <2>2. CASE TellEnd(j) \/ ClearSession(j) \/ Done(j)
    <3>1. /\ Rest(j) /\ cards'[j] = cards[j] /\ pending'[j] = pending[j]
          /\ stage[j] \in {"save", "fail", "cancel", "clear", "done"}
          /\ stage'[j] \in {"clear", "done", "unlist"}
      BY <2>2 DEF TellEnd, ClearSession, Done, Types
    <3>2. Heard(j)' BY <2>0, <3>1 DEF JobInv, Heard
    <3> QED BY <2>0, <3>1, <3>2, Moved
  <2> QED BY <1>4, <2>1, <2>2 DEF EndStep
<1>5. ASSUME NEW j \in Jobs, UserStep(j) PROVE JobInv(j)'
  <2>0. JobInv(j) BY DEF AgentInv
  <2>1. ASSUME NEW granted \in Grants, create_agent_job(j, granted) PROVE JobInv(j)'
    <3>1. /\ asked'[j] = granted /\ allow'[j] = granted /\ calls'[j] = calls[j]
          /\ at'[j] = at[j] /\ said'[j] = said[j] /\ ran'[j] = ran[j]
          /\ cards'[j] = cards[j] /\ pending'[j] = pending[j]
          /\ stage[j] = "none" /\ stage'[j] = "named"
      BY <2>1 DEF create_agent_job, Types
    <3>2. ran[j] = {} BY <2>0, <3>1 DEF JobInv, Order
    <3> QED BY <2>0, <3>1, <3>2 DEF JobInv, Order, Refusal, Heard, Remembered, Approved
  <2>2. CASE Cancel(j) BY <2>0, <2>2, Unmoved DEF Cancel
  <2>3. ASSUME NEW i \in Ids, NEW d \in Decisions, Answer(j, i, d) PROVE JobInv(j)'
    <3>1. /\ asked'[j] = asked[j] /\ allow'[j] = allow[j] /\ calls'[j] = calls[j]
          /\ at'[j] = at[j] /\ ran'[j] = ran[j] /\ cards'[j] = cards[j] /\ at[j] \in Nat
          /\ stage'[j] = stage[j] /\ said[j] \subseteq said'[j]
          /\ \/ pending'[j] = pending[j]
             \/ /\ pending[j] # "none" /\ i = call_id(j, at[j]) /\ pending'[j] = d
                /\ \/ d = "reject" \/ <<i, d>> \in said'[j]
                   \/ at[j] \notin 1..Len(calls[j]) \ ran[j]
      BY <2>3 DEF Answer, resolve_tool_approval, Types
    <3>0. pending[j] # "none" => at[j] \in 1..Len(calls[j]) \ ran[j]
      <4>1. Len(calls[j]) \in Nat
        BY DEF Types
      <4> QED BY <2>0, <3>1, <4>1 DEF JobInv, Heard, Order
    <3>2. Order(j)' BY <2>0, <3>1 DEF JobInv, Order
    <3>3. Refusal(j)' BY <2>0, <3>1 DEF JobInv, Refusal
    <3>4. Heard(j)' BY <2>0, <3>0, <3>1 DEF JobInv, Heard
    <3>5. GoesOn(j) BY <3>1 DEF GoesOn
    <3>6. Remembered(j)' BY <2>0, <3>1, <3>5, RememberedStays DEF JobInv
    <3>7. Approved(j)'
      <4>1. \A b \in ran[j] : b \in 1..at[j] /\ Permitted(j, b)
        BY <2>0 DEF JobInv, Order, Approved
      <4>2. stage[j] = "tool" => at[j] \in 1..at[j] /\ Permitted(j, at[j])
        BY <2>0, <3>1 DEF JobInv, Order, Approved
      <4> QED BY <3>1, <3>5, <4>1, <4>2, PermittedStays DEF Approved
    <3> QED BY <3>2, <3>3, <3>4, <3>6, <3>7 DEF JobInv
  <2> QED BY <1>5, <2>1, <2>2, <2>3 DEF UserStep
<1>6. ASSUME NEW s \in Sessions, SessionStep(s), NEW j \in Jobs PROVE JobInv(j)'
  BY <1>6, JobInv(j), Unmoved DEF AgentInv, SessionStep, delete_session, DeleteRow, CleanUp
<1>7. ASSUME UNCHANGED vars, NEW j \in Jobs PROVE JobInv(j)'
  BY <1>7, JobInv(j), Unmoved DEF AgentInv, vars
<1>8. ASSUME NEW j \in Jobs, JobStep(j) \/ UserStep(j), NEW k \in Jobs PROVE JobInv(k)'
  BY <1>1, <1>2, <1>3, <1>4, <1>5, <1>8, Others DEF JobStep
<1> QED BY <1>6, <1>7, <1>8 DEF Next, AgentInv

LEMMA Start ==
    ASSUME AgentAssumption, Init
    PROVE  Types /\ AgentInv
<1>1. <<>> \in Seq(Tools) /\ Len(<<>>) = 0 OBVIOUS
<1>2. Types BY <1>1 DEF Init, Types, Stages
<1>3. ASSUME NEW j \in Jobs PROVE JobInv(j)
  BY <1>1, <1>3 DEF Init, JobInv, Order, Refusal, Heard, Remembered, Approved, Awaiting,
     AtHand, Waiting, Decisions
<1> QED BY <1>2, <1>3 DEF AgentInv

\* Every job keeps to what it was allowed, through every step of any job.
THEOREM JobsKept == Spec => [](Types /\ AgentInv)
<1>1. Init => Types /\ AgentInv BY Start, AgentAssumption
<1>2. Types /\ AgentInv /\ [Next]_vars => Types' /\ AgentInv'
  BY TypesStep, InvStep, AgentAssumption
<1> QED BY <1>1, <1>2, PTL DEF Spec

\* A tool that changes something was allowed by the request or by the user, for every
\* schedule of answers, cancellations and jobs, and whichever calls the provider leaves
\* without an id: these share one, and for them it says no more than that the user
\* approved a call of this id (run_agent_job_inner, resolve_tool_approval).
THEOREM ApprovedFirst == Spec => []NothingUnapproved
<1>1. AgentInv => NothingUnapproved
  BY DEF AgentInv, JobInv, Approved, Permitted, NothingUnapproved
<1> QED BY <1>1, JobsKept, PTL

\* No call is run after one that the user refused or left unanswered: every card
\* before the call at hand was followed by its tool.
THEOREM RefusalEnds == Spec => []NothingAfterRefusal
<1>1. Types /\ AgentInv => NothingAfterRefusal
  <2> SUFFICES ASSUME Types, AgentInv, NEW j \in Jobs, NEW c \in cards[j], NEW b \in ran[j],
                      b > c
               PROVE  c \in ran[j]
    BY DEF NothingAfterRefusal
  <2>1. Order(j) /\ Refusal(j) BY DEF AgentInv, JobInv
  <2>2. b \in 1..at[j] /\ c \in 1..at[j] /\ at[j] \in Nat BY <2>1 DEF Types, Order
  <2> QED BY <2>1, <2>2 DEF Refusal
<1> QED BY <1>1, JobsKept, PTL

-----------------------------------------------------------------------------
\* The only step to a finished stage from one that is not is the UPDATE.
LEMMA LiveStays ==
    ASSUME Types, NEW j \in Jobs, stage[j] \notin Finished, [Next]_vars,
           ~ClearSession(j)
    PROVE  stage'[j] \notin Finished
<1> USE DEF Types, Finished, locals, approval, rows, history, At, Go
<1>1. ASSUME NEW k \in Jobs, JobStep(k) PROVE stage'[j] \notin Finished
  <2>1. CASE CreateStep(k) BY <2>1 DEF CreateStep, Register, Spawn
  <2>2. CASE AskStep(k)
    BY <2>2 DEF AskStep, Configure, Turn, AskCancelled, AskFail, call_agent_provider
  <2>3. CASE NextCall(k) \/ SetPending(k) \/ ShowCard(k) BY <2>3 DEF NextCall, SetPending, ShowCard
  <2>4. CASE WaitTurn(k) BY <2>4 DEF WaitTurn, Decisions
  <2>5. CASE Park(k) \/ WakeUp(k) \/ WaitCancelled(k) \/ Approve(k)
    BY <2>5 DEF Park, WakeUp, WaitCancelled, Approve
  <2>6. CASE Reject(k) \/ execute_agent_tool(k) \/ ToolResult(k)
    BY <2>6 DEF Reject, execute_agent_tool, ToolResult
  <2>7. CASE EndStep(k) BY <2>7 DEF EndStep, TellEnd, ClearSession, Done, Unlist
  <2> QED BY <1>1, <2>1, <2>2, <2>3, <2>4, <2>5, <2>6, <2>7 DEF JobStep, CallStep
<1>2. ASSUME NEW k \in Jobs, UserStep(k) PROVE stage'[j] \notin Finished
  BY <1>2 DEF UserStep, create_agent_job, Cancel, Answer
<1>3. ASSUME NEW s \in Sessions, SessionStep(s) PROVE stage'[j] \notin Finished
  BY <1>3 DEF SessionStep, delete_session, DeleteRow, CleanUp
<1>4. CASE UNCHANGED vars BY <1>4 DEF vars
<1> QED BY <1>1, <1>2, <1>3, <1>4 DEF Next

\* No session goes on showing a job that has finished, for any overlap of jobs,
\* deletions and clean-ups of one session: a session only ever shows its own job,
\* so that the UPDATE at the end of a job finds it wherever it is shown.
THEOREM ShownIsLive == Spec => []SessionShowsLive
<1> USE DEF locals, approval, rows, history, At, Go
<1>1. Init => ShownInv BY AgentAssumption DEF Init, ShownInv
<1>2. Types /\ ShownInv /\ [Next]_vars => ShownInv'
  <2> SUFFICES ASSUME Types, ShownInv, [Next]_vars, NEW s \in Sessions, active'[s] \in Jobs
               PROVE  session'[active'[s]] = s /\ stage'[active'[s]] \notin Finished
    BY DEF ShownInv
  <2> DEFINE k == active'[s]
  <2>1. session' = session
    BY DEF Next, vars, JobStep, UserStep, SessionStep, CreateStep, AskStep, CallStep,
           EndStep, create_agent_job, Register, Spawn, Configure, Turn, AskCancelled, AskFail,
           call_agent_provider, NextCall, SetPending, ShowCard, WaitTurn, Park, WakeUp,
           WaitCancelled, Approve, Reject, execute_agent_tool, ToolResult, TellEnd,
           ClearSession, Done, Unlist, Cancel, Answer, delete_session, DeleteRow, CleanUp
  <2>2. CASE active'[s] = active[s]
    <3>1. session[k] = s /\ stage[k] \notin Finished BY <2>2 DEF ShownInv
    <3>2. ~ClearSession(k)
      <4> SUFFICES ASSUME ClearSession(k) PROVE FALSE OBVIOUS
      <4>1. active' = [active EXCEPT ![s] = NoJob] \/ active[s] = "deleted"
        BY <3>1 DEF ClearSession, set_session_job
      <4> QED BY <2>2, <4>1, AgentAssumption DEF Types
    <3> QED BY <2>1, <3>1, <3>2, LiveStays
  <2>3. CASE active'[s] # active[s]
    <3>1. PICK j \in Jobs : \E granted \in Grants : create_agent_job(j, granted)
      <4>1. ASSUME NEW j \in Jobs, ClearSession(j) PROVE FALSE
        BY <2>3, <4>1, AgentAssumption DEF ClearSession, set_session_job, Types
      <4>2. ASSUME NEW j \in Jobs, JobStep(j) PROVE FALSE
        BY <2>3, <4>1, <4>2
        DEF JobStep, CreateStep, AskStep, CallStep, EndStep, Register, Spawn, Configure,
            Turn, AskCancelled, AskFail, call_agent_provider, NextCall, SetPending, ShowCard,
            WaitTurn, Park, WakeUp, WaitCancelled, Approve, Reject, execute_agent_tool,
            ToolResult, TellEnd, Done, Unlist
      <4>3. ASSUME NEW j \in Jobs, Cancel(j) \/ \E i \in Ids, d \in Decisions : Answer(j, i, d)
            PROVE  FALSE
        BY <2>3, <4>3 DEF Cancel, Answer
      <4>4. ASSUME NEW r \in Sessions, SessionStep(r) PROVE FALSE
        BY <2>3, <4>4, AgentAssumption
        DEF SessionStep, delete_session, DeleteRow, CleanUp, Types
      <4>5. ~UNCHANGED vars BY <2>3 DEF vars
      <4> QED BY <4>2, <4>3, <4>4, <4>5 DEF Next, UserStep
    <3>2. k = j /\ session[j] = s /\ stage'[j] = "named"
      BY <2>3, <3>1 DEF create_agent_job, set_session_job, Types
    <3> QED BY <2>1, <3>2 DEF Finished
  <2> QED BY <2>2, <2>3
<1>3. ShownInv => SessionShowsLive BY DEF ShownInv, SessionShowsLive
<1> QED BY <1>1, <1>2, <1>3, JobsKept, PTL DEF Spec
-----------------------------------------------------------------------------
(* The rest of the types: that the work stays within its bound.            *)

\* The call that a card is for is one that needs a permission.
Restricted(j) ==
    stage[j] \in {"preview"} \union Awaiting \union Decisions => Tool(j) \in Permissions

BoundInv ==
    /\ \A j \in Jobs : Len(calls[j]) <= MaxWork /\ Restricted(j)
    /\ allow \in [Jobs -> SUBSET Permissions]
    /\ cancel \in [Jobs -> BOOLEAN] /\ permit \in [Jobs -> BOOLEAN]
    /\ AI_JOBS \subseteq Jobs /\ doomed \subseteq Sessions
    /\ said \in [Jobs -> SUBSET (Ids \X {"once", "always"})]
    /\ IsFiniteSet(Created)

LEMMA AllTypes ==
    ASSUME AgentAssumption, Types, AgentInv, BoundInv
    PROVE  TypeOK
<1>1. ASSUME NEW j \in Jobs
      PROVE  /\ calls[j] \in Seq(Tools) /\ Len(calls[j]) <= MaxWork
             /\ at[j] \in 0..MaxWork /\ at[j] <= Len(calls[j])
             /\ ran[j] \in SUBSET Calls /\ cards[j] \in SUBSET Calls
  <2>1. Order(j) /\ at[j] \in Nat /\ calls[j] \in Seq(Tools) /\ Len(calls[j]) <= MaxWork
    BY DEF AgentInv, JobInv, Types, BoundInv
  <2>2. at[j] <= MaxWork /\ MaxWork \in Nat
    BY <2>1 DEF Order, AgentAssumption
  <2> QED BY <2>1, <2>2 DEF Order, Calls
<1>2. at \in [Jobs -> 0..MaxWork] /\ ran \in [Jobs -> SUBSET Calls] /\ cards \in [Jobs -> SUBSET Calls]
  BY <1>1 DEF Types
<1> QED BY <1>1, <1>2 DEF Types, BoundInv, TypeOK

\* A created job counts with all its calls.
LEMMA WorkCounts ==
    ASSUME AgentAssumption, TypeOK, IsFiniteSet(Created), NEW j \in Created
    PROVE  Work \in Nat /\ Len(calls[j]) + 1 <= Work
<1> DEFINE counted == UNION {{i} \X (0..Len(calls[i])) : i \in Created}
           own == {j} \X (0..Len(calls[j]))
<1>1. j \in Jobs /\ Len(calls[j]) \in Nat /\ MaxWork \in Nat
  BY DEF Created, TypeOK, AgentAssumption
<1>2. IsFiniteSet(counted)
  <2>1. counted \subseteq Created \X (0..MaxWork)
    <3> SUFFICES ASSUME NEW i \in Created, NEW n \in 0..Len(calls[i])
                 PROVE  n \in 0..MaxWork
      OBVIOUS
    <3>1. Len(calls[i]) \in Nat /\ Len(calls[i]) <= MaxWork
      BY DEF Created, TypeOK
    <3> QED BY <1>1, <3>1
  <2>2. IsFiniteSet(Created \X (0..MaxWork))
    <3>1. IsFiniteSet(0..MaxWork)
      BY <1>1, FS_Interval
    <3> QED BY <3>1, FS_Product, Zenon
  <2> QED BY <2>1, <2>2, FS_Subset
<1>3. IsFiniteSet(own) /\ Cardinality(own) = Len(calls[j]) + 1
  <2>1. IsFiniteSet({j}) /\ Cardinality({j}) = 1
    BY FS_Singleton
  <2>2. IsFiniteSet(0..Len(calls[j])) /\ Cardinality(0..Len(calls[j])) = Len(calls[j]) + 1
    BY SMTT(20), <1>1, FS_Interval
  <2>3. IsFiniteSet(own) /\ Cardinality(own) = Cardinality({j}) * Cardinality(0..Len(calls[j]))
    BY <2>1, <2>2, FS_Product, Zenon
  <2> QED BY <1>1, <2>1, <2>2, <2>3
<1>4. own \in SUBSET counted
  OBVIOUS
<1>5. Cardinality(counted) \in Nat /\ Cardinality(own) <= Cardinality(counted)
  BY <1>2, <1>4, FS_Subset, FS_CardinalityType
<1> QED BY <1>3, <1>5 DEF Work
\* A step creates one job at most.
LEMMA FewCreated ==
    ASSUME Types, IsFiniteSet(Created), [Next]_vars
    PROVE  IsFiniteSet(Created')
<1> USE DEF Types, locals, approval, rows, history, At, Go
<1>1. ASSUME NEW j \in Jobs, \A i \in Jobs \ {j} : stage'[i] = stage[i]
      PROVE  IsFiniteSet(Created')
  <2>1. Created' \subseteq Created \union {j}
    BY <1>1 DEF Created
  <2>2. IsFiniteSet(Created \union {j})
    BY FS_AddElement
  <2> QED BY <2>1, <2>2, FS_Subset
<1>2. ASSUME NEW j \in Jobs, JobStep(j), NEW i \in Jobs \ {j} PROVE stage'[i] = stage[i]
  <2>1. CASE CreateStep(j) BY <2>1 DEF CreateStep, Register, Spawn
  <2>2. CASE AskStep(j)
    BY <2>2 DEF AskStep, Configure, Turn, AskCancelled, AskFail, call_agent_provider
  <2>3. CASE NextCall(j) \/ SetPending(j) \/ ShowCard(j) \/ WaitTurn(j)
    BY <2>3 DEF NextCall, SetPending, ShowCard, WaitTurn
  <2>4. CASE Park(j) \/ WakeUp(j) \/ WaitCancelled(j) \/ Approve(j)
    BY <2>4 DEF Park, WakeUp, WaitCancelled, Approve
  <2>5. CASE Reject(j) \/ execute_agent_tool(j) \/ ToolResult(j)
    BY <2>5 DEF Reject, execute_agent_tool, ToolResult
  <2>6. CASE EndStep(j) BY <2>6 DEF EndStep, TellEnd, ClearSession, Done, Unlist
  <2> QED BY <1>2, <2>1, <2>2, <2>3, <2>4, <2>5, <2>6 DEF JobStep, CallStep
<1>3. ASSUME NEW j \in Jobs, UserStep(j), NEW i \in Jobs \ {j} PROVE stage'[i] = stage[i]
  BY <1>3 DEF UserStep, create_agent_job, Cancel, Answer
<1>4. ASSUME \/ \E s \in Sessions : SessionStep(s)
             \/ UNCHANGED vars
      PROVE  Created' = Created
  BY <1>4 DEF SessionStep, delete_session, DeleteRow, CleanUp, vars, Created
<1> QED BY <1>1, <1>2, <1>3, <1>4 DEF Next

\* A step of one job leaves the bounds of the others alone.
LEMMA SameCall ==
    ASSUME NEW j \in Jobs, Restricted(j), calls'[j] = calls[j], at'[j] = at[j],
           stage'[j] \in {"preview"} \union Awaiting \union Decisions =>
              stage[j] \in {"preview"} \union Awaiting \union Decisions
    PROVE  Restricted(j)'
BY DEF Restricted, Tool

LEMMA BoundStep ==
    ASSUME AgentAssumption, Types, AgentInv, BoundInv, [Next]_vars
    PROVE  BoundInv'
<1> USE DEF locals, approval, rows, history, At, Go
<1> DEFINE Rest ==
        /\ cancel' \in [Jobs -> BOOLEAN] /\ permit' \in [Jobs -> BOOLEAN]
        /\ AI_JOBS' \subseteq Jobs /\ doomed' \subseteq Sessions
        /\ said' \in [Jobs -> SUBSET (Ids \X {"once", "always"})]
        CardStages == {"preview"} \union Awaiting \union Decisions
<1>0. IsFiniteSet(Created')
  BY FewCreated DEF BoundInv
<1>1. ASSUME Rest, UNCHANGED <<allow, calls, at>>,
             \A j \in Jobs : stage'[j] \in CardStages => stage[j] \in CardStages
      PROVE  BoundInv'
  <2>1. \A j \in Jobs : Restricted(j)'
    BY <1>1, SameCall DEF BoundInv
  <2> QED BY <1>0, <1>1, <2>1 DEF BoundInv
<1>2. ASSUME NEW j \in Jobs, CreateStep(j) \/ EndStep(j), ~Unlist(j) PROVE BoundInv'
  <2>1. Rest /\ UNCHANGED <<allow, calls, at>>
    BY <1>2 DEF BoundInv, CreateStep, EndStep, Register, Spawn, TellEnd, ClearSession, Done
  <2>2. \A i \in Jobs : stage'[i] \in CardStages => stage[i] \in CardStages
    BY <1>2 DEF Types, CreateStep, EndStep, Register, Spawn, TellEnd, ClearSession, Done,
       Awaiting, Waiting, Decisions
  <2> QED BY <1>1, <2>1, <2>2
<1>3. ASSUME NEW j \in Jobs, Unlist(j) PROVE BoundInv'
  <2>1. Rest /\ allow' \in [Jobs -> SUBSET Permissions]
    BY <1>3 DEF BoundInv, Unlist
  <2>2. /\ stage'[j] = "gone" /\ calls'[j] = <<>>
        /\ \A i \in Jobs \ {j} : stage'[i] = stage[i] /\ calls'[i] = calls[i] /\ at'[i] = at[i]
    BY <1>3 DEF Unlist, Types
  <2>3. Restricted(j)' /\ Len(calls'[j]) <= MaxWork
    BY <2>2 DEF Restricted, Awaiting, Waiting, Decisions, AgentAssumption
  <2>4. \A i \in Jobs \ {j} : Restricted(i)' /\ Len(calls'[i]) <= MaxWork
    BY <2>2, SameCall DEF BoundInv
  <2> QED BY <1>0, <2>1, <2>3, <2>4 DEF BoundInv
<1>4. ASSUME NEW j \in Jobs, AskStep(j) PROVE BoundInv'
  <2>1. /\ Rest /\ allow' = allow /\ at' = at /\ stage[j] \in {"config", "turn", "ask"}
        /\ \A i \in Jobs : stage'[i] \in CardStages => stage[i] \in CardStages
    BY <1>4 DEF BoundInv, Types, AskStep, Configure, Turn, AskCancelled, AskFail,
       call_agent_provider, Awaiting, Waiting, Decisions
  <2>2. CASE call_agent_provider(j)
    <3>1. PICK more \in UNION {[1..n -> Tools] : n \in 0..(MaxWork - Work)} :
             calls' = [calls EXCEPT ![j] = @ \o more]
      BY <2>2 DEF call_agent_provider
    <3>2. PICK n \in 0..(MaxWork - Work) : more \in [1..n -> Tools]
      OBVIOUS
    <3>3. j \in Created
      BY <2>1 DEF Created
    <3>4. Work \in Nat /\ Len(calls[j]) + 1 <= Work
      BY <3>3, AllTypes, WorkCounts DEF BoundInv
    <3>5. calls[j] \in Seq(Tools) /\ n \in Nat /\ MaxWork \in Nat
      BY <3>4 DEF Types, AgentAssumption
    <3>6. more \in Seq(Tools) /\ Len(more) = n
      BY <3>2, <3>5
    <3>7. Len(calls[j] \o more) <= MaxWork
      BY <3>4, <3>5, <3>6
    <3>8. /\ calls'[j] = calls[j] \o more
          /\ \A i \in Jobs \ {j} : calls'[i] = calls[i]
      BY <3>1 DEF Types
    <3>9. Restricted(j)'
      BY <2>1, <2>2 DEF call_agent_provider, Types, Restricted, Awaiting, Waiting, Decisions
    <3>10. \A i \in Jobs \ {j} : Restricted(i)'
      BY <2>1, <3>8, SameCall DEF BoundInv
    <3> QED BY <1>0, <2>1, <3>7, <3>8, <3>9, <3>10 DEF BoundInv
  <2>3. CASE ~call_agent_provider(j)
    <3>1. calls' = calls
      BY <1>4, <2>3 DEF AskStep, Configure, Turn, AskCancelled, AskFail
    <3> QED BY <1>1, <2>1, <3>1
  <2> QED BY <2>2, <2>3
<1>5. ASSUME NEW j \in Jobs, CallStep(j) PROVE BoundInv'
  <2>1. Rest /\ calls' = calls
    BY <1>5 DEF BoundInv, CallStep, NextCall, SetPending, ShowCard, WaitTurn, Park, WakeUp,
       WaitCancelled, Approve, Reject, execute_agent_tool, ToolResult
  <2>2. CASE NextCall(j)
    <3>1. /\ at[j] + 1 \in 1..Len(calls[j]) /\ at'[j] = at[j] + 1
          /\ stage[j] = "call"
          /\ stage'[j] \in CardStages =>
                ~tool_permission_granted(calls[j][at[j] + 1], allow[j])
          /\ \A i \in Jobs \ {j} : at'[i] = at[i] /\ stage'[i] = stage[i]
      BY <2>2 DEF NextCall, Types, AgentInv, JobInv, Order, Awaiting, Waiting, Decisions
    <3>2. calls[j][at[j] + 1] \in Tools
      BY <3>1 DEF Types
    <3>3. Restricted(j)'
      BY <2>1, <3>1, <3>2 DEF Restricted, Tool, tool_permission_granted, Tools
    <3>4. \A i \in Jobs \ {j} : Restricted(i)'
      BY <2>1, <3>1, SameCall DEF BoundInv
    <3>5. allow' = allow
      BY <2>2 DEF NextCall
    <3> QED BY <1>0, <2>1, <3>3, <3>4, <3>5 DEF BoundInv
  <2>3. CASE Approve(j)
    <3>1. Tool(j) \in Permissions
      BY <2>3 DEF Approve, BoundInv, Restricted, Decisions
    <3>2. allow' \in [Jobs -> SUBSET Permissions]
      BY <2>3, <3>1 DEF Approve, BoundInv
    <3>3. at' = at /\ \A i \in Jobs : stage'[i] \in CardStages => stage[i] \in CardStages
      BY <2>3 DEF Approve, Types, Awaiting, Waiting, Decisions
    <3>4. \A i \in Jobs : Restricted(i)'
      BY <2>1, <3>3, SameCall DEF BoundInv
    <3> QED BY <1>0, <2>1, <3>2, <3>4 DEF BoundInv
  <2>4. CASE ~NextCall(j) /\ ~Approve(j)
    <3>1. allow' = allow /\ at' = at
      BY <1>5, <2>4 DEF CallStep, SetPending, ShowCard, WaitTurn, Park, WakeUp, WaitCancelled,
         Reject, execute_agent_tool, ToolResult
    <3>2. \A i \in Jobs : stage'[i] \in CardStages => stage[i] \in CardStages
      BY <1>5, <2>4 DEF CallStep, SetPending, ShowCard, WaitTurn, Park, WakeUp, WaitCancelled,
         Reject, execute_agent_tool, ToolResult, Types, Awaiting, Waiting, Decisions
    <3> QED BY <1>1, <2>1, <3>1, <3>2
  <2> QED BY <2>2, <2>3, <2>4
<1>6. ASSUME NEW j \in Jobs, NEW granted \in Grants, create_agent_job(j, granted) PROVE BoundInv'
  <2>1. granted \in SUBSET Permissions
    BY DEF AgentAssumption, Permissions
  <2>2. Rest /\ allow' \in [Jobs -> SUBSET Permissions] /\ UNCHANGED <<calls, at>>
    BY <1>6, <2>1 DEF create_agent_job, BoundInv
  <2>3. \A i \in Jobs : stage'[i] \in CardStages => stage[i] \in CardStages
    BY <1>6 DEF create_agent_job, Types, Awaiting, Waiting, Decisions
  <2>4. \A i \in Jobs : Restricted(i)'
    BY <2>2, <2>3, SameCall DEF BoundInv
  <2> QED BY <1>0, <2>2, <2>4 DEF BoundInv
<1>7. ASSUME \/ \E j \in Jobs : Cancel(j) \/ \E i \in Ids, d \in Decisions : Answer(j, i, d)
             \/ \E s \in Sessions : SessionStep(s)
             \/ UNCHANGED vars
      PROVE  BoundInv'
  <2>1. UNCHANGED <<stage, allow, calls, at>>
    BY <1>7 DEF Cancel, Answer, SessionStep, delete_session, DeleteRow, CleanUp, vars
  <2>2. Rest
    <3>1. CASE \E j \in Jobs : \E i \in Ids, d \in Decisions : Answer(j, i, d)
      <4>1. PICK j \in Jobs, i \in Ids, d \in Decisions : Answer(j, i, d)
        BY <3>1
      <4>2. d = "reject" \/ <<i, d>> \in Ids \X {"once", "always"}
        BY DEF Decisions
      <4>3. said' \in [Jobs -> SUBSET (Ids \X {"once", "always"})]
        BY <4>1, <4>2 DEF Answer, BoundInv
      <4>4. permit' \in [Jobs -> BOOLEAN] /\ UNCHANGED <<cancel, AI_JOBS, doomed>>
        BY <4>1 DEF Answer, resolve_tool_approval, BoundInv
      <4> QED BY <4>3, <4>4 DEF BoundInv
    <3>2. CASE \E j \in Jobs : Cancel(j)
      BY <3>2 DEF Cancel, BoundInv
    <3>3. CASE \E s \in Sessions : SessionStep(s)
      BY <3>3 DEF SessionStep, delete_session, DeleteRow, CleanUp, BoundInv
    <3>4. CASE UNCHANGED vars
      BY <3>4 DEF vars, BoundInv
    <3> QED BY <1>7, <3>1, <3>2, <3>3, <3>4
  <2> QED BY <1>1, <2>1, <2>2
<1> QED BY <1>2, <1>3, <1>4, <1>5, <1>6, <1>7 DEF Next, JobStep, UserStep

LEMMA BoundStart ==
    ASSUME AgentAssumption, Init
    PROVE  BoundInv
<1>1. IsFiniteSet({}) /\ Created = {}
  BY FS_EmptySet DEF Created, Init
<1>2. Len(<<>>) = 0
  OBVIOUS
<1> QED BY <1>1, <1>2 DEF Init, BoundInv, Restricted, AgentAssumption, Awaiting, Waiting, Decisions

LEMMA BoundKept == Spec => []BoundInv
<1>1. Init => BoundInv
  BY BoundStart, AgentAssumption
<1>2. Types /\ AgentInv /\ BoundInv /\ [Next]_vars => BoundInv'
  BY BoundStep, AgentAssumption
<1> QED BY <1>1, <1>2, JobsKept, PTL DEF Spec

\* The state keeps its types; no job exceeds the bound, which counts every call
\* of every job that was created.
THEOREM JobsTyped == Spec => []TypeOK
<1>1. Types /\ AgentInv /\ BoundInv => TypeOK
  BY AllTypes, AgentAssumption
<1> QED BY <1>1, JobsKept, BoundKept, PTL

-----------------------------------------------------------------------------
(* How soon a job heeds what the user says: the safety behind AnswerHeeded  *)
(* and CancelEnds.                                                          *)

\* The stages from one call to the end of the job, counted backwards.
Place(st) ==
    CASE st \in {"call", "gone"} -> 0
      [] st = "unlist" -> 1
      [] st = "done" -> 2
      [] st = "clear" -> 3
      [] st \in {"save", "fail", "cancel"} -> 4
      [] st = "turn" -> 5
      [] st \in {"reject", "running"} -> 6
      [] st = "tool" -> 7
      [] st \in {"once", "always"} -> 8
      [] st = "wait" -> 9
      [] st = "parked" -> 10
      [] st = "poll" -> 11
      [] st = "card" -> 12
      [] st = "preview" -> 13
      [] st = "ask" -> 20
      [] st = "config" -> 21
      [] st = "listed" -> 22
      [] st = "named" -> 23
      [] st = "none" -> 24

\* How many steps are left to a cancelled job at most: a call takes less than 20,
\* and before an answer of the provider any number of calls may come.
Left(j) ==
    Place(stage[j]) + 20 * (CASE stage[j] \in AtHand \union {"call"} -> Len(calls[j]) - at[j]
                              [] stage[j] \in {"none", "named", "listed", "config", "ask"} -> MaxWork
                              [] OTHER -> 0)

\* A decision that was made while the job was about to wait has left a permit.
NoLostAnswer ==
    \A j \in Jobs : pending[j] \in Decisions /\ stage[j] \in {"poll", "parked"} => permit[j]

\* With a decision there, every step of the job takes it nearer to heeding it.
NearerAnswer ==
    [][\A j \in Jobs : pending[j] \in Decisions /\ stage[j] \in Waiting /\ JobStep(j) =>
          Place(stage'[j]) < Place(stage[j])]_vars

\* Once cancelled, every step of the job takes it nearer to its end, and no step of
\* anybody else takes it away from there.
NearerEnd ==
    [][\A j \in Jobs : cancel[j] =>
          IF JobStep(j) THEN Left(j)' < Left(j) ELSE Left(j)' = Left(j)]_vars

\* The token of a job is there once the job is.
TokenInv == \A j \in Jobs : j \in AI_JOBS \/ cancel[j] => stage[j] # "none"

LEMMA HeedStep ==
    ASSUME Types, AgentInv, permit \in [Jobs -> BOOLEAN], NoLostAnswer, [Next]_vars
    PROVE  NoLostAnswer'
<1> USE DEF Types, locals, approval, rows, history, At, Go, Decisions
<1> SUFFICES ASSUME NEW j \in Jobs, pending'[j] \in Decisions, stage'[j] \in {"poll", "parked"},
                    ~permit'[j]
             PROVE  FALSE
  BY DEF NoLostAnswer
<1>1. ~(pending[j] \in Decisions /\ stage[j] \in {"poll", "parked"} /\ ~permit[j])
  BY DEF NoLostAnswer
<1>2. ASSUME NEW k \in Jobs, CreateStep(k) \/ AskStep(k) \/ EndStep(k) PROVE FALSE
  <2>1. CASE CreateStep(k)
    BY <1>1, <2>1 DEF CreateStep, Register, Spawn
  <2>2. CASE AskStep(k)
    <3>1. UNCHANGED <<pending, permit>>
          /\ (stage'[j] = stage[j] \/ stage'[j] \in {"turn", "fail", "cancel", "ask", "save", "call"})
      BY <2>2 DEF AskStep, Configure, Turn, AskCancelled, AskFail, call_agent_provider
    <3> QED BY <1>1, <3>1
  <2>3. CASE EndStep(k) /\ ~Unlist(k)
    BY <1>1, <2>3 DEF EndStep, TellEnd, ClearSession, Done
  <2>4. CASE Unlist(k)
    BY <1>1, <2>4 DEF Unlist
  <2> QED BY <1>2, <2>1, <2>2, <2>3, <2>4
<1>3. ASSUME NEW k \in Jobs, CallStep(k) PROVE FALSE
  <2>1. CASE NextCall(k) \/ SetPending(k) \/ ShowCard(k)
    BY <1>1, <2>1 DEF NextCall, SetPending, ShowCard
  <2>2. CASE WaitTurn(k)
    <3>1. stage'[k] = pending[k] \/ (stage'[k] = "poll" /\ pending[k] = "open")
      BY <2>2 DEF WaitTurn
    <3> QED BY <1>1, <2>2, <3>1 DEF WaitTurn
  <2>3. CASE Park(k) \/ WakeUp(k)
    BY <1>1, <2>3 DEF Park, WakeUp
  <2>4. CASE WaitCancelled(k) \/ Approve(k) \/ Reject(k) \/ execute_agent_tool(k) \/ ToolResult(k)
    BY <1>1, <2>4 DEF WaitCancelled, Approve, Reject, execute_agent_tool, ToolResult
  <2> QED BY <1>3, <2>1, <2>2, <2>3, <2>4 DEF CallStep
<1>4. ASSUME NEW k \in Jobs, UserStep(k) PROVE FALSE
  <2>1. CASE Cancel(k) \/ \E granted \in Grants : create_agent_job(k, granted)
    BY <1>1, <2>1 DEF create_agent_job, Cancel
  <2>2. ASSUME NEW i \in Ids, NEW d \in Decisions, Answer(k, i, d) PROVE FALSE
    <3>1. /\ stage'[j] = stage[j]
          /\ UNCHANGED approval \/ (pending' = [pending EXCEPT ![k] = d]
                                    /\ permit' = [permit EXCEPT ![k] = TRUE])
      BY <2>2 DEF Answer, resolve_tool_approval
    <3>2. (pending'[j] = pending[j] /\ permit'[j] = permit[j]) \/ permit'[j] = TRUE
      BY <3>1
    <3> QED BY <1>1, <3>1, <3>2
  <2> QED BY <1>4, <2>1, <2>2 DEF UserStep
<1>5. ASSUME NEW s \in Sessions, SessionStep(s) PROVE FALSE
  BY <1>1, <1>5 DEF SessionStep, delete_session, DeleteRow, CleanUp
<1>6. CASE UNCHANGED vars
  BY <1>1, <1>6 DEF vars
<1> QED BY <1>2, <1>3, <1>4, <1>5, <1>6 DEF Next, JobStep

\* A decision of the user is never slept over: when it comes while the job is on its
\* way to wait for one, its permit is there, and each step that the job then takes
\* brings it nearer to heeding it (wait_for_approval, resolve_tool_approval).
THEOREM AnswerWakes == Spec => []NoLostAnswer /\ NearerAnswer
<1> USE DEF locals, approval, rows, history, At, Go
<1>1. Init => NoLostAnswer
  BY DEF Init, NoLostAnswer, Decisions
<1>2. Types /\ AgentInv /\ BoundInv /\ NoLostAnswer /\ [Next]_vars => NoLostAnswer'
  BY HeedStep DEF BoundInv
<1>3. Types /\ [Next]_vars =>
         [\A j \in Jobs : pending[j] \in Decisions /\ stage[j] \in Waiting /\ JobStep(j) =>
             Place(stage'[j]) < Place(stage[j])]_vars
  <2> SUFFICES ASSUME Types, NEW j \in Jobs, pending[j] \in Decisions, stage[j] \in Waiting,
                      JobStep(j)
               PROVE  Place(stage'[j]) < Place(stage[j])
    OBVIOUS
  <2>1. WaitTurn(j) \/ Park(j) \/ WakeUp(j) \/ WaitCancelled(j)
    BY DEF Waiting, Decisions, JobStep, CreateStep, AskStep, CallStep, EndStep, Register, Spawn,
       Configure, Turn, AskCancelled, AskFail, call_agent_provider, NextCall, SetPending,
       ShowCard, Approve, Reject, execute_agent_tool, ToolResult, TellEnd, ClearSession, Done,
       Unlist
  <2>2. \/ stage[j] = "wait" /\ stage'[j] \in Decisions
        \/ stage[j] = "poll" /\ stage'[j] = "parked"
        \/ stage[j] = "parked" /\ stage'[j] = "wait"
        \/ stage[j] \in Waiting /\ stage'[j] = "reject"
    BY <2>1 DEF Types, WaitTurn, Park, WakeUp, WaitCancelled, Decisions
  <2> QED BY <2>2 DEF Place, Waiting, Decisions
<1> QED BY <1>1, <1>2, <1>3, JobsKept, BoundKept, PTL DEF Spec, NearerAnswer

\* Only its own steps move a job that was created.
LEMMA OwnStage ==
    ASSUME Types, NEW j \in Jobs, stage[j] # "none", [Next]_vars, ~JobStep(j)
    PROVE  stage'[j] = stage[j] /\ calls'[j] = calls[j] /\ at'[j] = at[j]
<1> USE DEF Types, locals, approval, rows, history, At, Go
<1>1. ASSUME NEW k \in Jobs \ {j}, JobStep(k)
      PROVE  stage'[j] = stage[j] /\ calls'[j] = calls[j] /\ at'[j] = at[j]
  <2>1. CASE CreateStep(k) BY <2>1 DEF CreateStep, Register, Spawn
  <2>2. CASE AskStep(k)
    BY <2>2 DEF AskStep, Configure, Turn, AskCancelled, AskFail, call_agent_provider
  <2>3. CASE NextCall(k) \/ SetPending(k) \/ ShowCard(k) \/ WaitTurn(k)
    BY <2>3 DEF NextCall, SetPending, ShowCard, WaitTurn
  <2>4. CASE Park(k) \/ WakeUp(k) \/ WaitCancelled(k) \/ Approve(k)
    BY <2>4 DEF Park, WakeUp, WaitCancelled, Approve
  <2>5. CASE Reject(k) \/ execute_agent_tool(k) \/ ToolResult(k)
    BY <2>5 DEF Reject, execute_agent_tool, ToolResult
  <2>6. CASE EndStep(k) BY <2>6 DEF EndStep, TellEnd, ClearSession, Done, Unlist
  <2> QED BY <1>1, <2>1, <2>2, <2>3, <2>4, <2>5, <2>6 DEF JobStep, CallStep
<1>2. ASSUME NEW k \in Jobs, UserStep(k)
      PROVE  stage'[j] = stage[j] /\ calls'[j] = calls[j] /\ at'[j] = at[j]
  BY <1>2 DEF UserStep, create_agent_job, Cancel, Answer
<1>3. ASSUME NEW s \in Sessions, SessionStep(s)
      PROVE  stage'[j] = stage[j] /\ calls'[j] = calls[j] /\ at'[j] = at[j]
  BY <1>3 DEF SessionStep, delete_session, DeleteRow, CleanUp
<1>4. CASE UNCHANGED vars BY <1>4 DEF vars
<1> QED BY <1>1, <1>2, <1>3, <1>4 DEF Next

LEMMA TokenStep ==
    ASSUME Types, AgentInv, cancel \in [Jobs -> BOOLEAN], TokenInv, [Next]_vars
    PROVE  TokenInv'
<1> USE DEF Types, locals, approval, rows, history, At, Go
<1>1. ASSUME NEW j \in Jobs, stage[j] # "none" PROVE stage'[j] # "none"
  <2>1. CASE ~JobStep(j)
    BY <1>1, <2>1, OwnStage
  <2>2. CASE JobStep(j)
    <3>1. CASE CreateStep(j) BY <3>1 DEF CreateStep, Register, Spawn
    <3>2. CASE AskStep(j)
      BY <3>2 DEF AskStep, Configure, Turn, AskCancelled, AskFail, call_agent_provider
    <3>3. CASE NextCall(j) \/ SetPending(j) \/ ShowCard(j) BY <3>3 DEF NextCall, SetPending, ShowCard
    <3>4. CASE WaitTurn(j) \/ Park(j) \/ WakeUp(j)
      <4>1. stage[j] \in Awaiting => pending[j] # "none"
        BY DEF AgentInv, JobInv, Heard
      <4> QED BY <3>4, <4>1 DEF WaitTurn, Park, WakeUp, Awaiting, Waiting
    <3>5. CASE WaitCancelled(j) \/ Approve(j) \/ Reject(j)
      BY <3>5 DEF WaitCancelled, Approve, Reject
    <3>6. CASE execute_agent_tool(j) \/ ToolResult(j)
      BY <3>6 DEF execute_agent_tool, ToolResult
    <3>7. CASE EndStep(j) BY <3>7 DEF EndStep, TellEnd, ClearSession, Done, Unlist
    <3> QED BY <2>2, <3>1, <3>2, <3>3, <3>4, <3>5, <3>6, <3>7 DEF JobStep, CallStep
  <2> QED BY <2>1, <2>2
<1>2. ASSUME NEW j \in Jobs, j \in AI_JOBS' \/ cancel'[j], ~(j \in AI_JOBS \/ cancel[j])
      PROVE  stage[j] = "named"
  <2>1. ASSUME NEW k \in Jobs, JobStep(k) PROVE Register(k)
    BY <1>2, <2>1 DEF JobStep, CreateStep, AskStep, CallStep, EndStep, Spawn,
       Configure, Turn, AskCancelled, AskFail, call_agent_provider, NextCall, SetPending,
       ShowCard, WaitTurn, Park, WakeUp, WaitCancelled, Approve, Reject, execute_agent_tool,
       ToolResult, TellEnd, ClearSession, Done, Unlist
  <2>2. ASSUME NEW k \in Jobs, UserStep(k) PROVE FALSE
    BY <1>2, <2>2 DEF UserStep, create_agent_job, Cancel, Answer
  <2>3. ASSUME NEW s \in Sessions, SessionStep(s) PROVE FALSE
    BY <1>2, <2>3 DEF SessionStep, delete_session, DeleteRow, CleanUp
  <2>4. CASE UNCHANGED vars BY <1>2, <2>4 DEF vars
  <2> QED BY <1>2, <2>1, <2>2, <2>3, <2>4 DEF Next, Register
<1> QED BY <1>1, <1>2 DEF TokenInv

LEMMA TokenKept == Spec => []TokenInv
<1>1. Init => TokenInv
  BY DEF Init, TokenInv
<1>2. Types /\ AgentInv /\ BoundInv /\ TokenInv /\ [Next]_vars => TokenInv'
  BY TokenStep DEF BoundInv
<1> QED BY <1>1, <1>2, JobsKept, BoundKept, PTL DEF Spec

\* Left is a natural number.
LEMMA SomeLeft ==
    ASSUME AgentAssumption, Types, AgentInv, NEW j \in Jobs
    PROVE  Left(j) \in Nat
<1>1. at[j] \in Nat /\ Len(calls[j]) \in Nat /\ at[j] <= Len(calls[j])
  BY DEF Types, AgentInv, JobInv, Order
<1>2. stage[j] \in Stages /\ MaxWork \in Nat
  BY DEF Types, AgentAssumption
<1>3. Place(stage[j]) \in Nat
  BY <1>2 DEF Place, Stages, Waiting, Decisions, Finished
<1>4. Len(calls[j]) - at[j] \in Nat
  BY <1>1
<1>5. (CASE stage[j] \in AtHand \union {"call"} -> Len(calls[j]) - at[j]
         [] stage[j] \in {"none", "named", "listed", "config", "ask"} -> MaxWork
         [] OTHER -> 0) \in Nat
  BY <1>2, <1>4 DEF AtHand, Awaiting, Waiting, Decisions
<1> QED BY <1>3, <1>5 DEF Left

\* The three cases of Left.
LEMMA LeftAt ==
    ASSUME NEW j \in Jobs
    PROVE  /\ stage[j] \in AtHand \union {"call"} =>
                Left(j) = Place(stage[j]) + 20 * (Len(calls[j]) - at[j])
           /\ stage[j] \in {"none", "named", "listed", "config", "ask"} =>
                Left(j) = Place(stage[j]) + 20 * MaxWork
           /\ stage[j] \in {"turn", "save", "fail", "cancel", "clear"} \union Finished =>
                Left(j) = Place(stage[j]) + 20 * 0
BY DEF Left, AtHand, Awaiting, Waiting, Decisions, Finished

LEMMA LeftNext ==
    ASSUME NEW j \in Jobs
    PROVE  /\ stage'[j] \in AtHand \union {"call"} =>
                Left(j)' = Place(stage'[j]) + 20 * (Len(calls'[j]) - at'[j])
           /\ stage'[j] \in {"none", "named", "listed", "config", "ask"} =>
                Left(j)' = Place(stage'[j]) + 20 * MaxWork
           /\ stage'[j] \in {"turn", "save", "fail", "cancel", "clear"} \union Finished =>
                Left(j)' = Place(stage'[j]) + 20 * 0
BY DEF Left, AtHand, Awaiting, Waiting, Decisions, Finished

LEMMA Shortens ==
    ASSUME AgentAssumption, Types, AgentInv, BoundInv, BoundInv',
           NEW j \in Jobs, cancel[j], JobStep(j)
    PROVE  Left(j)' < Left(j)
<1> USE DEF Types, locals, approval, rows, history, At, Go
<1> DEFINE n == Len(calls[j]) - at[j]
<1>0. /\ at[j] \in Nat /\ Len(calls[j]) \in Nat /\ n \in Nat /\ MaxWork \in Nat
      /\ n <= MaxWork
  BY DEF AgentInv, JobInv, Order, BoundInv, AgentAssumption
<1>1. CASE CreateStep(j) \/ Configure(j)
  <2>1. \/ stage[j] = "named" /\ stage'[j] = "listed"
        \/ stage[j] = "listed" /\ stage'[j] = "config"
        \/ stage[j] = "config" /\ stage'[j] \in {"turn", "fail"}
    BY <1>1 DEF CreateStep, Register, Spawn, Configure
  <2>2. Left(j) = Place(stage[j]) + 20 * MaxWork
    BY <2>1, LeftAt
  <2>3. \/ stage'[j] \in {"listed", "config"} /\ Left(j)' = Place(stage'[j]) + 20 * MaxWork
        \/ stage'[j] \in {"turn", "fail"} /\ Left(j)' = Place(stage'[j]) + 20 * 0
    BY <2>1, LeftNext
  <2>4. /\ Place("named") = 23 /\ Place("listed") = 22 /\ Place("config") = 21
        /\ Place("turn") = 5 /\ Place("fail") = 4
    BY DEF Place
  <2>5. \/ Left(j) = 23 + 20 * MaxWork /\ Left(j)' = 22 + 20 * MaxWork
        \/ Left(j) = 22 + 20 * MaxWork /\ Left(j)' = 21 + 20 * MaxWork
        \/ Left(j) = 21 + 20 * MaxWork /\ Left(j)' \in {4, 5}
    <3>1. CASE stage[j] = "named"
      BY <2>1, <2>2, <2>3, <2>4, <3>1
    <3>2. CASE stage[j] = "listed"
      BY <2>1, <2>2, <2>3, <2>4, <3>2
    <3>3. CASE stage[j] = "config"
      BY <2>1, <2>2, <2>3, <2>4, <3>3
    <3> QED BY <2>1, <3>1, <3>2, <3>3
  <2> QED BY <1>0, <2>5
<1>2. CASE Turn(j) \/ AskCancelled(j) \/ AskFail(j)
  <2>1. stage[j] \in {"turn", "ask"} /\ stage'[j] \in {"cancel", "fail"}
    BY <1>2 DEF Turn, AskCancelled, AskFail
  <2>2. \/ stage[j] = "turn" /\ Left(j) = Place(stage[j]) + 20 * 0
        \/ stage[j] = "ask" /\ Left(j) = Place(stage[j]) + 20 * MaxWork
    BY <2>1, LeftAt
  <2>3. Left(j)' = Place(stage'[j]) + 20 * 0
    BY <2>1, LeftNext
  <2>4. Place("turn") = 5 /\ Place("ask") = 20 /\ Place("fail") = 4 /\ Place("cancel") = 4
    BY DEF Place
  <2>5. Left(j)' = 4 /\ (Left(j) = 5 \/ Left(j) = 20 + 20 * MaxWork)
    BY <2>1, <2>2, <2>3, <2>4
  <2> QED BY <1>0, <2>5
<1>3. CASE call_agent_provider(j)
  <2>1. stage[j] = "ask" /\ stage'[j] \in {"save", "call"} /\ at' = at
    BY <1>3 DEF call_agent_provider
  <2>2. Len(calls'[j]) <= MaxWork /\ Len(calls'[j]) \in Nat
    BY DEF BoundInv
  <2>3. Len(calls'[j]) - at'[j] <= MaxWork
    BY <1>0, <2>1, <2>2
  <2> QED BY SMTT(20), <1>0, <2>1, <2>2, <2>3 DEF Left, Place, AtHand, Awaiting, Waiting, Decisions
<1>4. CASE NextCall(j)
  <2>1. /\ stage[j] = "call" /\ stage'[j] \in {"tool", "preview"}
        /\ calls' = calls /\ at'[j] = at[j] + 1
    BY <1>4 DEF NextCall
  <2>2. Len(calls'[j]) - at'[j] = n - 1
    BY <1>0, <2>1
  <2> QED BY SMTT(20), <1>0, <2>1, <2>2 DEF Left, Place, AtHand, Awaiting, Waiting, Decisions
<1>5. CASE CallStep(j) /\ ~NextCall(j)
  <2>1. UNCHANGED <<calls, at>>
    BY <1>5 DEF CallStep, SetPending, ShowCard, WaitTurn, Park, WakeUp, WaitCancelled,
       Approve, Reject, execute_agent_tool, ToolResult
  <2>2. ~WaitTurn(j)
    BY DEF WaitTurn
  <2>3. \/ stage[j] = "preview" /\ stage'[j] = "card"
        \/ stage[j] = "card" /\ stage'[j] = "wait"
        \/ stage[j] = "poll" /\ stage'[j] = "parked"
        \/ stage[j] = "parked" /\ stage'[j] = "wait"
        \/ stage[j] \in Waiting /\ stage'[j] = "reject"
        \/ stage[j] \in {"once", "always"} /\ stage'[j] = "tool"
        \/ stage[j] = "reject" /\ stage'[j] = "save"
        \/ stage[j] = "tool" /\ stage'[j] = "running"
        \/ stage[j] = "running" /\ stage'[j] = "call"
        \/ stage[j] = "running" /\ stage'[j] = "turn"
    BY <1>5, <2>2 DEF CallStep, SetPending, ShowCard, Park, WakeUp, WaitCancelled,
       Approve, Reject, execute_agent_tool, ToolResult
  <2>4. Left(j) = Place(stage[j]) + 20 * n
    BY <2>3, LeftAt DEF AtHand, Awaiting, Waiting, Decisions
  <2>5. \/ Left(j)' = Place(stage'[j]) + 20 * n
        \/ stage'[j] \in {"save", "turn"} /\ Left(j)' = Place(stage'[j]) + 20 * 0
    BY <2>1, <2>3, LeftNext DEF AtHand, Awaiting, Waiting, Decisions
  <2>6. Place(stage'[j]) < Place(stage[j]) /\ Place(stage[j]) \in Nat /\ Place(stage'[j]) \in Nat
    BY <2>3 DEF Place, Waiting
  <2> HIDE DEF n
  <2> QED BY <1>0, <2>4, <2>5, <2>6
<1>6. CASE EndStep(j)
  <2>1. \/ stage[j] \in {"save", "fail", "cancel"} /\ stage'[j] = "clear"
        \/ stage[j] = "clear" /\ stage'[j] = "done"
        \/ stage[j] = "done" /\ stage'[j] = "unlist"
        \/ stage[j] = "unlist" /\ stage'[j] = "gone"
    BY <1>6 DEF EndStep, TellEnd, ClearSession, Done, Unlist
  <2> QED BY SMTT(20), <2>1 DEF Left, Place, AtHand, Awaiting, Waiting, Decisions
<1> QED BY <1>1, <1>2, <1>3, <1>4, <1>5, <1>6 DEF JobStep, AskStep

\* A cancelled job needs a bounded number of steps of its own to its end, whatever its
\* user, its session and the other jobs do in between: it cannot go round between
\* waiting and waking, nor ask the provider once more (run_agent_job_inner).
THEOREM CancelShortens ==
    Spec => [](\A j \in Jobs : Left(j) \in Nat) /\ NearerEnd
<1>1. Types /\ AgentInv => \A j \in Jobs : Left(j) \in Nat
  BY SomeLeft, AgentAssumption
<1>2. Types /\ AgentInv /\ BoundInv /\ BoundInv' /\ TokenInv /\ [Next]_vars =>
         [\A j \in Jobs : cancel[j] =>
             IF JobStep(j) THEN Left(j)' < Left(j) ELSE Left(j)' = Left(j)]_vars
  <2> SUFFICES ASSUME Types, AgentInv, BoundInv, BoundInv', TokenInv, [Next]_vars,
                      NEW j \in Jobs, cancel[j]
               PROVE  IF JobStep(j) THEN Left(j)' < Left(j) ELSE Left(j)' = Left(j)
    OBVIOUS
  <2>1. CASE JobStep(j)
    BY <2>1, Shortens, AgentAssumption
  <2>2. CASE ~JobStep(j)
    <3>1. stage'[j] = stage[j] /\ calls'[j] = calls[j] /\ at'[j] = at[j]
      BY <2>2, OwnStage DEF TokenInv
    <3> QED BY <2>2, <3>1 DEF Left
  <2> QED BY <2>1, <2>2
<1> QED BY <1>1, <1>2, JobsKept, BoundKept, TokenKept, PTL DEF Spec, NearerEnd
=============================================================================
