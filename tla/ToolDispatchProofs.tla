------------------------- MODULE ToolDispatchProofs -------------------------
(***************************************************************************)
(* Theorems about ToolDispatch, for every set of files and every fleet of  *)
(* runners: what is remembered is true, what is offered can be used, the   *)
(* budget holds, and files change only with the authority to change them.  *)
(***************************************************************************)
EXTENDS ToolDispatch, FiniteSetTheorems, TLAPS

\* What a runner may be offered while it works: the mode does not change in a run.
Usable == {t \in Tools : /\ Allows(t) /\ (runner.local_only => t \in Reads)
                         /\ t # "tool.search" => ModeAllows(t)}
OfferedAreUsable == running # "idle" => offered \subseteq Usable

\* A process runs with the authority it had when it was started.
ProcessIsAuthorised ==
  running \in Processes =>
    /\ mode = "work" /\ ~runner.local_only /\ ~runner.delegated
    /\ Needs(running) \subseteq runner.access

Inv == /\ TypeOK /\ CacheFresh /\ BudgetRespected /\ OfferedAreUsable /\ OfferedToolsAreUsable
       /\ ProcessIsAuthorised

-----------------------------------------------------------------------------
(* What the parts of a step do.                                            *)

LEMMA RunnerTyped ==
  ASSUME TypeOK
  PROVE  /\ runner.access \subseteq Grants /\ runner.budget \in Nat
         /\ runner.local_only \in BOOLEAN /\ runner.budgeted \in BOOLEAN
         /\ runner.eager \in BOOLEAN /\ runner.delegated \in BOOLEAN
<1>. QED
  BY FleetAssumption DEF TypeOK

LEMMA ChangesTyped ==
  ASSUME TypeOK, NEW ps, CanChange(ps)
  PROVE  Changed(ps) \in [Places -> 0..MaxVersion]
<1>1. \A p \in Places : content[p] \in 0..MaxVersion
  BY DEF TypeOK
<1>2. \A p \in Places : p \in ps => content[p] + 1 \in 0..MaxVersion
  BY <1>1, VersionAssumption DEF CanChange
<1>. QED
  BY <1>1, <1>2 DEF Changed

LEMMA AuthorTyped ==
  ASSUME TypeOK, NEW who \in Writers, NEW ps, WrittenBy(who, ps)
  PROVE  author' \in [Places -> Writers \cup {"nobody"}]
<1>. QED
  BY DEF TypeOK, WrittenBy

\* What the runner forgets it has no wrong idea of.
LEMMA InvalidateKeeps ==
  ASSUME Invalidate
  PROVE  /\ cache' \in [Places -> 0..Unseen] /\ behind' \subseteq Unseeable
         /\ recall' \in [Places -> {"none", "full", "cut", "summary"}]
         /\ CacheFresh'
<1>1. Unseen \in Nat /\ Unseen' = Unseen
  BY VersionAssumption DEF Unseen
<1>. QED
  BY <1>1 DEF Invalidate, Forgotten, CacheFresh, Stale

LEMMA KeepKeeps ==
  ASSUME TypeOK, CacheFresh, KeepCache, content' = content
  PROVE  /\ cache' \in [Places -> 0..Unseen] /\ behind' \subseteq Unseeable
         /\ recall' \in [Places -> {"none", "full", "cut", "summary"}]
         /\ CacheFresh'
<1>1. UNCHANGED <<cache, recall, behind, content>>
  BY DEF KeepCache
<1>. QED
  BY <1>1 DEF TypeOK, CacheFresh, Stale

\* What the runner looks at now it knows as it is.
LEMMA ObserveKeeps ==
  ASSUME TypeOK, CacheFresh, NEW ps, Observe(ps), content' = content
  PROVE  /\ cache' \in [Places -> 0..Unseen] /\ behind' \subseteq Unseeable
         /\ recall' \in [Places -> {"none", "full", "cut", "summary"}]
         /\ CacheFresh'
<1>1. \A p \in Places : content[p] \in 0..Unseen
  BY VersionAssumption DEF TypeOK, Unseen
<1>2. /\ cache' \in [Places -> 0..Unseen] /\ behind' \subseteq Unseeable
      /\ recall' \in [Places -> {"none", "full", "cut", "summary"}]
  BY <1>1 DEF TypeOK, Observe
<1>3. CacheFresh'
  <2>. SUFFICES ASSUME NEW p \in Places, cache'[p] \notin {Unseen, content'[p]}
                PROVE  \E b \in behind' : b[1] = p
    BY DEF CacheFresh, Stale, Places, Remote, Unseen
  <2>1. p \notin ps /\ cache'[p] = cache[p]
    BY DEF Observe
  <2>2. PICK b \in behind : b[1] = p
    BY <2>1 DEF CacheFresh, Stale
  <2>. QED
    BY <2>1, <2>2 DEF Observe
<1>. QED
  BY <1>2, <1>3

\* What others change the runner does not claim to know.
LEMMA OthersKeep ==
  ASSUME TypeOK, CacheFresh, NEW p \in Places, NEW who \in {"others"} \cup Processes,
         content' = Changed({p}), behind' = behind \cup {<<p, who>>}, cache' = cache
  PROVE  CacheFresh' /\ behind' \subseteq Unseeable
<1>1. \A q \in Places \ {p} : content'[q] = content[q]
  BY DEF Changed
<1>2. Unseen' = Unseen /\ Places' = Places
  BY DEF Unseen, Places, Remote
<1>3. <<p, who>> \in behind' /\ <<p, who>>[1] = p /\ behind \subseteq behind'
  OBVIOUS
<1>4. behind' \subseteq Unseeable
  BY DEF Unseeable, TypeOK
<1>5. CacheFresh'
  <2>. SUFFICES ASSUME NEW q \in Places, cache'[q] \notin {Unseen, content'[q]}
                PROVE  \E b \in behind' : b[1] = q
    BY <1>2 DEF CacheFresh, Stale
  <2>1. CASE q = p
    BY <1>3, <2>1
  <2>2. CASE q # p
    BY <1>1, <1>3, <2>2 DEF CacheFresh, Stale
  <2>. QED
    BY <2>1, <2>2
<1>. QED
  BY <1>4, <1>5

\* What the loop offers can be used.
LEMMA OfferUsable ==
  ASSUME TypeOK, NEW activated PROVE ToolsForCurrentLoop(activated) \subseteq Usable
<1>1. \A known : Eligible(known) \subseteq
        {t \in Tools \ {"tool.search"} : ModeAllows(t) /\ Allows(t)}
  BY DEF Eligible
<1>2. Eligible(discovered) \cap Deferred # {} => Allows("tool.search")
  <2>. SUFFICES ASSUME NEW t \in Eligible(discovered) \cap Deferred
                PROVE  Allows("tool.search")
    OBVIOUS
  <2>1. Allows(t) /\ t \notin Reads /\ t \in Deferred
    BY <1>1 DEF Deferred, Reads
  <2>2. Needs(t) \subseteq {"github_cli", "browser", "subagents", "mcp"}
    BY <2>1 DEF Needs, Deferred, Reads, Edits, Lifecycle
  <2>3. Needs("tool.search") = {"github_cli", "browser", "subagents", "mcp"}
    BY DEF Needs, Reads, Edits, Lifecycle
  <2>. QED
    BY <2>1, <2>2, <2>3 DEF Allows
<1>3. runner.local_only \in BOOLEAN
  BY RunnerTyped
<1>4. CASE runner.local_only
  <2>1. ToolsForCurrentLoop(activated) \in {{}, Eligible(discovered) \cap Reads}
    BY <1>4 DEF ToolsForCurrentLoop
  <2>. QED
    BY <1>1, <1>4, <2>1 DEF Usable
<1>5. CASE ~runner.local_only
  <2>1. \/ ToolsForCurrentLoop(activated) \subseteq Eligible(discovered)
        \/ /\ Eligible(discovered) \cap Deferred # {}
           /\ ToolsForCurrentLoop(activated) \subseteq {"tool.search"} \cup Eligible(discovered)
    BY <1>5 DEF ToolsForCurrentLoop
  <2>. QED
    BY <1>1, <1>2, <1>5, <2>1 DEF Usable, Tools
<1>. QED
  BY <1>4, <1>5, <1>3

\* A call of an offered tool that arrives is not blocked.
LEMMA OfferedIsLetThrough ==
  ASSUME OfferedAreUsable, running # "idle", NEW t \in offered, Arrives(t)
  PROVE  ~Blocked(t) /\ (t # "tool.search" => ModeAllows(t))
<1>. QED
  BY DEF OfferedAreUsable, Usable, Blocked

-----------------------------------------------------------------------------
(* The invariant, conjunct by conjunct.                                    *)

LEMMA InitInv == Init => Inv
<1>. SUFFICES ASSUME Init PROVE Inv
  OBVIOUS
<1>1. /\ runner \in Fleet /\ runner.mode \in {"ask", "work"} /\ runner.budget \in Nat
      /\ runner.eager \in BOOLEAN
  BY FleetAssumption DEF Init
<1>2. TypeOK
  BY <1>1, VersionAssumption DEF Init, TypeOK, Unseen, NoReply
<1>3. /\ CacheFresh /\ BudgetRespected /\ OfferedAreUsable /\ OfferedToolsAreUsable
      /\ ProcessIsAuthorised
  BY <1>1 DEF Init, CacheFresh, Stale, BudgetRespected, OfferedAreUsable, OfferedToolsAreUsable, Processes,
     ProcessIsAuthorised
<1>. QED
  BY <1>2, <1>3 DEF Inv

\* The cache and the types of what it remembers.
LEMMA CacheKept ==
  ASSUME TypeOK, CacheFresh, Next
  PROVE  /\ cache' \in [Places -> 0..Unseen] /\ behind' \subseteq Unseeable
         /\ recall' \in [Places -> {"none", "full", "cut", "summary"}]
         /\ content' \in [Places -> 0..MaxVersion]
         /\ CacheFresh'
<1>1. CASE StartRun \/ NextTurn \/ EndRun
  BY <1>1 DEF StartRun, NextTurn, EndRun, TypeOK, CacheFresh, Stale
<1>2. CASE SetMode
  <2>1. content' = content /\ Invalidate
    BY <1>2 DEF SetMode
  <2>. QED
    BY <2>1, InvalidateKeeps DEF TypeOK
<1>3. CASE CompactRemotely \/ CompactLocally
  <2>1. UNCHANGED <<content, cache, behind>>
    BY <1>3 DEF CompactRemotely, CompactLocally
  <2>2. recall' \in [Places -> {"none", "full", "cut", "summary"}]
    BY <1>3 DEF CompactRemotely, CompactLocally, TypeOK
  <2>. QED
    BY <2>1, <2>2 DEF TypeOK, CacheFresh, Stale
<1>4. CASE OthersChange \/ ProcessWrites
  <2>1. PICK p \in Places, who \in {"others"} \cup Processes :
          /\ CanChange({p}) /\ content' = Changed({p})
          /\ behind' = behind \cup {<<p, who>>} /\ cache' = cache /\ recall' = recall
    BY <1>4 DEF OthersChange, ProcessWrites, WrittenBy
  <2>. QED
    BY <2>1, OthersKeep, ChangesTyped DEF TypeOK
<1>5. CASE Decline \/ Delegate \/ Search \/ CallMcp \/ DropProcess
  BY <1>5 DEF Decline, Delegate, Search, CallMcp, DropProcess, TypeOK, CacheFresh, Stale
<1>6. CASE ReadOne \/ ReadInParallel
  <2>1. content' = content /\ \E ps : Observe(ps)
    BY <1>6 DEF ReadOne, ReadInParallel
  <2>. QED
    BY <2>1, ObserveKeeps DEF TypeOK
<1>7. CASE Edit
  <2>1. PICK ps : \/ KeepCache /\ content' = content
                  \/ Invalidate /\ content' = content
                  \/ Invalidate /\ CanChange(ps) /\ content' = Changed(ps)
    BY <1>7 DEF Edit, AfterCall, Clears, WrittenBy, Unwritten
  <2>. QED
    BY <2>1, KeepKeeps, InvalidateKeeps, ChangesTyped DEF TypeOK
<1>8. CASE StartProcess \/ ProcessReturns
  <2>1. content' = content /\ (KeepCache \/ Invalidate)
    BY <1>8 DEF StartProcess, ProcessReturns, AfterCall
  <2>. QED
    BY <2>1, KeepKeeps, InvalidateKeeps DEF TypeOK
<1>. QED
  BY <1>1, <1>2, <1>3, <1>4, <1>5, <1>6, <1>7, <1>8 DEF Next, Runs, Calls, Process

\* The budget is charged before it is carried out, and for no more than it has.
LEMMA BudgetKept ==
  ASSUME TypeOK, BudgetRespected, Next
  PROVE  used' \in Nat /\ executed' \in Nat /\ BudgetRespected'
<1>0. runner.budgeted \in BOOLEAN /\ runner.budget \in Nat /\ used \in Nat /\ executed \in Nat
  BY RunnerTyped DEF TypeOK
<1>r. runner' = runner
  BY DEF Next, Runs, Calls, Process, StartRun, NextTurn, EndRun, SetMode, CompactRemotely,
     CompactLocally, OthersChange, Decline, Delegate, Search, ReadOne, ReadInParallel, Edit,
     StartProcess, ProcessWrites, ProcessReturns, DropProcess, CallMcp, Surroundings
<1>1. CASE ReadOne
  <2>1. PICK n \in {0, 1} : Carry(n) /\ Charge(1) /\ ~Exhausted
    BY <1>1 DEF ReadOne, LetThrough
  <2>2. runner.budgeted => used < runner.budget
    BY <1>0, <2>1 DEF Exhausted
  <2>. QED
    BY <1>0, <1>r, <2>1, <2>2 DEF Carry, Charge, BudgetRespected
<1>2. CASE ReadInParallel
  <2>1. PICK room, runs : /\ room = IF runner.budgeted /\ used + 2 > runner.budget
                                    THEN runner.budget - used ELSE 2
                          /\ runs \subseteq 1..room /\ room > 0
                          /\ Carry(Cardinality(runs)) /\ Charge(room)
    BY <1>2 DEF ReadInParallel
  <2>2. room \in Nat /\ (runner.budgeted => used + room <= runner.budget)
    BY <1>0, <2>1
  <2>3. IsFiniteSet(1..room) /\ Cardinality(1..room) = room
    BY <2>1, <2>2, FS_Interval
  <2>4. Cardinality(runs) \in Nat /\ Cardinality(runs) <= room
    <3>1. runs \in SUBSET (1..room)
      BY <2>1
    <3>2. IsFiniteSet(runs) /\ Cardinality(runs) <= Cardinality(1..room)
      BY <2>3, <3>1, FS_Subset
    <3>. QED
      BY <2>3, <3>2, FS_CardinalityType
  <2>. QED
    BY <1>0, <1>r, <2>1, <2>2, <2>4 DEF Carry, Charge, BudgetRespected
<1>3. CASE ~ReadOne /\ ~ReadInParallel
  <2>1. UNCHANGED <<used, executed>>
    BY <1>3 DEF Next, Runs, Calls, Process, StartRun, NextTurn, EndRun, SetMode,
       CompactRemotely, CompactLocally, OthersChange, Decline, Delegate, Search, Edit,
       StartProcess, ProcessWrites, ProcessReturns, DropProcess, CallMcp
  <2>. QED
    BY <1>0, <1>r, <2>1 DEF BudgetRespected
<1>. QED
  BY <1>1, <1>2, <1>3

\* What is offered, and how the last call was answered.
LEMMA OfferKept ==
  ASSUME TypeOK, OfferedAreUsable, OfferedToolsAreUsable, Next
  PROVE  OfferedAreUsable' /\ OfferedToolsAreUsable'
<1>1. CASE StartRun \/ NextTurn
  <2>1. /\ \E activated : offered' = ToolsForCurrentLoop(activated)
        /\ reply' = NoReply /\ UNCHANGED <<runner, mode>>
    BY <1>1 DEF StartRun, NextTurn
  <2>2. offered' \subseteq Usable /\ Usable' = Usable
    BY <2>1, OfferUsable DEF Usable, Allows, ModeAllows, Needs
  <2>. QED
    BY <2>1, <2>2 DEF OfferedAreUsable, OfferedToolsAreUsable, NoReply
<1>2. CASE EndRun \/ DropProcess
  BY <1>2 DEF EndRun, DropProcess, Surroundings, OfferedAreUsable, OfferedToolsAreUsable
<1>3. CASE SetMode
  BY <1>3 DEF SetMode, OfferedAreUsable, OfferedToolsAreUsable
<1>4. ASSUME UNCHANGED <<runner, mode, offered>>, running # "idle",
             \/ reply' = reply
             \/ \E t, how, from :
                  /\ reply' = [tool |-> t, how |-> how, from |-> from]
                  /\ \/ how \notin {"blocked", "refused"}
                     \/ Blocked(t)
                     \/ how = "refused" /\ t # "tool.search" /\ ~ModeAllows(t)
      PROVE  OfferedAreUsable' /\ OfferedToolsAreUsable'
  <2>1. Usable' = Usable
    BY <1>4 DEF Usable, Allows, ModeAllows, Needs
  <2>2. OfferedAreUsable'
    BY <1>4, <2>1 DEF OfferedAreUsable
  <2>3. CASE reply' = reply
    BY <1>4, <2>2, <2>3 DEF OfferedToolsAreUsable, Arrives
  <2>4. CASE reply' # reply
    <3>1. PICK t, how, from :
            /\ reply' = [tool |-> t, how |-> how, from |-> from]
            /\ \/ how \notin {"blocked", "refused"}
               \/ Blocked(t)
               \/ how = "refused" /\ t # "tool.search" /\ ~ModeAllows(t)
      BY <1>4, <2>4
    <3>2. reply'.tool = t /\ reply'.how = how
      BY <3>1
    <3>3. t \in offered /\ Arrives(t) => how \notin {"blocked", "refused"}
      BY <1>4, <3>1, OfferedIsLetThrough
    <3>. QED
      BY <1>4, <2>2, <3>2, <3>3 DEF OfferedToolsAreUsable, Arrives
  <2>. QED
    BY <2>2, <2>3, <2>4
<1>5. CASE CompactRemotely \/ CompactLocally \/ ProcessWrites
  BY <1>4, <1>5 DEF CompactRemotely, CompactLocally, ProcessWrites, Surroundings, Processes
<1>6. CASE Decline
  BY <1>4, <1>6 DEF Decline, Answered, Surroundings
<1>7. CASE Delegate \/ ProcessReturns
  BY <1>4, <1>7 DEF Delegate, ProcessReturns, Answered, LetThrough, Surroundings, Processes
<1>8. CASE Search
  <2>1. /\ UNCHANGED <<runner, mode, offered>> /\ running # "idle"
        /\ Answered("tool.search", "ran")
    BY <1>8 DEF Search, LetThrough
  <2>2. PICK t \in {"tool.search"}, how \in {"ran"}, from \in {{}} :
          reply' = [tool |-> t, how |-> how, from |-> from]
    BY <2>1 DEF Answered
  <2>. QED
    BY <1>4, <2>1, <2>2
<1>9. CASE ReadOne \/ ReadInParallel
  <2>1. /\ UNCHANGED <<runner, mode, offered>> /\ running # "idle"
        /\ \E t, hits : Reply(t, hits)
    BY <1>9 DEF ReadOne, ReadInParallel, LetThrough, Surroundings
  <2>2. PICK t, hits : Reply(t, hits)
    BY <2>1
  <2>3. PICK how \in {"ran", "cached"} : reply' = [tool |-> t, how |-> how, from |-> hits]
    BY <2>2 DEF Reply
  <2>. QED
    BY <1>4, <2>1, <2>3
<1>10. CASE Edit
  <2>1. /\ UNCHANGED <<runner, mode, offered>> /\ running # "idle"
        /\ \E t \in Edits : \/ Answered(t, "scope")
                            \/ ~ModeAllows(t) /\ Answered(t, "refused")
                            \/ Answered(t, "ran")
    BY <1>10 DEF Edit, LetThrough, Surroundings
  <2>. QED
    BY <1>4, <2>1 DEF Answered, Edits
<1>11. CASE StartProcess
  <2>1. /\ UNCHANGED <<runner, mode, offered>> /\ running # "idle"
        /\ \E t \in Processes : \/ Answered(t, "scope")
                                \/ ~ModeAllows(t) /\ Answered(t, "refused")
                                \/ reply' = NoReply
    BY <1>11 DEF StartProcess, LetThrough, Surroundings
  <2>. QED
    BY <1>4, <2>1 DEF Answered, NoReply, Processes
<1>12. CASE CallMcp
  <2>1. /\ UNCHANGED <<runner, mode, offered>> /\ running # "idle"
        /\ Answered("mcp", "scope") \/ Answered("mcp", "ran")
    BY <1>12 DEF CallMcp, LetThrough
  <2>. QED
    BY <1>4, <2>1 DEF Answered
<1>13. CASE OthersChange
  BY <1>4, <1>13 DEF OthersChange, Surroundings, OfferedAreUsable, OfferedToolsAreUsable
<1>. QED
  BY <1>1, <1>2, <1>3, <1>5, <1>6, <1>7, <1>8, <1>9, <1>10, <1>11, <1>12, <1>13
     DEF Next, Runs, Calls, Process

\* A process that starts, or is still running, is authorised.
LEMMA ProcessKept == ASSUME TypeOK, ProcessIsAuthorised, Next PROVE ProcessIsAuthorised'
<1>1. CASE StartProcess
  <2>. SUFFICES ASSUME running' \in Processes, running \notin Processes
                PROVE  ProcessIsAuthorised'
    BY <1>1 DEF StartProcess, LetThrough, ProcessIsAuthorised, Processes
  <2>1. PICK t \in Processes :
          /\ ~Blocked(t) /\ ModeAllows(t) /\ UNCHANGED <<runner, mode>>
          /\ ~OutOfScope(t, Nowhere, Nowhere) /\ running' = t
    BY <1>1 DEF StartProcess, LetThrough, Surroundings
  <2>2. mode = "work" /\ ~runner.delegated
    BY <2>1 DEF ModeAllows, ReadOnly, Reads, Lifecycle, OutOfScope, Processes
  <2>3. ~runner.local_only /\ Allows(t)
    BY <2>1, RunnerTyped DEF Blocked, Reads, Processes
  <2>4. Needs(t) \in {{"command_execution"}, {"browser"}}
    BY <2>1 DEF Needs, Reads, Edits, Lifecycle, Processes
  <2>5. Needs(t) \subseteq runner.access
    BY <2>1, <2>3, <2>4 DEF Allows, Reads, Processes
  <2>6. Needs(running)' = Needs(t)
    BY <2>1 DEF Needs
  <2>. QED
    BY <2>1, <2>2, <2>3, <2>5, <2>6 DEF ProcessIsAuthorised
<1>2. CASE StartRun \/ EndRun \/ SetMode \/ ProcessReturns \/ DropProcess
  BY <1>2 DEF StartRun, EndRun, SetMode, ProcessReturns, DropProcess, ProcessIsAuthorised,
     Processes
<1>3. CASE ~StartProcess /\ ~(StartRun \/ EndRun \/ SetMode \/ ProcessReturns \/ DropProcess)
  <2>1. UNCHANGED <<runner, mode, running>>
    BY <1>3 DEF Next, Runs, Calls, Process, NextTurn, CompactRemotely, CompactLocally,
       OthersChange, Decline, Delegate, Search, ReadOne, ReadInParallel, Edit, ProcessWrites,
       CallMcp, Surroundings
  <2>. QED
    BY <2>1 DEF ProcessIsAuthorised, Needs
<1>. QED
  BY <1>1, <1>2, <1>3

\* The rest of the types.
LEMMA TypesKept ==
  ASSUME TypeOK, Next
  PROVE  /\ runner' \in Fleet /\ mode' \in {"ask", "work"}
         /\ active' \subseteq Deferred /\ discovered' \in BOOLEAN /\ offered' \subseteq Tools
         /\ running' \in {"idle", "run"} \cup Processes
         /\ author' \in [Places -> Writers \cup {"nobody"}]
         /\ reply'.how \in {"none", "ran", "cached", "blocked", "budget", "scope", "refused"}
<1>1. CASE StartRun \/ NextTurn
  <2>1. /\ \E activated : offered' = ToolsForCurrentLoop(activated)
        /\ reply' = NoReply /\ UNCHANGED <<runner, mode, discovered>> /\ active' \in {{}, active}
        /\ running' = "run"
    BY <1>1 DEF StartRun, NextTurn
  <2>3. author' = author
    BY <1>1 DEF StartRun, NextTurn
  <2>2. offered' \subseteq Tools
    BY <2>1, OfferUsable DEF Usable
  <2>. QED
    BY <2>1, <2>2, <2>3 DEF TypeOK, NoReply
<1>2. CASE EndRun \/ SetMode \/ CompactRemotely \/ CompactLocally
  BY <1>2 DEF EndRun, SetMode, CompactRemotely, CompactLocally, TypeOK
<1>3. CASE Decline \/ Delegate \/ Edit
  <2>1. UNCHANGED <<Surroundings, running>>
    BY <1>3 DEF Decline, Delegate, Edit
  <2>2. PICK how \in {"ran", "blocked", "budget", "scope", "refused"}, t \in Tools : Answered(t, how)
    BY <1>3 DEF Decline, Delegate, Edit, Tools, Deferred, Lifecycle
  <2>3. reply'.how = how
    BY <2>2 DEF Answered
  <2>4. author' = author \/ \E who \in Writers : \E ps : WrittenBy(who, ps)
    BY <1>3 DEF Decline, Delegate, Edit, Unwritten, Writers
  <2>. QED
    BY <2>1, <2>2, <2>3, <2>4, AuthorTyped DEF Surroundings, TypeOK
<1>4. CASE Search
  BY <1>4 DEF Search, Answered, TypeOK
<1>5. CASE ReadOne \/ ReadInParallel
  <2>1. UNCHANGED <<Surroundings, running>> /\ \E t, hits : Reply(t, hits)
    BY <1>5 DEF ReadOne, ReadInParallel
  <2>2. PICK t, hits : Reply(t, hits)
    BY <2>1
  <2>3. reply'.how \in {"ran", "cached"}
    BY <2>2 DEF Reply
  <2>4. author' = author
    BY <1>5 DEF ReadOne, ReadInParallel
  <2>. QED
    BY <2>1, <2>3, <2>4 DEF Surroundings, TypeOK
<1>6. CASE CallMcp
  <2>1. /\ UNCHANGED <<runner, mode, active, offered, running, author>>
        /\ discovered' \in BOOLEAN
        /\ Answered("mcp", "scope") \/ Answered("mcp", "ran")
    BY <1>6 DEF CallMcp, TypeOK
  <2>2. reply'.how \in {"scope", "ran"}
    BY <2>1 DEF Answered
  <2>. QED
    BY <2>1, <2>2 DEF TypeOK
<1>7. CASE OthersChange \/ ProcessWrites
  <2>1. \E who \in Writers : \E ps : WrittenBy(who, ps)
    BY <1>7 DEF OthersChange, ProcessWrites, Writers
  <2>2. UNCHANGED <<Surroundings, running, reply>>
    BY <1>7 DEF OthersChange, ProcessWrites
  <2>. QED
    BY <2>1, <2>2, AuthorTyped DEF Surroundings, TypeOK
<1>8. CASE StartProcess \/ ProcessReturns \/ DropProcess
  <2>1. UNCHANGED <<Surroundings, author>>
    BY <1>8 DEF StartProcess, ProcessReturns, DropProcess
  <2>2. /\ running' \in {"idle", "run"} \cup Processes
        /\ reply'.how \in {"none", "ran", "scope", "refused"} \/ reply' = reply
    BY <1>8 DEF StartProcess, ProcessReturns, DropProcess, Answered, NoReply, TypeOK
  <2>. QED
    BY <2>1, <2>2 DEF Surroundings, TypeOK
<1>. QED
  BY <1>1, <1>2, <1>3, <1>4, <1>5, <1>6, <1>7, <1>8 DEF Next, Runs, Calls, Process

LEMMA NextKeepsInv == Inv /\ [Next]_vars => Inv'
<1>. SUFFICES ASSUME Inv, [Next]_vars PROVE Inv'
  OBVIOUS
<1>1. CASE Next
  <2>1. CacheFresh' /\ BudgetRespected'
    BY <1>1, CacheKept, BudgetKept DEF Inv
  <2>2. OfferedAreUsable' /\ OfferedToolsAreUsable' /\ ProcessIsAuthorised'
    BY <1>1, OfferKept, ProcessKept DEF Inv
  <2>3. TypeOK'
    BY <1>1, CacheKept, BudgetKept, TypesKept DEF Inv, TypeOK, Places, Remote, Unseen, Unseeable, Deferred,
       Lifecycle, Writers, Processes
  <2>. QED
    BY <2>1, <2>2, <2>3 DEF Inv
<1>2. CASE UNCHANGED vars
  <2>1. Usable' = Usable
    BY <1>2 DEF vars, Usable, Allows, ModeAllows, Needs
  <2>. QED
    BY <1>2, <2>1 DEF vars, Inv, TypeOK, CacheFresh, Stale, BudgetRespected, OfferedAreUsable,
       OfferedToolsAreUsable, ProcessIsAuthorised
<1>. QED
  BY <1>1, <1>2

LEMMA InvHolds == Spec => []Inv
<1>. QED
  BY InitInv, NextKeepsInv, PTL DEF Spec

-----------------------------------------------------------------------------
(* Theorems.                                                               *)

\* A remembered observation is what the tool would answer now, unless others, a browser
\* run or a command that did not return changed the place (invoke_with_cache): the fs tools
\* and a command that returned leave nothing untrue, for any number of files and versions.
THEOREM MemoryIsTrue == Spec => []CacheFresh
<1>1. Inv => CacheFresh
  BY DEF Inv
<1>. QED
  BY <1>1, InvHolds, PTL

\* A runner with an evidence budget reads no more than it allows, alone or in batches
\* (LocalFilesystemToolBudget, invoke_parallel_local_reads), whatever the budget.
THEOREM BudgetHolds == Spec => []BudgetRespected
<1>1. Inv => BudgetRespected
  BY DEF Inv
<1>. QED
  BY <1>1, InvHolds, PTL

\* What the loop offers is neither out of the runner's grants nor refused in its mode
\* (tools_for_current_loop against invoke_with_cache), for every fleet.
THEOREM OffersAreGood == Spec => []OfferedToolsAreUsable
<1>1. Inv => OfferedToolsAreUsable
  BY DEF Inv
<1>. QED
  BY <1>1, InvHolds, PTL

\* No file changes by a tool of this runner without the mode, the grant for that tool and,
\* for a delegated worker, the ownership (ToolAccessPolicy, delegated_tool_scope_error).
THEOREM WritesHaveAuthority == Spec => WritesAreAuthorised
<1>. DEFINE Authorised ==
       \A p \in Files :
         content'[p] # content[p] /\ author'[p] # "others" =>
           /\ mode = "work" /\ ~runner.local_only
           /\ Needs(author'[p]) \subseteq runner.access
           /\ runner.delegated => p \in runner.owned
<1>0. ASSUME NEW who, NEW ps, WrittenBy(who, ps), NEW p \in Files, content'[p] # content[p]
      PROVE  p \in ps /\ author'[p] = who
  BY <1>0 DEF WrittenBy, Changed, Places
<1>1. Inv /\ Edit => Authorised
  <2>. SUFFICES ASSUME Inv, Edit, NEW p \in Files, content'[p] # content[p]
                PROVE  /\ mode = "work" /\ ~runner.local_only
                       /\ Needs(author'[p]) \subseteq runner.access
                       /\ runner.delegated => p \in runner.owned
    OBVIOUS
  <2>1. PICK t \in Edits, from \in Files, to \in Files :
          /\ ~Blocked(t) /\ ~OutOfScope(t, from, to) /\ ModeAllows(t)
          /\ WrittenBy(t, {from, to})
    BY DEF Edit, LetThrough, Unwritten
  <2>2. p \in {from, to} /\ author'[p] = t
    BY <1>0, <2>1
  <2>3. t \notin ReadOnly
    BY <2>1 DEF ReadOnly, Reads, Lifecycle, Edits
  <2>4. mode = "work" /\ ~runner.local_only /\ Allows(t)
    BY <2>1, <2>3, RunnerTyped DEF ModeAllows, Blocked, ReadOnly, Inv
  <2>5. Needs(t) = {"workspace_writes"} /\ t \notin Reads
    BY <2>1 DEF Needs, Reads, Edits, Lifecycle
  <2>6. Needs(author'[p]) \subseteq runner.access
    BY <2>2, <2>4, <2>5 DEF Allows
  <2>. QED
    BY <2>1, <2>2, <2>4, <2>6 DEF OutOfScope
<1>2. Inv /\ ProcessWrites => Authorised
  <2>. SUFFICES ASSUME Inv, ProcessWrites, NEW p \in Files, content'[p] # content[p]
                PROVE  /\ mode = "work" /\ ~runner.local_only
                       /\ Needs(author'[p]) \subseteq runner.access
                       /\ runner.delegated => p \in runner.owned
    OBVIOUS
  <2>1. author'[p] = running
    BY <1>0 DEF ProcessWrites
  <2>. QED
    BY <2>1, RunnerTyped DEF ProcessWrites, Inv, ProcessIsAuthorised
<1>3. OthersChange => Authorised
  <2>. SUFFICES ASSUME OthersChange, NEW p \in Files, content'[p] # content[p]
                PROVE  author'[p] = "others"
    OBVIOUS
  <2>. QED
    BY <1>0 DEF OthersChange
<1>4. Next /\ ~Edit /\ ~ProcessWrites /\ ~OthersChange => content' = content
  BY DEF Next, Runs, Calls, Process, StartRun, NextTurn, EndRun, SetMode, CompactRemotely,
     CompactLocally, Decline, Delegate, Search, ReadOne, ReadInParallel, StartProcess,
     ProcessReturns, DropProcess, CallMcp
<1>5. Inv /\ [Next]_vars => [Authorised]_vars
  BY <1>1, <1>2, <1>3, <1>4
<1>. QED
  BY <1>5, InvHolds, PTL DEF Spec, WritesAreAuthorised
=============================================================================
