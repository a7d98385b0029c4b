--------------------------- MODULE ProgramsProofs ---------------------------
(***************************************************************************)
(* What holds of the programs around the agent, for any bounds.  Each part *)
(* is proved in behaviours of its own and the parts are put together at    *)
(* the end.                                                                *)
(***************************************************************************)
EXTENDS MCPrograms, Sequences, FiniteSetTheorems, SequenceTheorems, WellFoundedInduction,
        TLAPS

-----------------------------------------------------------------------------
(* The client of MCP servers.                                              *)

\* The registry knows every tool by its own local name; an exchange is of the tool that its
\* name stands for and waits for the answer to what it asked, and over HTTP nothing that was
\* written before is left.
Phases == {"initialize", "request", "answered"}
Lines == [id : Nat, on : Nat]
Exchanges == [phase : Phases, name : Client!Names, server : Servers, tool : Tools,
              waits : Nat \ {0},
              asked : Nat, out : Seq(Lines), session : BOOLEAN, answer : Lines]

NamesStandForTools ==
  registry.known =>
    /\ DOMAIN registry.tools \subseteq Client!Names
    /\ \A n \in DOMAIN registry.tools :
         /\ registry.tools[n] \in Servers \X Tools
         /\ Local(registry.tools[n][1], registry.tools[n][2]) = n

ExchangeIsAsked(e) ==
  /\ e \in Exchanges
  /\ Local(e.server, e.tool) = e.name
  /\ e.phase = "request" => e.waits = e.asked
  /\ e.phase = "answered" =>
       IF e.server \in Http THEN e.answer.on = e.asked ELSE e.answer.id = e.asked
  /\ e.server \notin Http => e.asked # 0
  /\ e.server \in Http => \A i \in DOMAIN e.out : e.out[i].on = e.waits

ClientInv ==
  /\ ids \in Nat \ {0}
  /\ NamesStandForTools
  /\ Client!Free \/ ExchangeIsAsked(exchange)

LEMMA ClientBegins == ASSUME Client!Init PROVE ClientInv
<1>1. ids = 1 /\ registry.known = FALSE /\ Client!Free
  BY DEF Client!Init, Client!NoRegistry, Client!Free
<1>. QED
  BY <1>1 DEF ClientInv, NamesStandForTools

\* A registry that is discovered has every tool under its own name.
LEMMA DiscoverStep == ASSUME ClientInv, Client!Discover PROVE ClientInv'
<1>1. /\ Client!Discovered(registry') /\ registry' \in Client!Registries
      /\ UNCHANGED <<exchange, ids>>
  BY DEF Client!Discover
<1>2. PICK answering \in SUBSET {s \in Servers : Client!Enabled(s)} :
        LET named == {Local(s, t) : s \in answering, t \in Tools}
        IN /\ DOMAIN registry'.tools = named /\ registry'.known
           /\ \A n \in named : registry'.tools[n] \in
                 {b \in answering \X Tools : Local(b[1], b[2]) = n}
  BY <1>1 DEF Client!Discovered
<1>3. NamesStandForTools'
  <2>1. DOMAIN registry'.tools \subseteq Client!Names
    BY <1>2 DEF Client!Names
  <2>2. ASSUME NEW n \in DOMAIN registry'.tools
        PROVE  /\ registry'.tools[n] \in Servers \X Tools
               /\ Local(registry'.tools[n][1], registry'.tools[n][2]) = n
    <3>1. registry'.tools[n] \in {b \in answering \X Tools : Local(b[1], b[2]) = n}
      BY <1>2
    <3>. QED
      BY <3>1
  <2>. QED
    BY <2>1, <2>2 DEF NamesStandForTools
<1>. QED
  BY <1>1, <1>3 DEF ClientInv, Client!Free

LEMMA CommandStep ==
  ASSUME ClientInv, Client!McpCommand \/ Client!EditConfiguration PROVE ClientInv'
<1>1. UNCHANGED <<exchange, ids>> /\ (registry' = registry \/ registry' = Client!NoRegistry)
  BY DEF Client!McpCommand, Client!EditConfiguration, Client!InvalidateRegistry
<1>2. Client!NoRegistry.known = FALSE
  BY DEF Client!NoRegistry
<1>3. NamesStandForTools'
  BY <1>1, <1>2 DEF ClientInv, NamesStandForTools
<1>. QED
  BY <1>1, <1>3 DEF ClientInv, Client!Free

LEMMA BeginCallStep == ASSUME ClientInv, Client!BeginCall PROVE ClientInv'
<1>1. PICK n \in DOMAIN registry.tools :
        exchange' = [phase |-> "initialize", name |-> n, server |-> registry.tools[n][1],
                     tool |-> registry.tools[n][2], waits |-> ids,
                     asked |-> IF registry.tools[n][1] \in Http THEN 0 ELSE ids + 1,
                     out |-> <<>>, session |-> FALSE, answer |-> Client!NoLine]
  BY DEF Client!BeginCall
<1>2. /\ registry.known /\ UNCHANGED registry /\ ids \in Nat \ {0}
      /\ ids' = ids + (IF exchange'.server \in Http THEN 1 ELSE 2)
  BY DEF Client!BeginCall, ClientInv
<1>3. /\ n \in Client!Names /\ registry.tools[n] \in Servers \X Tools
      /\ Local(registry.tools[n][1], registry.tools[n][2]) = n
  BY <1>2 DEF ClientInv, NamesStandForTools
<1>4. PICK s, t, a, q, l : /\ s = registry.tools[n][1] /\ t = registry.tools[n][2]
                           /\ q = <<>> /\ l = Client!NoLine
                           /\ a = IF s \in Http THEN 0 ELSE ids + 1
  OBVIOUS
<1>a. s \in Servers /\ t \in Tools /\ Local(s, t) = n
  BY <1>3, <1>4
<1>b. a \in Nat /\ (s \notin Http => a # 0) /\ q \in Seq(Lines) /\ DOMAIN q = {} /\ l \in Lines
  BY <1>2, <1>4, EmptySeq DEF Client!NoLine, Lines
<1>5. exchange' = [phase |-> "initialize", name |-> n, server |-> s, tool |-> t, waits |-> ids,
                   asked |-> a, out |-> q, session |-> FALSE, answer |-> l]
  BY <1>1, <1>4
<1>6. exchange' \in Exchanges
  BY <1>2, <1>3, <1>5, <1>a, <1>b DEF Exchanges, Phases
<1>7. ids' \in Nat \ {0}
  BY <1>2
<1>8. ExchangeIsAsked(exchange')
  BY <1>5, <1>6, <1>a, <1>b DEF ExchangeIsAsked
<1>. QED
  BY <1>2, <1>7, <1>8 DEF ClientInv, NamesStandForTools

LEMMA ServerWritesStep == ASSUME ClientInv, Client!ServerWrites PROVE ClientInv'
<1>1. PICK lines \in Client!Written(exchange.waits) :
        exchange' = [exchange EXCEPT !.out = @ \o lines]
  BY DEF Client!ServerWrites
<1>2. /\ ~Client!Free /\ UNCHANGED <<registry, ids>> /\ ExchangeIsAsked(exchange)
      /\ exchange.phase # "answered"
  BY DEF Client!ServerWrites, ClientInv
<1>3. exchange \in Exchanges /\ exchange.waits \in Nat \ {0} /\ exchange.out \in Seq(Lines)
  BY <1>2 DEF ExchangeIsAsked, Exchanges
<1>4. lines \in Seq(Lines) /\ \A i \in 1..Len(lines) : lines[i].on = exchange.waits
  <2>1. PICK note, reply : /\ note = [id |-> 0, on |-> exchange.waits]
                            /\ reply = [id |-> exchange.waits, on |-> exchange.waits]
    OBVIOUS
  <2>2. /\ note \in Lines /\ reply \in Lines
        /\ note.on = exchange.waits /\ reply.on = exchange.waits
    BY <1>3, <2>1 DEF Lines
  <2>3. lines \in {<<reply>>, <<note, reply>>, <<reply, note>>, <<note, reply, note>>, <<note>>}
    BY <1>1, <2>1 DEF Client!Written
  <2>4. ASSUME NEW s \in Seq(Lines),
               s = <<reply>> \/ s = <<note, reply>> \/ s = <<reply, note>>
                 \/ s = <<note, reply, note>> \/ s = <<note>>,
               NEW i \in 1..Len(s)
        PROVE  s[i] = note \/ s[i] = reply
    BY <2>2, <2>4
  <2>5. lines \in Seq(Lines)
    <3>1. /\ <<reply>> \in Seq(Lines) /\ <<note, reply>> \in Seq(Lines)
          /\ <<reply, note>> \in Seq(Lines) /\ <<note, reply, note>> \in Seq(Lines)
          /\ <<note>> \in Seq(Lines)
      BY <2>2
    <3>. QED
      BY <2>3, <3>1
  <2>. QED
    BY <2>2, <2>3, <2>4, <2>5
<1>5. PICK q : q = exchange.out \o lines
  OBVIOUS
<1>6. /\ q \in Seq(Lines)
      /\ exchange.server \in Http => \A i \in DOMAIN q : q[i].on = exchange.waits
  <2>1. q \in Seq(Lines) /\ Len(q) = Len(exchange.out) + Len(lines)
    BY <1>3, <1>4, <1>5, ConcatProperties
  <2>2. ASSUME exchange.server \in Http, NEW i \in DOMAIN q PROVE q[i].on = exchange.waits
    <3>1. \A k \in DOMAIN exchange.out : exchange.out[k].on = exchange.waits
      BY <1>2, <2>2 DEF ExchangeIsAsked
    <3>2. i \in 1..Len(q) /\ q[i] = IF i <= Len(exchange.out) THEN exchange.out[i]
                                                            ELSE lines[i - Len(exchange.out)]
      BY <1>3, <1>4, <1>5, <2>1, ConcatProperties
    <3>3. CASE i <= Len(exchange.out)
      BY <1>3, <3>1, <3>2, <3>3
    <3>4. CASE ~(i <= Len(exchange.out))
      <4>1. i - Len(exchange.out) \in 1..Len(lines)
        BY <1>3, <1>4, <2>1, <3>2, <3>4
      <4>. QED
        BY <1>4, <3>2, <3>4, <4>1
    <3>. QED
      BY <3>3, <3>4
  <2>. QED
    BY <2>1, <2>2
<1>7. exchange' = [exchange EXCEPT !.out = q]
  BY <1>1, <1>5
<1>8. /\ exchange' \in Exchanges /\ exchange'.server = exchange.server
      /\ exchange'.tool = exchange.tool /\ exchange'.name = exchange.name
      /\ exchange'.phase = exchange.phase /\ exchange'.waits = exchange.waits
      /\ exchange'.asked = exchange.asked /\ exchange'.out = q
  BY <1>3, <1>6, <1>7 DEF Exchanges
<1>9. ExchangeIsAsked(exchange')
  BY <1>2, <1>6, <1>8 DEF ExchangeIsAsked
<1>. QED
  BY <1>2, <1>9 DEF ClientInv, NamesStandForTools

\* The line that is taken for the reply has the id of the request, or was written on it.
LEMMA ReadLineStep == ASSUME ClientInv, Client!ReadLine PROVE ClientInv'
<1>0. /\ ~Client!Free /\ UNCHANGED registry /\ ExchangeIsAsked(exchange) /\ exchange.out # <<>>
      /\ exchange.phase # "answered" /\ ids \in Nat \ {0}
  BY DEF Client!ReadLine, ClientInv
<1>1. exchange \in Exchanges
  BY <1>0 DEF ExchangeIsAsked
<1>a. /\ exchange.out \in Seq(Lines) /\ exchange.phase \in {"initialize", "request"}
      /\ exchange.waits \in Nat \ {0} /\ exchange.asked \in Nat
  BY <1>0, <1>1 DEF Exchanges, Phases
<1>2. PICK rest, line : /\ rest = (IF exchange.server \in Http THEN <<>> ELSE Tail(exchange.out))
                        /\ line = Head(exchange.out)
  OBVIOUS
<1>b. /\ rest \in Seq(Lines) /\ line \in Lines
      /\ exchange.server \in Http => DOMAIN rest = {} /\ line.on = exchange.waits
  <2>1. Tail(exchange.out) \in Seq(Lines) /\ line \in Lines /\ line = exchange.out[1]
        /\ 1 \in DOMAIN exchange.out
    BY <1>0, <1>2, <1>a, HeadTailProperties, EmptySeq
  <2>2. exchange.server \in Http => line.on = exchange.waits
    BY <1>0, <2>1 DEF ExchangeIsAsked
  <2>. QED
    BY <1>2, <2>1, <2>2, EmptySeq
<1>3. CASE /\ exchange.server \notin Http
           /\ exchange' = [exchange EXCEPT !.out = rest] /\ UNCHANGED ids
  <2>1. /\ exchange' \in Exchanges /\ exchange'.server = exchange.server
        /\ exchange'.tool = exchange.tool /\ exchange'.name = exchange.name
        /\ exchange'.phase = exchange.phase /\ exchange'.waits = exchange.waits
        /\ exchange'.asked = exchange.asked /\ exchange'.out = rest
    BY <1>1, <1>3, <1>b DEF Exchanges
  <2>2. ExchangeIsAsked(exchange')
    BY <1>0, <1>3, <1>a, <2>1 DEF ExchangeIsAsked
  <2>. QED
    BY <1>0, <1>3, <2>2 DEF ClientInv, NamesStandForTools
<1>4. ASSUME NEW id \in Nat \ {0}, NEW session \in BOOLEAN, ids' \in {ids, ids + 1},
             exchange' = [exchange EXCEPT !.out = rest, !.phase = "request", !.waits = id,
                                          !.asked = id, !.session = session]
      PROVE  ClientInv'
  <2>1. /\ exchange' \in Exchanges /\ exchange'.server = exchange.server
        /\ exchange'.tool = exchange.tool /\ exchange'.name = exchange.name
        /\ exchange'.phase = "request" /\ exchange'.waits = id /\ exchange'.asked = id
        /\ exchange'.out = rest
    BY <1>1, <1>4, <1>b DEF Exchanges, Phases
  <2>2. ExchangeIsAsked(exchange')
    BY <1>0, <1>4, <1>b, <2>1 DEF ExchangeIsAsked
  <2>3. ids' \in Nat \ {0}
    BY <1>0, <1>4
  <2>. QED
    BY <1>0, <2>2, <2>3 DEF ClientInv, NamesStandForTools
<1>5. CASE /\ exchange.phase = "request" /\ UNCHANGED ids
           /\ exchange.server \notin Http => line.id = exchange.waits
           /\ exchange' = [exchange EXCEPT !.out = rest, !.phase = "answered", !.answer = line]
  <2>1. /\ exchange' \in Exchanges /\ exchange'.server = exchange.server
        /\ exchange'.tool = exchange.tool /\ exchange'.name = exchange.name
        /\ exchange'.phase = "answered" /\ exchange'.answer = line
        /\ exchange'.asked = exchange.asked /\ exchange'.out = rest
    BY <1>1, <1>5, <1>b DEF Exchanges, Phases
  <2>2. exchange.waits = exchange.asked
    BY <1>0, <1>5 DEF ExchangeIsAsked
  <2>3. ExchangeIsAsked(exchange')
    BY <1>0, <1>5, <1>b, <2>1, <2>2 DEF ExchangeIsAsked
  <2>. QED
    BY <1>0, <1>5, <2>3 DEF ClientInv, NamesStandForTools
<1>c. Client!Answers(line) <=> exchange.server \in Http \/ line.id = exchange.waits
  BY DEF Client!Answers
<1>6. CASE ~Client!Answers(line)
  <2>1. exchange' = [exchange EXCEPT !.out = rest] /\ UNCHANGED ids
    BY <1>2, <1>6 DEF Client!ReadLine
  <2>. QED
    BY <1>3, <1>6, <1>c, <2>1
<1>7. CASE Client!Answers(line) /\ exchange.phase = "request"
  <2>1. /\ exchange' = [[exchange EXCEPT !.out = rest] EXCEPT !.phase = "answered", !.answer = line]
        /\ UNCHANGED ids
    BY <1>2, <1>7 DEF Client!ReadLine
  <2>2. exchange' = [exchange EXCEPT !.out = rest, !.phase = "answered", !.answer = line]
    BY <2>1
  <2>. QED
    BY <1>5, <1>7, <1>c, <2>2, <2>1
<1>8. CASE Client!Answers(line) /\ exchange.phase = "initialize"
  <2>1. PICK id, session : /\ id = (IF exchange.server \in Http THEN ids ELSE exchange.asked)
                           /\ session = (exchange.server \in Http)
    OBVIOUS
  <2>2. /\ exchange' = [[exchange EXCEPT !.out = rest] EXCEPT !.phase = "request", !.waits = id,
                            !.asked = id, !.session = session]
        /\ ids' = IF exchange.server \in Http THEN ids + 1 ELSE ids
    <3>1. /\ ids' = IF exchange.server \in Http THEN ids + 1 ELSE ids
          /\ LET i == IF exchange.server \in Http THEN ids ELSE exchange.asked IN
             exchange' = [[exchange EXCEPT !.out = rest] EXCEPT !.phase = "request", !.waits = i,
                              !.asked = i, !.session = exchange.server \in Http]
      BY <1>2, <1>8 DEF Client!ReadLine
    <3>. QED
      BY <2>1, <3>1, Zenon
  <2>3. exchange' = [exchange EXCEPT !.out = rest, !.phase = "request", !.waits = id,
                                     !.asked = id, !.session = session]
    BY <2>2
  <2>4. id \in Nat \ {0}
    BY <1>0, <1>a, <2>1 DEF ExchangeIsAsked
  <2>5. session \in BOOLEAN
    <3>1. session = (exchange.server \in Http)
      BY <2>1
    <3>. QED
      BY <3>1, SMT
  <2>. QED
    BY <1>4, <2>2, <2>3, <2>4, <2>5
<1>. QED
  BY <1>6, <1>7, <1>8, <1>a

LEMMA EndExchangeStep == ASSUME ClientInv, Client!EndExchange PROVE ClientInv'
<1>. QED
  BY DEF Client!EndExchange, ClientInv, Client!Free, NamesStandForTools

LEMMA ClientKeepsInv == ASSUME ClientInv, [Client!Next]_(Client!vars) PROVE ClientInv'
<1>1. CASE UNCHANGED Client!vars
  BY <1>1 DEF Client!vars, ClientInv, Client!Free, NamesStandForTools
<1>. QED
  BY <1>1, DiscoverStep, CommandStep, BeginCallStep, ServerWritesStep, ReadLineStep,
     EndExchangeStep DEF Client!Next

LEMMA AnswersFollow == ASSUME ClientInv PROVE Client!AnswersAreToTheCall
<1>. QED
  BY DEF ClientInv, ExchangeIsAsked, Client!AnswersAreToTheCall

-----------------------------------------------------------------------------
(* Logins: a token that is about to be saved is its program's alone.       *)

Tokens == 0..issued
LoginPlaces == {"none", "waiting", "exchanging", "polling", "loaded", "limited", "saving",
                "writing", "ready", "failed"}

\* The token of a program that saves has been refreshed by nobody, is not the one in
\* auth.json or Codex's, and nobody else holds it.
OwnToken(p) ==
  /\ held[p] > 1 /\ held[p] \notin spent
  /\ file # Login!Torn => file # held[p]
  /\ \A q \in Login!Programs : q # p => held[q] # held[p]

LoginInv ==
  /\ issued \in Nat \ {0} /\ spent \subseteq Tokens /\ codex \in {0, 1}
  /\ file # Login!Torn => file \in Tokens
  /\ held \in [Login!Programs -> Tokens]
  /\ at \in [Login!Programs -> LoginPlaces]
  /\ \A p \in Login!Programs : at[p] \in {"saving", "writing"} => OwnToken(p)

LEMMA LoginBegins == ASSUME Login!Init PROVE LoginInv
<1>1. /\ issued = 1 /\ spent = {} /\ file = 0 /\ codex \in {0, 1}
      /\ at = [p \in Login!Programs |-> "none"] /\ held = [p \in Login!Programs |-> 0]
  BY DEF Login!Init, Login!None
<1>. QED
  BY <1>1 DEF LoginInv, Tokens, LoginPlaces

\* A token that was issued just now is known to nobody else.
LEMMA TokenIsNew ==
  ASSUME LoginInv, NEW p \in Login!Programs, Login!NewToken(p), UNCHANGED <<file, codex>>,
         spent' = spent \/ spent' = spent \cup {held[p]},
         at' = [at EXCEPT ![p] = "saving"],
         \A q \in Login!Programs : at[q] \in {"saving", "writing"} /\ q # p => held[q] # held[p]
  PROVE  LoginInv'
<1>1. /\ issued' = issued + 1 /\ held' = [held EXCEPT ![p] = issued + 1]
      /\ issued \in Nat \ {0} /\ held \in [Login!Programs -> Tokens] /\ spent \subseteq Tokens
      /\ codex \in {0, 1} /\ (file # Login!Torn => file \in Tokens)
      /\ at \in [Login!Programs -> LoginPlaces]
      /\ \A q \in Login!Programs : at[q] \in {"saving", "writing"} => OwnToken(q)
  BY DEF LoginInv, Login!NewToken
<1>2. /\ held'[p] = issued + 1 /\ \A q \in Login!Programs : q # p => held'[q] = held[q]
      /\ at'[p] = "saving" /\ \A q \in Login!Programs : q # p => at'[q] = at[q]
      /\ \A q \in Login!Programs : held[q] \in Nat /\ held[q] <= issued
      /\ \A t \in spent : t \in Nat /\ t <= issued
  BY <1>1 DEF Tokens
<1>3. Tokens' = 0..(issued + 1) /\ Tokens \subseteq Tokens' /\ issued + 1 \in Tokens'
  BY <1>1 DEF Tokens
<1>4. spent' \subseteq Tokens' /\ held' \in [Login!Programs -> Tokens']
      /\ at' \in [Login!Programs -> LoginPlaces]
  BY <1>1, <1>3 DEF LoginPlaces
<1>5. OwnToken(p)'
  <2>1. issued + 1 > 1 /\ issued + 1 \notin spent'
    BY <1>1, <1>2
  <2>2. file # Login!Torn => file # issued + 1
    BY <1>1 DEF Tokens
  <2>3. \A q \in Login!Programs : q # p => held'[q] # issued + 1
    BY <1>1, <1>2
  <2>. QED
    BY <1>2, <2>1, <2>2, <2>3 DEF OwnToken
<1>6. ASSUME NEW q \in Login!Programs, at'[q] \in {"saving", "writing"}, q # p PROVE OwnToken(q)'
  <2>1. OwnToken(q) /\ held'[q] = held[q] /\ held[q] # held[p] /\ held[q] # issued + 1
    BY <1>1, <1>2, <1>6
  <2>2. held'[q] > 1 /\ held'[q] \notin spent' /\ (file' # Login!Torn => file' # held'[q])
    BY <2>1 DEF OwnToken
  <2>3. \A r \in Login!Programs : r # q => held'[r] # held'[q]
    BY <1>2, <2>1 DEF OwnToken
  <2>. QED
    BY <2>2, <2>3 DEF OwnToken
<1>7. issued' \in Nat \ {0} /\ codex' \in {0, 1} /\ (file' # Login!Torn => file' \in Tokens')
  <2>1. file' = file /\ codex' = codex
    OBVIOUS
  <2>2. file # Login!Torn => file \in Tokens'
    BY <1>1, <1>3
  <2>3. issued' \in Nat \ {0} /\ codex' \in {0, 1}
    BY <1>1, <2>1
  <2>. QED
    BY <2>1, <2>2, <2>3
<1>8. \A q \in Login!Programs : at'[q] \in {"saving", "writing"} => OwnToken(q)'
  BY <1>5, <1>6
<1>. QED
  BY <1>4, <1>7, <1>8 DEF LoginInv

\* Who does not get a token does not disturb anyone's.
LEMMA TokensStay ==
  ASSUME LoginInv, UNCHANGED <<issued, spent, codex, file, held>>,
         at' \in [Login!Programs -> LoginPlaces],
         \A p \in Login!Programs : at'[p] \in {"saving", "writing"} => at[p] \in {"saving", "writing"}
  PROVE  LoginInv'
  BY DEF LoginInv, OwnToken, Tokens

LEMMA LoginStep ==
  ASSUME LoginInv, NEW l \in Logins,
         \/ Login!BeginLogin(l) \/ Login!Approve(l) \/ Login!BeginDeviceLogin(l)
         \/ Login!GiveUp(l) \/ Login!Exchange(l) \/ \E r \in redirects : Login!Callback(l, r)
  PROVE  LoginInv'
<1>1. l \in Login!Programs /\ at \in [Login!Programs -> LoginPlaces]
  BY DEF Login!Programs, LoginInv
<1>2. CASE Login!Exchange(l)
  <2>1. /\ at[l] \notin {"saving", "writing"} /\ Login!NewToken(l)
        /\ at' = [at EXCEPT ![l] = "saving"] /\ UNCHANGED <<spent, file, codex>>
    BY <1>2 DEF Login!Exchange
  <2>2. \A q \in Login!Programs : at[q] \in {"saving", "writing"} /\ q # l => held[q] # held[l]
    BY <1>1 DEF LoginInv, OwnToken
  <2>. QED
    BY <1>1, <2>1, <2>2, TokenIsNew
<1>3. CASE \/ Login!BeginLogin(l) \/ Login!Approve(l) \/ Login!BeginDeviceLogin(l)
           \/ Login!GiveUp(l) \/ \E r \in redirects : Login!Callback(l, r)
  <2>1. /\ UNCHANGED <<issued, spent, codex, file, held>>
        /\ \/ UNCHANGED at
           \/ \E place \in {"waiting", "exchanging", "polling", "failed"} :
                  at' = [at EXCEPT ![l] = place]
    BY <1>3 DEF Login!BeginLogin, Login!Approve, Login!BeginDeviceLogin, Login!GiveUp,
                Login!Callback, Login!tokenVars
  <2>2. /\ at' \in [Login!Programs -> LoginPlaces]
        /\ \A p \in Login!Programs : at'[p] \in {"saving", "writing"} => at[p] \in {"saving", "writing"}
    BY <1>1, <2>1 DEF LoginPlaces
  <2>. QED
    BY <2>1, <2>2, TokensStay
<1>. QED
  BY <1>2, <1>3

LEMMA SaveStep ==
  ASSUME LoginInv, NEW p \in Login!Programs,
         Login!OpenForSave(p) \/ Login!WriteSaved(p) \/ Login!Die(p)
  PROVE  LoginInv' /\ Login!SavesUnspent
<1>1. at \in [Login!Programs -> LoginPlaces]
      /\ \A q \in Login!Programs : at[q] \in {"saving", "writing"} => OwnToken(q)
      /\ held \in [Login!Programs -> Tokens]
  BY DEF LoginInv
<1>2. CASE Login!OpenForSave(p)
  <2>1. /\ at[p] = "saving" /\ at' = [at EXCEPT ![p] = "writing"] /\ file' = Login!Torn
        /\ UNCHANGED <<issued, spent, codex, held>>
    BY <1>2 DEF Login!OpenForSave
  <2>2. /\ at' \in [Login!Programs -> LoginPlaces]
        /\ \A q \in Login!Programs : at'[q] \in {"saving", "writing"} => at[q] \in {"saving", "writing"}
    BY <1>1, <2>1 DEF LoginPlaces
  <2>. QED
    BY <2>1, <2>2 DEF LoginInv, OwnToken, Tokens, Login!SavesUnspent
<1>3. CASE Login!WriteSaved(p)
  <2>1. /\ at[p] = "writing" /\ at' = [at EXCEPT ![p] = "ready"] /\ file' = held[p]
        /\ UNCHANGED <<issued, spent, codex, held>>
    BY <1>3 DEF Login!WriteSaved
  <2>2. /\ at' \in [Login!Programs -> LoginPlaces]
        /\ \A q \in Login!Programs : at'[q] \in {"saving", "writing"} =>
              at[q] \in {"saving", "writing"} /\ q # p
    BY <1>1, <2>1 DEF LoginPlaces
  <2>3. OwnToken(p) /\ held[p] \in Tokens
    BY <1>1, <2>1
  <2>4. ASSUME NEW q \in Login!Programs, at'[q] \in {"saving", "writing"} PROVE OwnToken(q)'
    <3>1. OwnToken(q) /\ q # p
      BY <1>1, <2>2, <2>4
    <3>. QED
      BY <2>1, <3>1 DEF OwnToken
  <2>5. Login!SavesUnspent
    BY <2>1, <2>3 DEF Login!SavesUnspent, OwnToken
  <2>. QED
    BY <2>1, <2>2, <2>3, <2>4, <2>5 DEF LoginInv, Tokens
<1>4. CASE Login!Die(p)
  <2>1. UNCHANGED <<issued, spent, codex, file, held>> /\ at' = [at EXCEPT ![p] = "failed"]
    BY <1>4 DEF Login!Die, Login!tokenVars
  <2>2. /\ at' \in [Login!Programs -> LoginPlaces]
        /\ \A q \in Login!Programs : at'[q] \in {"saving", "writing"} => at[q] \in {"saving", "writing"}
    BY <1>1, <2>1 DEF LoginPlaces
  <2>. QED
    BY <2>1, <2>2, TokensStay DEF Login!SavesUnspent
<1>. QED
  BY <1>2, <1>3, <1>4

LEMMA RunnerStep ==
  ASSUME LoginInv, NEW p \in Runners,
         \/ Login!Load(p) \/ Login!ResolveLimits(p) \/ Login!FetchUsage(p) \/ Login!StartRunner(p)
  PROVE  LoginInv'
<1>1. /\ p \in Login!Programs /\ at \in [Login!Programs -> LoginPlaces]
      /\ held \in [Login!Programs -> Tokens] /\ issued \in Nat \ {0} /\ codex \in {0, 1}
      /\ (file # Login!Torn => file \in Tokens)
      /\ \A q \in Login!Programs : at[q] \in {"saving", "writing"} => OwnToken(q)
  BY DEF Login!Programs, LoginInv
<1>2. CASE Login!Load(p)
  <2>. DEFINE found == IF file = Login!None THEN codex ELSE file
              taken == IF found = Login!Torn THEN Login!None ELSE found
  <2>1. /\ at[p] = "none" /\ UNCHANGED <<issued, spent, codex, file>>
        /\ at' = [at EXCEPT ![p] = IF found \in {Login!None, Login!Torn} THEN "failed" ELSE "loaded"]
        /\ held' = [held EXCEPT ![p] = taken]
    BY <1>2 DEF Login!Load
  <2>2. taken \in Tokens /\ (taken \in {0, 1} \/ (taken = file /\ file # Login!Torn))
    BY <1>1 DEF Login!None, Login!Torn, Tokens
  <2>. HIDE DEF taken
  <2>3. /\ at' \in [Login!Programs -> LoginPlaces] /\ held' \in [Login!Programs -> Tokens]
        /\ \A q \in Login!Programs : at'[q] \in {"saving", "writing"} =>
              at[q] \in {"saving", "writing"} /\ q # p
        /\ \A q \in Login!Programs : q # p => held'[q] = held[q]
        /\ held'[p] = taken
    BY <1>1, <2>1, <2>2 DEF LoginPlaces
  <2>4. ASSUME NEW q \in Login!Programs, at'[q] \in {"saving", "writing"} PROVE OwnToken(q)'
    <3>1. OwnToken(q) /\ q # p /\ held[q] \in Nat
      BY <1>1, <2>3, <2>4 DEF Tokens
    <3>2. taken # held[q]
      BY <2>2, <3>1 DEF OwnToken
    <3>. QED
      BY <2>1, <2>3, <3>1, <3>2 DEF OwnToken
  <2>. QED
    BY <2>1, <2>3, <2>4 DEF LoginInv, Tokens
<1>3. CASE Login!ResolveLimits(p) \/ Login!FetchUsage(p)
  <2>1. /\ UNCHANGED <<issued, spent, codex, file, held>>
        /\ \E place \in {"limited", "failed", "ready"} : at' = [at EXCEPT ![p] = place]
    BY <1>3 DEF Login!ResolveLimits, Login!FetchUsage, Login!tokenVars
  <2>2. /\ at' \in [Login!Programs -> LoginPlaces]
        /\ \A q \in Login!Programs : at'[q] \in {"saving", "writing"} => at[q] \in {"saving", "writing"}
    BY <1>1, <2>1 DEF LoginPlaces
  <2>. QED
    BY <2>1, <2>2, TokensStay
<1>4. CASE Login!StartRunner(p)
  <2>1. at[p] = "limited" /\ UNCHANGED <<codex, file>>
    BY <1>4 DEF Login!StartRunner
  <2>2. CASE /\ \E place \in {"ready", "failed"} : at' = [at EXCEPT ![p] = place]
             /\ UNCHANGED <<issued, spent, held>>
    <3>1. /\ at' \in [Login!Programs -> LoginPlaces]
          /\ \A q \in Login!Programs : at'[q] \in {"saving", "writing"} => at[q] \in {"saving", "writing"}
      BY <1>1, <2>2 DEF LoginPlaces
    <3>. QED
      BY <2>1, <2>2, <3>1, TokensStay
  <2>3. CASE at' = [at EXCEPT ![p] = "saving"] /\ Login!Refreshed(p)
    <3>1. Login!NewToken(p) /\ spent' = spent \cup {held[p]}
      BY <2>3 DEF Login!Refreshed
    <3>2. \A q \in Login!Programs : at[q] \in {"saving", "writing"} /\ q # p => held[q] # held[p]
      BY <1>1 DEF OwnToken
    <3>. QED
      BY <1>1, <2>1, <2>3, <3>1, <3>2, TokenIsNew
  <2>. QED
    BY <1>4, <2>2, <2>3 DEF Login!StartRunner
<1>. QED
  BY <1>2, <1>3, <1>4

LEMMA FileIsSavedOnly ==
  ASSUME \/ \E l \in Logins : \/ Login!BeginLogin(l) \/ Login!Approve(l) \/ Login!BeginDeviceLogin(l)
                               \/ Login!GiveUp(l) \/ Login!Exchange(l)
                               \/ \E r \in redirects : Login!Callback(l, r)
         \/ \E p \in Runners : \/ Login!Load(p) \/ Login!ResolveLimits(p) \/ Login!FetchUsage(p)
                               \/ Login!StartRunner(p)
         \/ Login!TimePasses
         \/ UNCHANGED Login!vars
  PROVE  UNCHANGED file
  BY DEF Login!BeginLogin, Login!Approve, Login!BeginDeviceLogin, Login!GiveUp, Login!Exchange,
         Login!Callback, Login!Load, Login!ResolveLimits, Login!FetchUsage, Login!StartRunner,
         Login!TimePasses, Login!vars, Login!tokenVars

LEMMA LoginKeepsInv ==
  ASSUME LoginInv, [Login!Next]_(Login!vars) PROVE LoginInv' /\ Login!SavesUnspent
<1>1. CASE UNCHANGED Login!vars \/ Login!TimePasses
  <2>1. UNCHANGED <<at, issued, spent, codex, file, held>>
    BY <1>1 DEF Login!vars, Login!TimePasses
  <2>2. at \in [Login!Programs -> LoginPlaces]
    BY DEF LoginInv
  <2>. QED
    BY <2>1, <2>2, TokensStay DEF Login!SavesUnspent
<1>2. ASSUME NEW l \in Logins,
             \/ Login!BeginLogin(l) \/ Login!Approve(l) \/ Login!BeginDeviceLogin(l)
             \/ Login!GiveUp(l) \/ Login!Exchange(l) \/ \E r \in redirects : Login!Callback(l, r)
      PROVE  LoginInv' /\ Login!SavesUnspent
  BY <1>2, LoginStep, FileIsSavedOnly DEF Login!SavesUnspent
<1>3. ASSUME NEW p \in Runners,
             \/ Login!Load(p) \/ Login!ResolveLimits(p) \/ Login!FetchUsage(p) \/ Login!StartRunner(p)
      PROVE  LoginInv' /\ Login!SavesUnspent
  BY <1>3, RunnerStep, FileIsSavedOnly DEF Login!SavesUnspent
<1>. QED
  BY <1>1, <1>2, <1>3, SaveStep DEF Login!Next

-----------------------------------------------------------------------------
(* Setup.                                                                  *)

\* What is to be copied is no skill of the user's, and before explorer.toml is written a
\* copy of the user's was made.
SetupInv ==
  /\ step \in 0..10
  /\ copies \subseteq {s \in Skills : repo[s] # "user"}
  /\ repo = [s \in Skills |-> repo[s]]
  /\ step = 10 /\ explorer = "user" => "user" \in backups

LEMMA SetupBegins == Setup!Init => SetupInv
<1>. QED
  BY DEF Setup!Init, SetupInv

\* The name of each step by its number.
LEMMA StepNumbers ==
  ASSUME step \in 0..10
  PROVE  /\ Setup!At("app_dir") => step = 1
         /\ Setup!At("login") => step = 2
         /\ Setup!At("plan") => step = 3
         /\ Setup!At("copy") => step = 4
         /\ Setup!At("cache") => step = 5
         /\ Setup!At("stage") => step = 6
         /\ Setup!At("get") => step = 7
         /\ Setup!At("add") => step = 8
         /\ Setup!At("backup") => step = 9
         /\ Setup!At("explorer") => step = 10
<1>. DEFINE Named(n) == Setup!Steps[n]
<1>1. /\ Named(1) = "app_dir" /\ Named(2) = "login" /\ Named(3) = "plan" /\ Named(4) = "copy"
      /\ Named(5) = "cache" /\ Named(6) = "stage" /\ Named(7) = "get" /\ Named(8) = "add"
      /\ Named(9) = "backup" /\ Named(10) = "explorer"
  BY DEF Setup!Steps
<1>2. \/ step = 0 \/ step = 1 \/ step = 2 \/ step = 3 \/ step = 4 \/ step = 5
      \/ step = 6 \/ step = 7 \/ step = 8 \/ step = 9 \/ step = 10
  OBVIOUS
<1>3. \A s : Setup!At(s) => step # 0 /\ Named(step) = s
  BY DEF Setup!At
<1>. HIDE DEF Named
<1>. QED
  BY <1>1, <1>2, <1>3

LEMMA ActionNumbers ==
  ASSUME SetupInv
  PROVE  /\ step \in 0..10
         /\ Setup!MakeAppDir => step = 1
         /\ Setup!LogIn => step = 2
         /\ Setup!PlanSkills => step = 3
         /\ Setup!CopySkill => step = 4
         /\ Setup!RefreshCache => step = 4 \/ step = 5
         /\ Setup!StageExecutable => step = 6
         /\ Setup!LookUpServer => step = 7
         /\ Setup!AddServer => step = 8
         /\ Setup!BackUpExplorer => step = 9
         /\ Setup!WriteExplorer => step = 10
<1>1. step \in 0..10
  BY DEF SetupInv
<1>. QED
  BY <1>1, StepNumbers, Zenon
  DEF Setup!MakeAppDir, Setup!LogIn, Setup!PlanSkills, Setup!CopySkill, Setup!RefreshCache,
      Setup!StageExecutable, Setup!LookUpServer, Setup!AddServer, Setup!BackUpExplorer,
      Setup!WriteExplorer

\* A step that changes none of what SetupInv is about but the number, which becomes the next
\* one or 0, before the last.
LEMMA StepsAhead ==
  ASSUME SetupInv, UNCHANGED <<repo, explorer, backups>>, copies' = copies \/ copies' = {},
         step' \in {0, step, step + 1}, step < 9 \/ step' # step + 1
  PROVE  SetupInv' /\ Setup!KeepsUsersFiles
<1>. QED
  BY DEF SetupInv, Setup!KeepsUsersFiles

LEMMA SkillsStep ==
  ASSUME SetupInv, Setup!PlanSkills \/ Setup!CopySkill
  PROVE  SetupInv' /\ Setup!KeepsUsersFiles
<1>1. CASE Setup!PlanSkills
  <2>1. /\ step = 3 /\ step' = 4 /\ UNCHANGED <<repo, explorer, backups>>
        /\ copies' \subseteq {s \in Skills : repo[s] = "none"}
    BY <1>1, ActionNumbers DEF Setup!PlanSkills, Setup!Go1, Setup!Go, Setup!Missing
  <2>. QED
    BY <2>1 DEF SetupInv, Setup!KeepsUsersFiles
<1>2. CASE Setup!CopySkill
  <2>1. PICK s \in copies :
            \/ repo' = [repo EXCEPT ![s] = "part"] /\ copies' = copies
            \/ repo' = [repo EXCEPT ![s] = "copied"] /\ copies' = copies \ {s}
    BY <1>2 DEF Setup!CopySkill
  <2>2. UNCHANGED <<step, explorer, backups>> /\ step = 4
    BY <1>2, ActionNumbers DEF Setup!CopySkill
  <2>3. s \in Skills /\ repo[s] # "user"
    BY <2>1 DEF SetupInv
  <2>4. /\ repo' = [t \in Skills |-> repo'[t]] /\ repo'[s] # "user"
        /\ \A t \in Skills \ {s} : repo'[t] = repo[t]
    BY <2>1, <2>3 DEF SetupInv
  <2>5. copies' \subseteq copies
    BY <2>1
  <2>. QED
    BY <2>2, <2>3, <2>4, <2>5 DEF SetupInv, Setup!KeepsUsersFiles
<1>. QED
  BY <1>1, <1>2

LEMMA ExplorerStep ==
  ASSUME SetupInv, Setup!BackUpExplorer \/ Setup!WriteExplorer
  PROVE  SetupInv' /\ Setup!KeepsUsersFiles
<1>1. CASE Setup!BackUpExplorer
  <2>1. /\ step = 9 /\ UNCHANGED <<repo, explorer, copies>>
        /\ \/ step' = 0
           \/ step' = 10 /\ (explorer = "user" => "user" \in backups')
    BY <1>1, ActionNumbers
    DEF Setup!BackUpExplorer, Setup!Go1, Setup!Go, Setup!CopyAside
  <2>. QED
    BY <2>1 DEF SetupInv, Setup!KeepsUsersFiles
<1>2. CASE Setup!WriteExplorer
  <2>1. /\ step = 10 /\ UNCHANGED <<repo, backups, copies>>
        /\ explorer' # "user" /\ step' \in {0, step}
    BY <1>2, ActionNumbers DEF Setup!WriteExplorer, Setup!Go
  <2>. QED
    BY <2>1 DEF SetupInv, Setup!KeepsUsersFiles
<1>. QED
  BY <1>1, <1>2

LEMMA SetupKeepsInv ==
  ASSUME SetupInv, [Setup!Next]_(Setup!vars) PROVE SetupInv' /\ Setup!KeepsUsersFiles
<1>0. /\ step \in 0..10
      /\ Setup!Go(0) => step' = 0
      /\ Setup!Go1 => step' = step + 1
  <2>1. step \in 0..10
    BY DEF SetupInv
  <2>. QED
    BY <2>1 DEF Setup!Go, Setup!Go1
<1>1. CASE UNCHANGED Setup!vars
  <2>1. UNCHANGED <<step, repo, explorer, backups, copies>>
    BY <1>1 DEF Setup!vars
  <2>. QED
    BY <1>0, <2>1, StepsAhead
<1>2. CASE Setup!Begin
  <2>1. step = 0 /\ step' = 1 /\ copies' = {} /\ UNCHANGED <<repo, explorer, backups>>
    BY <1>2 DEF Setup!Begin, Setup!Go
  <2>. QED
    BY <2>1, StepsAhead
<1>3. CASE Setup!MakeAppDir
  <2>1. step = 1 /\ step' = step + 1 /\ UNCHANGED <<repo, explorer, backups, copies>>
    BY <1>0, <1>3, ActionNumbers DEF Setup!MakeAppDir
  <2>. QED
    BY <2>1, StepsAhead
<1>4. CASE Setup!LogIn
  <2>1. step = 2 /\ step' = step + 1 /\ UNCHANGED <<repo, explorer, backups, copies>>
    BY <1>0, <1>4, ActionNumbers DEF Setup!LogIn
  <2>. QED
    BY <2>1, StepsAhead
<1>5. CASE Setup!RefreshCache
  <2>1. step \in {4, 5} /\ step' \in {0, step + 1} /\ UNCHANGED <<repo, explorer, backups, copies>>
    BY <1>0, <1>5, ActionNumbers DEF Setup!RefreshCache, Setup!Go
  <2>. QED
    BY <2>1, StepsAhead
<1>6. CASE Setup!StageExecutable
  <2>1. step = 6 /\ step' = step + 1 /\ UNCHANGED <<repo, explorer, backups, copies>>
    BY <1>0, <1>6, ActionNumbers DEF Setup!StageExecutable
  <2>. QED
    BY <2>1, StepsAhead
<1>7. CASE Setup!LookUpServer
  <2>1. step = 7 /\ step' \in {0, step + 1} /\ UNCHANGED <<repo, explorer, backups, copies>>
    BY <1>0, <1>7, ActionNumbers DEF Setup!LookUpServer
  <2>. QED
    BY <2>1, StepsAhead
<1>8. CASE Setup!AddServer
  <2>1. step = 8 /\ step' = step + 1 /\ UNCHANGED <<repo, explorer, backups, copies>>
    BY <1>0, <1>8, ActionNumbers DEF Setup!AddServer
  <2>. QED
    BY <2>1, StepsAhead
<1>9. CASE Setup!Fail
  <2>1. step' = 0 /\ UNCHANGED <<repo, explorer, backups, copies>>
    BY <1>0, <1>9 DEF Setup!Fail
  <2>. QED
    BY <1>0, <2>1, StepsAhead
<1>. QED
  BY <1>1, <1>2, <1>3, <1>4, <1>5, <1>6, <1>7, <1>8, <1>9, SkillsStep, ExplorerStep
  DEF Setup!Next

-----------------------------------------------------------------------------
(* The purge of traces.                                                    *)

Days == MaxDay \in Nat

Above(C, n) == {m \in C : m > n}
Members(s) == {s[i] : i \in 1..Len(s)}

PlanTyped == /\ day \in Nat /\ plan.candidates \subseteq Traces!Names /\ plan.older \in Nat
             /\ resolved \in Seq(Traces!Names)
             /\ \A n \in plan.candidates : n + plan.older < day

\* While runs are resolved, the newest of the candidates have been; then each candidate is
\* waiting to be removed or was removed.
PurgeInOrder ==
  /\ outcome \in {"none", "inspected", "refused", "resolving"} => removed = {}
  /\ outcome = "resolving" =>
       Members(resolved) = {n \in plan.candidates :
                            Cardinality(Above(plan.candidates, n)) < Len(resolved)}
  /\ outcome = "removing" => Members(resolved) \cup removed = plan.candidates
  /\ outcome = "purged" => removed = plan.candidates
  /\ removed \subseteq plan.candidates

TracesInv == PlanTyped /\ PurgeInOrder

-----------------------------------------------------------------------------
(* How many candidates are newer than one.                                 *)

LEMMA CandidatesCountedTheSame == \A S : Traces!Cardinality(S) = Cardinality(S)
  BY DEF Traces!Cardinality, Cardinality, Traces!IsFiniteSet, IsFiniteSet

LEMMA NamesFinite == ASSUME Days, NEW C \in SUBSET Traces!Names PROVE IsFiniteSet(C)
<1>1. IsFiniteSet(0..MaxDay)
  BY FS_Interval DEF Days
<1>. QED
  BY <1>1, FS_Subset DEF Traces!Names

\* The newest has none, and one that is older has more.
LEMMA OlderHasMoreAbove ==
  ASSUME Days, NEW C \in SUBSET Traces!Names, NEW n \in C, NEW m \in C, n < m
  PROVE  /\ Cardinality(Above(C, n)) \in Nat /\ Cardinality(Above(C, m)) \in Nat
         /\ Cardinality(Above(C, m)) < Cardinality(Above(C, n))
<1>1. n \in Nat /\ m \in Nat /\ C \subseteq Nat
  BY DEF Traces!Names, Days
<1>2. /\ Above(C, m) \subseteq Above(C, n)
      /\ m \in Above(C, n) /\ m \notin Above(C, m)
  <2>1. \A k \in C : k > m => k > n
    BY <1>1
  <2>2. m > n /\ ~(m > m)
    BY <1>1
  <2>. QED
    BY <2>1, <2>2 DEF Above
<1>3. IsFiniteSet(Above(C, n))
  BY NamesFinite DEF Above
<1>4. /\ IsFiniteSet(Above(C, m))
      /\ Cardinality(Above(C, m)) <= Cardinality(Above(C, n))
      /\ Cardinality(Above(C, m)) = Cardinality(Above(C, n)) => Above(C, m) = Above(C, n)
  BY <1>2, <1>3, FS_Subset
<1>5. Cardinality(Above(C, n)) \in Nat /\ Cardinality(Above(C, m)) \in Nat
  BY <1>3, <1>4, FS_CardinalityType
<1>. QED
  BY <1>2, <1>4, <1>5

\* Candidates with as many above them are one.
LEMMA RankIsOfOne ==
  ASSUME Days, NEW C \in SUBSET Traces!Names, NEW n \in C, NEW m \in C,
         Cardinality(Above(C, n)) = Cardinality(Above(C, m))
  PROVE  n = m
<1>1. n \in Nat /\ m \in Nat
  BY DEF Traces!Names, Days
<1>2. CASE n < m
  BY <1>2, OlderHasMoreAbove
<1>3. CASE m < n
  BY <1>3, OlderHasMoreAbove
<1>. QED
  BY <1>1, <1>2, <1>3

LEMMA RankIsBelowCount ==
  ASSUME Days, NEW C \in SUBSET Traces!Names, NEW n \in C
  PROVE  /\ Cardinality(Above(C, n)) \in Nat /\ Cardinality(C) \in Nat
         /\ Cardinality(Above(C, n)) < Cardinality(C)
<1>1. n \in Nat /\ C \subseteq Nat
  BY DEF Traces!Names, Days
<1>2. IsFiniteSet(C) /\ Above(C, n) \subseteq C /\ n \notin Above(C, n)
  BY <1>1, NamesFinite DEF Above
<1>3. /\ IsFiniteSet(Above(C, n))
      /\ Cardinality(Above(C, n)) <= Cardinality(C)
      /\ Cardinality(Above(C, n)) = Cardinality(C) => Above(C, n) = C
  BY <1>2, FS_Subset
<1>4. Cardinality(Above(C, n)) \in Nat /\ Cardinality(C) \in Nat
  BY <1>2, <1>3, FS_CardinalityType
<1>. QED
  BY <1>2, <1>3, <1>4

-----------------------------------------------------------------------------
(* Steps of it.                                                            *)

LEMMA TracesBegin == ASSUME Days, Traces!Init PROVE TracesInv
<1>. QED
  BY DEF Traces!Init, TracesInv, PlanTyped, PurgeInOrder, Traces!NoPlan

\* Steps of the others and listings leave the purge alone; days only pass.
LEMMA OthersKeepTraces ==
  ASSUME TracesInv,
         \/ Traces!NextDay \/ Traces!RunBegins \/ Traces!RunKilled \/ Traces!UserMoves
         \/ Traces!List \/ UNCHANGED Traces!vars
  PROVE  TracesInv'
<1>1. UNCHANGED <<plan, resolved, removed, outcome>> /\ day' \in {day, day + 1}
  BY DEF Traces!NextDay, Traces!RunBegins, Traces!RunKilled, Traces!UserMoves, Traces!List,
         Traces!tool, Traces!vars
<1>2. \A n \in plan.candidates : n + plan.older < day'
  <2>1. ASSUME NEW n \in plan.candidates PROVE n + plan.older < day'
    <3>1. n + plan.older < day /\ day \in Nat /\ plan.older \in Nat /\ n \in Nat
      BY DEF TracesInv, PlanTyped, Traces!Names
    <3>. QED
      BY <1>1, <3>1
  <2>. QED
    BY <2>1
<1>3. PlanTyped'
  BY <1>1, <1>2 DEF TracesInv, PlanTyped
<1>. QED
  BY <1>1, <1>3 DEF TracesInv, PurgeInOrder

LEMMA InspectKeepsTraces == ASSUME Days, TracesInv, Traces!Inspect PROVE TracesInv'
<1>1. PICK older \in 1..MaxDay, purge \in BOOLEAN, confirm \in BOOLEAN :
        /\ plan' = [candidates |-> Traces!Eligible(older), older |-> older]
        /\ outcome' = IF confirm /\ ~purge THEN "refused"
                      ELSE IF confirm THEN "resolving" ELSE "inspected"
  BY DEF Traces!Inspect
<1>2. resolved' = <<>> /\ removed' = {} /\ day' = day
  BY DEF Traces!Inspect
<1>3. /\ Traces!Eligible(older) \subseteq Traces!Names /\ older \in Nat
      /\ \A n \in Traces!Eligible(older) : n + older < day
  BY <1>1 DEF Traces!Eligible, Traces!TraceDirs, Days
<1>4. PlanTyped'
  BY <1>1, <1>2, <1>3 DEF TracesInv, PlanTyped
<1>5. Members(resolved') = {}
  BY <1>2 DEF Members
<1>6. \A n \in plan'.candidates : Cardinality(Above(plan'.candidates, n)) \in Nat
  BY <1>1, <1>3, RankIsBelowCount
<1>7. PurgeInOrder'
  <2>1. outcome' \in {"inspected", "refused", "resolving"}
    BY <1>1
  <2>2. {n \in plan'.candidates : Cardinality(Above(plan'.candidates, n)) < Len(resolved')} = {}
    BY <1>2, <1>6
  <2>3. removed' \subseteq plan'.candidates
    BY <1>2
  <2>. QED
    BY <1>2, <1>5, <2>1, <2>2, <2>3 DEF PurgeInOrder, Members
<1>. QED
  BY <1>4, <1>7 DEF TracesInv

LEMMA ResolveKeepsTraces == ASSUME Days, TracesInv, Traces!Resolve PROVE TracesInv'
<1>. DEFINE C == plan.candidates
            Rank(n) == Cardinality(Above(C, n))
<1>0. /\ outcome = "resolving" /\ UNCHANGED <<day, plan, removed>>
      /\ C \subseteq Traces!Names /\ resolved \in Seq(Traces!Names) /\ removed = {}
      /\ Members(resolved) = {n \in C : Rank(n) < Len(resolved)}
  BY DEF Traces!Resolve, TracesInv, PlanTyped, PurgeInOrder
<1>1. CASE Len(resolved) = Cardinality(C) /\ outcome' = "removing" /\ UNCHANGED resolved
  <2>1. \A n \in C : Rank(n) < Len(resolved)
    BY <1>0, <1>1, RankIsBelowCount
  <2>2. Members(resolved) = C
    BY <1>0, <2>1
  <2>3. PurgeInOrder'
    BY <1>0, <1>1, <2>2 DEF PurgeInOrder, Members
  <2>. QED
    BY <1>0, <1>1, <2>3 DEF TracesInv, PlanTyped
<1>2. ASSUME NEW n \in C, Rank(n) = Len(resolved),
             resolved' = resolved \o Traces!ResolvedRun(n),
             outcome' = IF Traces!ResolvedRun(n) = <<>> THEN Traces!Refusal ELSE outcome
      PROVE  TracesInv'
  <2>1. CASE Traces!ResolvedRun(n) = <<>>
    <3>1. resolved' = resolved /\ outcome' = "refused"
      BY <1>0, <1>2, <2>1 DEF Traces!Refusal
    <3>. QED
      BY <1>0, <3>1 DEF TracesInv, PlanTyped, PurgeInOrder
  <2>2. CASE Traces!ResolvedRun(n) # <<>>
    <3>1. Traces!ResolvedRun(n) = <<n>> /\ n \in Traces!Names
      BY <1>0, <2>2 DEF Traces!ResolvedRun
    <3>2. /\ resolved' \in Seq(Traces!Names) /\ Len(resolved') = Len(resolved) + 1
          /\ Len(resolved) \in Nat /\ resolved'[Len(resolved) + 1] = n
          /\ \A i \in 1..Len(resolved) : resolved'[i] = resolved[i]
      BY <1>0, <1>2, <3>1
    <3>3. Members(resolved') = Members(resolved) \cup {n}
      BY <3>2 DEF Members
    <3>4. \A m \in C : Rank(m) \in Nat /\ (Rank(m) = Len(resolved) => m = n)
      BY <1>0, <1>2, RankIsBelowCount, RankIsOfOne
    <3>. HIDE DEF Rank
    <3>5. Members(resolved') = {m \in C : Rank(m) < Len(resolved')}
      BY <1>0, <1>2, <3>2, <3>3, <3>4
    <3>. USE DEF Rank
    <3>6. outcome' = "resolving"
      BY <1>0, <1>2, <2>2
    <3>7. PurgeInOrder'
      BY <1>0, <3>5, <3>6 DEF PurgeInOrder, Members
    <3>8. PlanTyped'
      BY <1>0, <3>2 DEF TracesInv, PlanTyped
    <3>. QED
      BY <3>7, <3>8 DEF TracesInv
  <2>. QED
    BY <2>1, <2>2
<1>. QED
  BY <1>1, <1>2, CandidatesCountedTheSame DEF Traces!Resolve, Above

LEMMA RemoveKeepsTraces == ASSUME TracesInv, Traces!Remove PROVE TracesInv'
<1>0. /\ outcome = "removing" /\ UNCHANGED <<day, plan>>
      /\ resolved \in Seq(Traces!Names) /\ Members(resolved) \cup removed = plan.candidates
  BY DEF Traces!Remove, TracesInv, PlanTyped, PurgeInOrder
<1>1. CASE resolved = <<>> /\ outcome' = "purged" /\ UNCHANGED <<resolved, removed>>
  <2>1. Members(resolved) = {}
    BY <1>1 DEF Members
  <2>2. removed = plan.candidates
    BY <1>0, <2>1
  <2>. QED
    BY <1>0, <1>1, <2>2 DEF TracesInv, PlanTyped, PurgeInOrder
<1>2. CASE /\ resolved # <<>> /\ removed' = removed \cup {Head(resolved)}
           /\ resolved' = Tail(resolved) /\ UNCHANGED outcome
  <2>1. /\ resolved' \in Seq(Traces!Names) /\ Len(resolved) \in Nat \ {0}
        /\ Len(resolved') = Len(resolved) - 1 /\ Head(resolved) = resolved[1]
        /\ \A i \in 1..Len(resolved') : resolved'[i] = resolved[i + 1]
    BY <1>0, <1>2
  <2>2. Members(resolved') \cup removed' = Members(resolved) \cup removed
    <3>1. ASSUME NEW i \in 1..Len(resolved)
          PROVE  resolved[i] = Head(resolved) \/ resolved[i] \in Members(resolved')
      <4>1. CASE i = 1
        BY <2>1, <4>1
      <4>2. CASE i # 1
        <5>1. i - 1 \in 1..Len(resolved') /\ resolved'[i - 1] = resolved[i]
          BY <2>1, <4>2
        <5>. QED
          BY <5>1 DEF Members
      <4>. QED
        BY <4>1, <4>2
    <3>2. ASSUME NEW i \in 1..Len(resolved') PROVE resolved'[i] \in Members(resolved)
      <4>1. i + 1 \in 1..Len(resolved) /\ resolved'[i] = resolved[i + 1]
        BY <2>1
      <4>. QED
        BY <4>1 DEF Members
    <3>3. Head(resolved) \in Members(resolved)
      <4>1. 1 \in 1..Len(resolved)
        BY <2>1
      <4>. QED
        BY <2>1, <4>1 DEF Members
    <3>. QED
      BY <1>2, <3>1, <3>2, <3>3 DEF Members
  <2>3. Members(resolved)' = Members(resolved')
    BY DEF Members
  <2>4. PurgeInOrder'
    BY <1>0, <1>2, <2>2, <2>3 DEF PurgeInOrder
  <2>. QED
    BY <1>0, <2>1, <2>4 DEF TracesInv, PlanTyped
<1>3. CASE outcome' = "stopped" /\ UNCHANGED <<resolved, removed>>
  BY <1>0, <1>3 DEF TracesInv, PlanTyped, PurgeInOrder
<1>. QED
  BY <1>1, <1>2, <1>3 DEF Traces!Remove

LEMMA PurgeKeepsInv ==
  ASSUME Days, TracesInv, [Traces!Next]_(Traces!vars) PROVE TracesInv'
<1>. QED
  BY OthersKeepTraces, InspectKeepsTraces, ResolveKeepsTraces, RemoveKeepsTraces DEF Traces!Next

LEMMA PurgeFollows == ASSUME TracesInv PROVE Traces!PurgeKeepsTheRest
<1>. QED
  BY DEF TracesInv, PlanTyped, PurgeInOrder, Traces!PurgeKeepsTheRest

-----------------------------------------------------------------------------
(* The MCP server.                                                         *)

\* What has to be answered, the ids of what has not been read yet, and that each is used once.
Asks(l) == l.kind \in Server!Requests \cup {"call"}
Waiting(q) == {q[k].id : k \in {j \in 1..Len(q) : Asks(q[j])}}
Distinct(q) == \A j, k \in 1..Len(q) : Asks(q[j]) /\ Asks(q[k]) /\ q[j].id = q[k].id => j = k

\* A request that was not read has not been begun or answered; a call is answered once, by its
\* task, which has a token in the map from its start to its answer; and a call that runs when
\* its cancellation was read, or when stdin is at its end, has its token cancelled.
CallKept(i) ==
  /\ i \in Waiting(input) \/ i \notin sent => task[i] = "none" /\ answers[i] = 0
  /\ task[i] \in {"started", "exploring"} => answers[i] = 0
  /\ task[i] \in {"answered", "done"} => answers[i] = 1
  /\ i \in wanted => task[i] # "none"
  /\ server \in {"serving", "draining"} =>
       /\ task[i] # "aborted"
       /\ task[i] \in {"started", "exploring", "answered"} => i \in active
  /\ task[i] \in {"started", "exploring"} /\ (i \in wanted \/ server = "draining") => i \in token
  /\ server = "ended" => task[i] \in {"none", "done"}

QueueTyped == /\ input \in Seq(Server!Lines) /\ Distinct(input)
              /\ Waiting(input) \subseteq sent

TasksTyped == /\ task \in [Ids -> {"none", "started", "exploring", "answered", "done", "aborted"}]
              /\ answers \in [Ids -> Nat]
              /\ server \in {"serving", "draining", "ended", "failed"}

ServerInv == QueueTyped /\ TasksTyped /\ \A i \in Ids : CallKept(i)

LEMMA LineHasId ==
  ASSUME NEW l \in Server!Lines PROVE Asks(l) \/ l.kind = "cancel" => l.id \in Ids
<1>1. CASE l \in [kind : Server!Requests \cup {"call", "cancel"}, id : Ids]
  BY <1>1
<1>2. CASE l \in [kind : Server!Notes \cup {"garbage"}, id : {0}]
  <2>1. l.kind \in {"initialized", "blank", "garbage"}
    BY <1>2 DEF Server!Notes
  <2>. QED
    BY <2>1 DEF Asks, Server!Requests
<1>. QED
  BY <1>1, <1>2 DEF Server!Lines

LEMMA ReadingTheFirst ==
  ASSUME NEW L, NEW q \in Seq(L), q # <<>>, Distinct(q)
  PROVE  /\ Tail(q) \in Seq(L) /\ Head(q) \in L /\ Distinct(Tail(q))
         /\ Waiting(Tail(q)) \subseteq Waiting(q)
         /\ Asks(Head(q)) => Head(q).id \in Waiting(q) /\ Head(q).id \notin Waiting(Tail(q))
<1>. DEFINE r == Tail(q)
<1>1. /\ r \in Seq(L) /\ Len(q) \in Nat \ {0} /\ Len(r) = Len(q) - 1
      /\ Head(q) = q[1] /\ Head(q) \in L
      /\ \A j \in 1..Len(r) : r[j] = q[j + 1]
  OBVIOUS
<1>. HIDE DEF r
<1>2. \A j \in 1..Len(r) : j + 1 \in 1..Len(q) /\ j + 1 # 1 /\ j \in Int
  BY <1>1
<1>3. 1 \in 1..Len(q)
  BY <1>1
<1>4. Distinct(r)
  <2>1. ASSUME NEW j \in 1..Len(r), NEW k \in 1..Len(r), Asks(r[j]), Asks(r[k]),
               r[j].id = r[k].id
        PROVE  j = k
    <3>1. r[j] = q[j + 1] /\ r[k] = q[k + 1]
      BY <1>1
    <3>2. j + 1 = k + 1
      BY <1>2, <2>1, <3>1, Zenon DEF Distinct
    <3>. QED
      BY <1>2, <3>2
  <2>. QED
    BY <2>1 DEF Distinct
<1>5. Waiting(r) \subseteq Waiting(q)
  BY <1>1, <1>2, Zenon DEF Waiting
<1>6. ASSUME Asks(Head(q)) PROVE Head(q).id \in Waiting(q) /\ Head(q).id \notin Waiting(r)
  <2>1. Head(q).id \in Waiting(q)
    BY <1>1, <1>3, <1>6, Zenon DEF Waiting
  <2>2. ASSUME Head(q).id \in Waiting(r) PROVE FALSE
    <3>1. PICK j \in 1..Len(r) : Asks(r[j]) /\ r[j].id = Head(q).id
      BY <2>2, Zenon DEF Waiting
    <3>2. r[j] = q[j + 1] /\ j + 1 \in 1..Len(q) /\ j + 1 # 1
      BY <1>1, <1>2
    <3>. QED
      BY <1>1, <1>3, <1>6, <3>1, <3>2, Zenon DEF Distinct
  <2>. QED
    BY <2>1, <2>2
<1>. QED
  BY <1>1, <1>4, <1>5, <1>6 DEF r

LEMMA WritingOneMore ==
  ASSUME NEW L, NEW q \in Seq(L), NEW l \in L, Distinct(q), Asks(l) => l.id \notin Waiting(q)
  PROVE  /\ Append(q, l) \in Seq(L) /\ Distinct(Append(q, l))
         /\ \A i \in Waiting(Append(q, l)) : i \in Waiting(q) \/ (Asks(l) /\ i = l.id)
<1>. DEFINE r == Append(q, l)
            n == Len(q) + 1
<1>1. /\ r \in Seq(L) /\ n \in 1..Len(r) /\ r[n] = l
      /\ \A j \in 1..Len(r) : j = n \/ (j \in 1..Len(q) /\ r[j] = q[j])
  OBVIOUS
<1>. HIDE DEF r, n
<1>2. Distinct(r)
  <2>1. ASSUME NEW j \in 1..Len(r), NEW k \in 1..Len(r), Asks(r[j]), Asks(r[k]),
               r[j].id = r[k].id
        PROVE  j = k
    <3>1. CASE j = n /\ k # n
      <4>1. k \in 1..Len(q) /\ r[k] = q[k] /\ r[j] = l
        BY <1>1, <3>1
      <4>2. q[k].id \in Waiting(q)
        BY <2>1, <4>1, Zenon DEF Waiting
      <4>. QED
        BY <2>1, <4>1, <4>2, Zenon
    <3>2. CASE k = n /\ j # n
      <4>1. j \in 1..Len(q) /\ r[j] = q[j] /\ r[k] = l
        BY <1>1, <3>2
      <4>2. q[j].id \in Waiting(q)
        BY <2>1, <4>1, Zenon DEF Waiting
      <4>. QED
        BY <2>1, <4>1, <4>2, Zenon
    <3>3. CASE j # n /\ k # n
      <4>1. j \in 1..Len(q) /\ r[j] = q[j] /\ k \in 1..Len(q) /\ r[k] = q[k]
        BY <1>1, <3>3
      <4>. QED
        BY <2>1, <4>1, Zenon DEF Distinct
    <3>. QED
      BY <3>1, <3>2, <3>3
  <2>. QED
    BY <2>1 DEF Distinct
<1>3. ASSUME NEW i \in Waiting(r) PROVE i \in Waiting(q) \/ (Asks(l) /\ i = l.id)
  <2>1. PICK j \in 1..Len(r) : Asks(r[j]) /\ r[j].id = i
    BY Zenon DEF Waiting
  <2>2. CASE j = n
    BY <1>1, <2>1, <2>2, Zenon
  <2>3. CASE j # n
    <3>1. j \in 1..Len(q) /\ r[j] = q[j]
      BY <1>1, <2>3
    <3>2. q[j].id \in Waiting(q)
      BY <2>1, <3>1, Zenon DEF Waiting
    <3>3. q[j].id = i
      BY <2>1, <3>1
    <3>. QED
      BY <3>2, <3>3
  <2>. QED
    BY <2>2, <2>3
<1>. QED
  BY <1>1, <1>2, <1>3 DEF r

LEMMA ServerBegins == ASSUME Server!Init PROVE ServerInv
<1>1. input = <<>> /\ sent = {} /\ wanted = {} /\ server = "serving"
  BY DEF Server!Init
<1>2. Waiting(input) = {} /\ Distinct(input) /\ input \in Seq(Server!Lines)
  BY <1>1 DEF Waiting, Distinct
<1>3. /\ TasksTyped
      /\ \A i \in Ids : task[i] = "none" /\ answers[i] = 0
  BY <1>1 DEF Server!Init, TasksTyped
<1>. QED
  BY <1>1, <1>2, <1>3 DEF ServerInv, QueueTyped, CallKept

\* A step that leaves the queue and the tasks as they are.
LEMMA TasksStay ==
  ASSUME ServerInv, UNCHANGED <<input, sent, task, answers, active, wanted>>,
         \/ UNCHANGED <<server, token>>
         \/ server = "serving" /\ server' = "draining" /\ token' = token \cup active
         \/ server = "draining" /\ server' = "ended" /\ UNCHANGED token
            /\ \A i \in Ids : task[i] \in {"none", "done"}
  PROVE  ServerInv'
<1>1. QueueTyped' /\ TasksTyped'
  BY DEF ServerInv, QueueTyped, TasksTyped
<1>2. ASSUME NEW i \in Ids PROVE CallKept(i)'
  <2>1. CallKept(i)
    BY DEF ServerInv
  <2>. QED
    BY <2>1 DEF CallKept
<1>. QED
  BY <1>1, <1>2 DEF ServerInv

LEMMA ParentStep == ASSUME ServerInv, Server!ParentWrites PROVE ServerInv'
<1>1. PICK l \in Server!Lines :
          /\ Asks(l) => l.id \notin sent
          /\ input' = Append(input, l)
          /\ sent' = IF Asks(l) THEN sent \cup {l.id} ELSE sent
  BY Zenon DEF Server!ParentWrites, Asks
<1>2. UNCHANGED <<server, task, token, active, answers, wanted>>
  BY DEF Server!ParentWrites
<1>3. QueueTyped
  BY DEF ServerInv
<1>4. /\ input' \in Seq(Server!Lines) /\ Distinct(input')
      /\ \A i \in Waiting(input') : i \in Waiting(input) \/ (Asks(l) /\ i = l.id)
  BY <1>1, <1>3, WritingOneMore DEF QueueTyped
<1>5. QueueTyped' /\ TasksTyped'
  BY <1>1, <1>2, <1>3, <1>4 DEF QueueTyped, ServerInv, TasksTyped
<1>6. ASSUME NEW i \in Ids PROVE CallKept(i)'
  <2>1. CallKept(i)
    BY DEF ServerInv
  <2>2. i \in Waiting(input') \/ i \notin sent' => i \in Waiting(input) \/ i \notin sent
    BY <1>1, <1>4
  <2>. QED
    BY <1>2, <2>1, <2>2 DEF CallKept
<1>. QED
  BY <1>5, <1>6 DEF ServerInv

\* The tasks are aborted with the loop.
LEMMA FailStep ==
  ASSUME ServerInv, Server!Fail, server = "serving",
         UNCHANGED <<sent, answers, token, active, wanted>>,
         QueueTyped', Waiting(input') \subseteq Waiting(input)
  PROVE  ServerInv'
<1>1. /\ server' = "failed"
      /\ task' = [i \in Ids |-> IF i \in Server!Running THEN "aborted" ELSE task[i]]
  BY DEF Server!Fail
<1>2. ASSUME NEW i \in Ids PROVE task'[i] = IF task[i] \in {"started", "exploring"} THEN "aborted"
                                           ELSE task[i]
  BY <1>1 DEF Server!Running
<1>3. TasksTyped'
  BY <1>1 DEF ServerInv, TasksTyped
<1>4. ASSUME NEW i \in Ids PROVE CallKept(i)'
  <2>1. CallKept(i)
    BY DEF ServerInv
  <2>2. i \in Waiting(input') => i \in Waiting(input)
    OBVIOUS
  <2>. QED
    BY <1>1, <1>2, <2>1, <2>2 DEF CallKept
<1>. QED
  BY <1>3, <1>4 DEF ServerInv

LEMMA DispatchStep == ASSUME ServerInv, Server!Dispatch PROVE ServerInv'
<1>. DEFINE l == Head(input)
<1>0. server = "serving" /\ input # <<>> /\ input' = Tail(input) /\ sent' = sent
  BY DEF Server!Dispatch
<1>1. /\ QueueTyped /\ QueueTyped' /\ l \in Server!Lines /\ Waiting(input') \subseteq Waiting(input)
      /\ Asks(l) => l.id \in Waiting(input) /\ l.id \notin Waiting(input')
  BY <1>0, ReadingTheFirst DEF ServerInv, QueueTyped
<1>2. Asks(l) \/ l.kind = "cancel" => l.id \in Ids
  BY <1>1, LineHasId
<1>3. Asks(l) => l.id \in sent /\ task[l.id] = "none" /\ answers[l.id] = 0 /\ l.id \notin wanted
  BY <1>1, <1>2 DEF ServerInv, QueueTyped, CallKept
<1>4. /\ TasksTyped
      /\ \A i \in Ids : CallKept(i) /\ (i \in Waiting(input') => i \in Waiting(input))
  BY <1>1 DEF ServerInv
<1>5. \/ l.kind \in Server!Requests \cup {"garbage"} /\ Server!AnswerNow(l)
      \/ l.kind = "call" /\ Server!StartCall(l.id)
      \/ l.kind = "cancel" /\ Server!CancelCall(l.id)
      \/ l.kind \in Server!Notes /\ UNCHANGED <<server, task, token, active, answers, wanted>>
  BY Zenon DEF Server!Dispatch
<1>. HIDE DEF l
<1>6. ASSUME UNCHANGED <<server, task, token, active, answers, wanted>> PROVE ServerInv'
  <2>1. TasksTyped' /\ \A i \in Ids : CallKept(i)'
    BY <1>0, <1>4, <1>6 DEF TasksTyped, CallKept
  <2>. QED
    BY <1>1, <2>1 DEF ServerInv
<1>7. ASSUME Asks(l), answers' = [answers EXCEPT ![l.id] = @ + 1],
             UNCHANGED <<server, task, token, active, wanted>>
      PROVE  ServerInv'
  <2>1. TasksTyped'
    BY <1>2, <1>4, <1>7 DEF TasksTyped
  <2>2. ASSUME NEW i \in Ids PROVE CallKept(i)'
    <3>1. answers \in [Ids -> Nat]
      BY <1>4 DEF TasksTyped
    <3>2. CASE i = l.id
      BY <1>0, <1>1, <1>3, <1>7, <3>1, <3>2 DEF CallKept
    <3>3. CASE i # l.id
      BY <1>0, <1>4, <1>7, <3>1, <3>3 DEF CallKept
    <3>. QED
      BY <3>2, <3>3
  <2>. QED
    BY <1>1, <2>1, <2>2 DEF ServerInv
<1>8. CASE l.kind \in Server!Requests \cup {"garbage"} /\ Server!AnswerNow(l)
  <2>1. CASE Server!Fail /\ UNCHANGED <<answers, token, active, wanted>>
    BY <1>0, <1>1, <2>1, FailStep
  <2>2. CASE /\ answers' = IF l.kind = "garbage" THEN answers ELSE [answers EXCEPT ![l.id] = @ + 1]
             /\ UNCHANGED <<server, task, token, active, wanted>>
    BY <1>6, <1>7, <1>8, <2>2 DEF Asks
  <2>. QED
    BY <1>8, <2>1, <2>2 DEF Server!AnswerNow
<1>9. CASE l.kind = "call" /\ Server!StartCall(l.id)
  <2>1. /\ Asks(l) /\ active' = active \cup {l.id} /\ task' = [task EXCEPT ![l.id] = "started"]
        /\ UNCHANGED <<server, token, answers, wanted>>
    BY <1>9 DEF Asks, Server!StartCall, Server!Register
  <2>2. TasksTyped'
    BY <1>2, <1>4, <2>1 DEF TasksTyped
  <2>3. ASSUME NEW i \in Ids PROVE CallKept(i)'
    <3>1. i \in DOMAIN task
      BY <1>4 DEF TasksTyped
    <3>2. CASE i = l.id
      BY <1>0, <1>1, <1>3, <2>1, <3>1, <3>2 DEF CallKept
    <3>3. CASE i # l.id
      BY <1>0, <1>4, <2>1, <3>1, <3>3 DEF CallKept
    <3>. QED
      BY <3>2, <3>3
  <2>. QED
    BY <1>1, <2>2, <2>3 DEF ServerInv
<1>10. CASE l.kind = "cancel" /\ Server!CancelCall(l.id)
  <2>1. /\ token' = IF l.id \in active THEN token \cup {l.id} ELSE token
        /\ wanted' = IF l.id \in Server!Running THEN wanted \cup {l.id} ELSE wanted
        /\ UNCHANGED <<server, task, active, answers>>
    BY <1>10 DEF Server!CancelCall
  <2>2. TasksTyped'
    BY <1>4, <2>1 DEF TasksTyped
  <2>3. ASSUME NEW i \in Ids PROVE CallKept(i)'
    <3>1. CallKept(i) /\ (i \in Waiting(input') => i \in Waiting(input))
      BY <1>4
    <3>2. i \in wanted' => i \in wanted \/ (i = l.id /\ task[i] \in {"started", "exploring"})
      BY <2>1 DEF Server!Running
    <3>. QED
      BY <1>0, <2>1, <3>1, <3>2 DEF CallKept
  <2>. QED
    BY <1>1, <2>2, <2>3 DEF ServerInv
<1>. QED
  BY <1>5, <1>6, <1>8, <1>9, <1>10

\* The task of one call goes on.
LEMMA TaskStep ==
  ASSUME ServerInv, NEW i \in Ids, Server!Explore(i) \/ Server!Answer(i) \/ Server!Forget(i)
  PROVE  ServerInv'
<1>1. /\ UNCHANGED <<input, sent, server, token, wanted>>
      /\ \/ /\ task[i] = "started" /\ task' = [task EXCEPT ![i] = "exploring"]
            /\ UNCHANGED <<answers, active>>
         \/ /\ task[i] \in {"started", "exploring"} /\ task' = [task EXCEPT ![i] = "answered"]
            /\ answers' = [answers EXCEPT ![i] = @ + 1] /\ UNCHANGED active
         \/ /\ task[i] = "answered" /\ task' = [task EXCEPT ![i] = "done"]
            /\ active' = active \ {i} /\ UNCHANGED answers
  BY DEF Server!Explore, Server!Answer, Server!Forget, Server!Running
<1>0. server \in {"serving", "draining"}
  BY DEF Server!Explore, Server!Answer, Server!Forget, Server!Alive
<1>2. QueueTyped' /\ TasksTyped /\ TasksTyped'
  BY <1>1 DEF ServerInv, QueueTyped, TasksTyped
<1>3. ASSUME NEW k \in Ids, k # i PROVE CallKept(k)'
  <2>1. CallKept(k) /\ task'[k] = task[k] /\ answers'[k] = answers[k]
        /\ (k \in active' <=> k \in active)
    BY <1>1, <1>2, <1>3 DEF ServerInv, TasksTyped
  <2>. QED
    BY <1>1, <2>1 DEF CallKept
<1>4. CallKept(i)'
  <2>1. CallKept(i)
    BY DEF ServerInv
  <2>2. /\ answers[i] \in Nat
        /\ \/ task[i] = "started" /\ task'[i] = "exploring" /\ answers'[i] = answers[i]
              /\ UNCHANGED active
           \/ /\ task[i] \in {"started", "exploring"} /\ task'[i] = "answered"
              /\ answers'[i] = answers[i] + 1 /\ UNCHANGED active
           \/ task[i] = "answered" /\ task'[i] = "done" /\ answers'[i] = answers[i]
    BY <1>1, <1>2 DEF TasksTyped
  <2>. QED
    BY <1>0, <1>1, <2>1, <2>2 DEF CallKept
<1>. QED
  BY <1>2, <1>3, <1>4 DEF ServerInv

LEMMA ServerKeepsInv == ASSUME ServerInv, [Server!Next]_(Server!vars) PROVE ServerInv'
<1>1. CASE UNCHANGED Server!vars
  BY <1>1, TasksStay DEF Server!vars
<1>2. CASE Server!ParentCloses
  BY <1>2, TasksStay DEF Server!ParentCloses
<1>3. CASE Server!EndOfInput
  BY <1>3, TasksStay DEF Server!EndOfInput, Server!CancelAll
<1>4. CASE Server!InputFails
  BY <1>4, FailStep DEF Server!InputFails, ServerInv, QueueTyped
<1>5. CASE Server!Ended
  <2>1. /\ server = "draining" /\ server' = "ended"
        /\ UNCHANGED <<input, sent, token, active, answers, wanted>>
        /\ \A i \in Ids : task[i] \in {"none", "done", "aborted"}
        /\ task' = [i \in Ids |-> IF task[i] \in {"none", "done"} THEN task[i] ELSE "aborted"]
    BY <1>5 DEF Server!Ended, Server!Joined
  <2>2. \A i \in Ids : task[i] \in {"none", "done"}
    BY <2>1 DEF ServerInv, CallKept
  <2>3. task' = task
    BY <2>1, <2>2 DEF ServerInv, TasksTyped
  <2>. QED
    BY <2>1, <2>2, <2>3, TasksStay
<1>. QED
  BY <1>1, <1>2, <1>3, <1>4, <1>5, ParentStep, DispatchStep, TaskStep DEF Server!Next

LEMMA CallsFollow == ASSUME ServerInv PROVE Server!CancelledCallsAreToldAndAnswered
<1>1. \A i \in Ids : CallKept(i)
  BY DEF ServerInv
<1>. QED
  BY <1>1 DEF CallKept, Server!Running, Server!CancelledCallsAreToldAndAnswered

-----------------------------------------------------------------------------
(* The one-shot hosts.                                                     *)

\* What the request alone shows.
Wrong == Host!Input[host] \cup Host!Range(Host!Validation[host])

\* Nothing is written before the end; preparation begins with a request that is right in
\* itself and goes on while each step succeeds; and a run that goes on is that of a request
\* with nothing wrong, cancelled only after its deadline.
HostInv ==
  /\ host \in {"brief", "automation"} /\ bad \subseteq Host!Checks(host)
  /\ phase \in {"start", "preparing", "running", "cancelled", "exited"}
  /\ deadline \in BOOLEAN /\ cancelled \in BOOLEAN
  /\ phase # "exited" => out = <<>>
  /\ phase = "start" => done = {} /\ next = 1
  /\ phase \in {"start", "preparing"} => run = "none" /\ deadline = FALSE
  /\ phase # "cancelled" /\ phase # "exited" => cancelled = FALSE
  /\ phase = "cancelled" => cancelled = TRUE /\ deadline = TRUE
  /\ next \in Nat \ {0}
  /\ phase = "preparing" => /\ bad \cap Wrong = {}
                            /\ \A k \in 1..(next - 1) : Host!Preparation[host][k] \notin bad
  /\ phase \in {"running", "cancelled"} => bad = {} /\ run \in {"going", "ended"}
  /\ run = "ended" => answer \in Host!Answers
  /\ Host!ReportTellsTheRun

LEMMA HostBegins == ASSUME Host!Init PROVE HostInv
<1>1. /\ host \in {"brief", "automation"} /\ phase = "start" /\ next = 1 /\ done = {}
      /\ deadline = FALSE /\ cancelled = FALSE /\ run = "none" /\ out = <<>>
  BY DEF Host!Init
<1>2. bad \subseteq Host!Checks(host)
  BY Zenon DEF Host!Init
<1>3. Host!ReportTellsTheRun
  <2>1. phase # "exited" /\ "auth" \notin done
    BY <1>1
  <2>. QED
    BY <2>1, Zenon DEF Host!ReportTellsTheRun
<1>4. next \in Nat \ {0} /\ deadline \in BOOLEAN /\ cancelled \in BOOLEAN
  <2>1. next \in Nat \ {0}
    BY <1>1
  <2>2. deadline \in BOOLEAN /\ cancelled \in BOOLEAN
    BY <1>1, Zenon
  <2>. QED
    BY <2>1, <2>2
<1>5. /\ phase # "exited" /\ phase # "preparing" /\ phase # "cancelled" /\ phase # "running"
      /\ phase \in {"start", "preparing", "running", "cancelled", "exited"} /\ run # "ended"
  BY <1>1
<1>. QED
  BY <1>1, <1>2, <1>3, <1>4, <1>5, Zenon DEF HostInv

\* The one envelope.
LEMMA ReportIsOne ==
  ASSUME NEW status, out = <<>>, Host!Report(status)
  PROVE  /\ Len(out') = 1 /\ phase' = "exited"
         /\ Host!Last(out').status = status
         /\ Host!Last(out').id <=> (host = "brief" \/ bad \cap Host!Input[host] = {})
         /\ exit' = 0 <=> status = "completed"
<1>. DEFINE e == Host!Envelope(status)
<1>1. out' = Append(out, e) /\ phase' = "exited" /\ exit' = IF status = "completed" THEN 0 ELSE 1
  BY DEF Host!Report, Host!ExitCode
<1>2. /\ e.status = status
      /\ e.id <=> (host = "brief" \/ bad \cap Host!Input[host] = {})
  BY Zenon DEF Host!Envelope
<1>. HIDE DEF e
<1>3. out' = <<e>>
  BY <1>1
<1>4. Len(out') = 1 /\ Host!Last(out') = e
  BY <1>3 DEF Host!Last
<1>5. Host!Last(out').id <=> (host = "brief" \/ bad \cap Host!Input[host] = {})
  <2>1. ASSUME NEW x, x = e PROVE x.id <=> (host = "brief" \/ bad \cap Host!Input[host] = {})
    BY <1>2, <2>1, Zenon
  <2>. QED
    BY <1>4, <2>1
<1>6. Host!Last(out').status = status
  BY <1>2, <1>4
<1>. QED
  BY <1>1, <1>4, <1>5, <1>6

\* brief has no input to be read wrongly.
LEMMA BriefHasItsId ==
  ASSUME host = "brief" PROVE bad \cap Host!Input[host] = {}
<1>. QED
  BY DEF Host!Input

LEMMA PreparationIsList ==
  ASSUME host \in {"brief", "automation"}
  PROVE  /\ Len(Host!Preparation[host]) \in Nat
         /\ \A s \in Host!Range(Host!Preparation[host]) :
               \E k \in 1..Len(Host!Preparation[host]) : s = Host!Preparation[host][k]
<1>. DEFINE q == Host!Preparation[host]
<1>1. Len(q) \in Nat /\ DOMAIN q = 1..Len(q)
  <2>1. CASE host = "brief"
    <3>1. q = <<"workspace", "instructions", "auth">>
      BY <2>1 DEF Host!Preparation
    <3>2. Len(q) = 3 /\ DOMAIN q = 1..3
      BY <3>1
    <3>. QED
      BY <3>2
  <2>2. CASE host = "automation"
    <3>1. q = <<"workspace", "read_roots", "auth", "mcp">>
      BY <2>2 DEF Host!Preparation
    <3>2. Len(q) = 4 /\ DOMAIN q = 1..4
      BY <3>1
    <3>. QED
      BY <3>2
  <2>. QED
    BY <2>1, <2>2
<1>. HIDE DEF q
<1>2. ASSUME NEW s \in Host!Range(q) PROVE \E k \in 1..Len(q) : s = q[k]
  <2>1. PICK k \in DOMAIN q : s = q[k]
    BY Zenon DEF Host!Range
  <2>. QED
    BY <1>1, <2>1
<1>. QED
  BY <1>1, <1>2 DEF q

\* An envelope that tells of the run ends the program well.
LEMMA ReportKeepsInv ==
  ASSUME HostInv, NEW status, Host!Report(status), phase # "exited", UNCHANGED <<host, bad>>,
         run' # "going", run' = "ended" => answer' \in Host!Answers, next' \in Nat \ {0},
         deadline' \in BOOLEAN, cancelled' \in BOOLEAN,
         status = "completed" => answer' = "good" /\ bad = {},
         status = "limit" <=> cancelled' = TRUE,
         cancelled' = TRUE => deadline' = TRUE,
         "auth" \in done' => bad \cap Host!Range(Host!Validation[host]) = {}
  PROVE  HostInv'
<1>1. /\ Len(out') = 1 /\ phase' = "exited" /\ Host!Last(out').status = status
      /\ exit' = 0 <=> status = "completed"
  BY ReportIsOne DEF HostInv
<1>2. Host!Last(out').id <=> bad \cap Host!Input[host] = {}
  <2>1. Host!Last(out').id <=> (host = "brief" \/ bad \cap Host!Input[host] = {})
    BY ReportIsOne DEF HostInv
  <2>. QED
    BY <2>1, BriefHasItsId, Zenon
<1>3. Host!ReportTellsTheRun'
  <2>1. exit' = 0 <=> Host!Last(out').status = "completed"
    BY <1>1
  <2>2. exit' = 0 => answer' = "good" /\ bad' = {}
    BY <1>1
  <2>3. (Host!Last(out').status = "limit" <=> cancelled') /\ (cancelled' => deadline')
    BY <1>1
  <2>4. Host!Last(out').id <=> bad' \cap Host!Input[host'] = {}
    BY <1>2
  <2>5. "auth" \in done' => bad' \cap Host!Range(Host!Validation[host']) = {}
    OBVIOUS
  <2>. QED
    BY <1>1, <2>1, <2>2, <2>3, <2>4, <2>5, Zenon DEF Host!ReportTellsTheRun
<1>. QED
  BY <1>1, <1>3 DEF HostInv

LEMMA RefusalKeepsInv ==
  ASSUME HostInv, Host!Refuse, phase \in {"start", "preparing"},
         UNCHANGED <<host, bad, deadline, cancelled, run, answer>>, next' \in Nat \ {0},
         "auth" \in done' => bad \cap Host!Range(Host!Validation[host]) = {}
  PROVE  HostInv'
<1>. DEFINE status == Host!StatusOf("error")
<1>1. status \in {"error", "failed"} /\ Host!Report(status)
  BY DEF Host!StatusOf, Host!Refuse
<1>2. cancelled = FALSE /\ run = "none" /\ deadline = FALSE
  BY DEF HostInv
<1>. HIDE DEF status
<1>. QED
  BY <1>1, <1>2, ReportKeepsInv

LEMMA ValidateStep == ASSUME HostInv, Host!Validate PROVE HostInv'
<1>1. CASE Host!Refuse
  BY <1>1, RefusalKeepsInv DEF Host!Validate, HostInv
<1>2. CASE bad \cap Wrong = {} /\ phase' = "preparing" /\ UNCHANGED <<out, exit>>
  <2>1. /\ phase = "start" /\ done = {} /\ run = "none" /\ next = 1 /\ out = <<>>
        /\ UNCHANGED <<host, bad, next, done, deadline, cancelled, run, answer>>
    BY DEF Host!Validate, HostInv
  <2>2. Host!ReportTellsTheRun'
    BY <1>2, <2>1, Zenon DEF Host!ReportTellsTheRun
  <2>3. Wrong' = Wrong /\ next' \in Nat \ {0} /\ 1..(next' - 1) = {}
    BY <2>1 DEF Wrong
  <2>. QED
    BY <1>2, <2>1, <2>2, <2>3 DEF HostInv
<1>. QED
  BY <1>1, <1>2 DEF Host!Validate, Wrong

LEMMA PrepareStep == ASSUME HostInv, Host!Prepare PROVE HostInv'
<1>. DEFINE s == Host!Preparation[host][next]
<1>1. /\ phase = "preparing" /\ next' = next + 1 /\ next \in Nat \ {0}
      /\ bad \cap Wrong = {} /\ run = "none" /\ out = <<>>
      /\ UNCHANGED <<host, bad, deadline, cancelled, run, answer>>
  BY DEF Host!Prepare, HostInv
<1>2. next' \in Nat \ {0} /\ next' - 1 = next
  BY <1>1
<1>3. bad \cap Host!Range(Host!Validation[host]) = {}
  BY <1>1 DEF Wrong
<1>4. CASE Host!Refuse
  BY <1>1, <1>2, <1>3, <1>4, RefusalKeepsInv
<1>5. CASE s \notin bad /\ UNCHANGED <<phase, out, exit>>
  <2>1. Host!ReportTellsTheRun'
    BY <1>1, <1>3, <1>5, Zenon DEF Host!ReportTellsTheRun
  <2>2. ASSUME NEW k \in 1..next PROVE Host!Preparation[host][k] \notin bad
    <3>1. CASE k = next
      BY <1>5, <3>1
    <3>2. CASE k # next
      <4>1. k \in 1..(next - 1)
        BY <1>1, <3>2
      <4>. QED
        BY <1>1, <4>1 DEF HostInv
    <3>. QED
      BY <3>1, <3>2
  <2>3. Wrong' = Wrong
    BY <1>1 DEF Wrong
  <2>. QED
    BY <1>1, <1>2, <1>5, <2>1, <2>2, <2>3 DEF HostInv
<1>. QED
  BY <1>4, <1>5 DEF Host!Prepare

LEMMA StartRunStep == ASSUME HostInv, Host!StartRun PROVE HostInv'
<1>1. /\ phase = "preparing" /\ next > Len(Host!Preparation[host]) /\ phase' = "running"
      /\ run' = "going" /\ next \in Nat \ {0} /\ bad \cap Wrong = {}
      /\ host \in {"brief", "automation"} /\ bad \subseteq Host!Checks(host)
      /\ \A k \in 1..(next - 1) : Host!Preparation[host][k] \notin bad
      /\ UNCHANGED <<host, bad, next, done, deadline, cancelled, answer, out, exit>>
  BY DEF Host!StartRun, HostInv
<1>2. ASSUME NEW b \in bad PROVE FALSE
  <2>1. b \in Host!Range(Host!Preparation[host])
    BY <1>1 DEF Wrong, Host!Checks
  <2>2. PICK k \in 1..Len(Host!Preparation[host]) : b = Host!Preparation[host][k]
    BY <1>1, <2>1, PreparationIsList
  <2>3. k \in 1..(next - 1)
    BY <1>1, PreparationIsList
  <2>. QED
    BY <1>1, <2>2, <2>3
<1>3. bad = {}
  BY <1>2
<1>4. Host!ReportTellsTheRun'
  BY <1>1, <1>3, Zenon DEF Host!ReportTellsTheRun
<1>. QED
  BY <1>1, <1>3, <1>4 DEF HostInv

\* The run ends, the deadline passes, the run is cancelled.
LEMMA RunGoesOn ==
  ASSUME HostInv, Host!RunReturns \/ Host!DeadlinePasses \/ Host!TakeDeadline
  PROVE  HostInv'
<1>1. UNCHANGED <<host, bad, next, done, out, exit>>
  BY DEF Host!RunReturns, Host!DeadlinePasses, Host!TakeDeadline
<1>2. phase \in {"running", "cancelled"} /\ phase' \in {"running", "cancelled"}
  <2>1. CASE Host!RunReturns
    BY <2>1 DEF Host!RunReturns, HostInv, Host!ReportTellsTheRun
  <2>2. CASE Host!DeadlinePasses \/ Host!TakeDeadline
    BY <2>2 DEF Host!DeadlinePasses, Host!TakeDeadline
  <2>. QED
    BY <2>1, <2>2
<1>3. bad = {} /\ bad' = {}
  BY <1>1, <1>2 DEF HostInv
<1>4. Host!ReportTellsTheRun'
  BY <1>2, <1>3, Zenon DEF Host!ReportTellsTheRun
<1>5. CASE Host!RunReturns
  BY <1>1, <1>2, <1>3, <1>4, <1>5 DEF HostInv, Host!RunReturns
<1>6. CASE Host!DeadlinePasses
  BY <1>1, <1>2, <1>3, <1>4, <1>6 DEF HostInv, Host!DeadlinePasses
<1>7. CASE Host!TakeDeadline
  <2>1. deadline = TRUE
    BY <1>7 DEF Host!TakeDeadline, HostInv
  <2>. QED
    BY <1>1, <1>2, <1>3, <1>4, <1>7, <2>1 DEF HostInv, Host!TakeDeadline
<1>. QED
  BY <1>5, <1>6, <1>7

LEMMA TakeResultStep == ASSUME HostInv, Host!TakeResult PROVE HostInv'
<1>. DEFINE status == Host!StatusOf(answer)
<1>1. /\ phase = "running" /\ run = "ended" /\ bad = {} /\ cancelled = FALSE
      /\ answer \in Host!Answers /\ next \in Nat \ {0} /\ deadline \in BOOLEAN
  BY DEF Host!TakeResult, HostInv
<1>2. Host!Report(status) /\ UNCHANGED <<host, bad, next, done, deadline, cancelled, run, answer>>
  BY DEF Host!TakeResult
<1>3. status # "limit" /\ (status = "completed" => answer = "good")
  BY DEF Host!StatusOf, Host!ContractMet
<1>. HIDE DEF status
<1>. QED
  BY <1>1, <1>2, <1>3, ReportKeepsInv

LEMMA ReportLimitStep == ASSUME HostInv, Host!ReportLimit PROVE HostInv'
<1>1. /\ phase = "cancelled" /\ bad = {} /\ cancelled = TRUE /\ deadline = TRUE
      /\ next \in Nat \ {0} /\ run' \in {"ended", "dropped"}
      /\ run' = "ended" => answer' \in Host!Answers
  BY DEF Host!ReportLimit, HostInv
<1>2. /\ Host!Report("limit") /\ run' # "going"
      /\ UNCHANGED <<host, bad, next, done, deadline, cancelled, answer>>
  BY <1>1 DEF Host!ReportLimit, Host!LimitStatus
<1>. QED
  BY <1>1, <1>2, ReportKeepsInv

LEMMA HostKeepsInv == ASSUME HostInv, [Host!Next]_(Host!vars) PROVE HostInv'
<1>1. CASE UNCHANGED Host!vars
  BY <1>1 DEF Host!vars, HostInv, Wrong, Host!ReportTellsTheRun
<1>. QED
  BY <1>1, ValidateStep, PrepareStep, StartRunStep, RunGoesOn, TakeResultStep, ReportLimitStep
  DEF Host!Next

-----------------------------------------------------------------------------
(* The history of usage: the session files.                                *)

LEMMA Smallest == ASSUME NEW S \in SUBSET Nat, S # {} PROVE \E m \in S : \A k \in S : m <= k
<1>1. \E m \in S : \A k \in S : ~(<<k, m>> \in OpToRel(<, Nat))
  BY NatLessThanWellFounded, WFMin, Zenon
<1>2. \A m \in S, k \in S : <<k, m>> \notin OpToRel(<, Nat) => m <= k
  BY DEF OpToRel
<1>. QED
  BY <1>1, <1>2, Zenon

LEMMA NumbersFromZero ==
  ASSUME NEW S \in SUBSET Nat, 0 \in S, \A n \in S : n + 1 \in S PROVE S = Nat
<1>1. SUFFICES ASSUME S # Nat PROVE FALSE
  OBVIOUS
<1>2. PICK m \in Nat \ S : \A k \in Nat \ S : m <= k
  BY <1>1, Smallest
<1>3. m - 1 \in S
  BY <1>2
<1>. QED
  BY <1>2, <1>3

\* A file of a session begins like the session's first file, whose number is the session's id;
\* a fork has the number of a session made before it; turns are in the order in which they were
\* made.
Event == [turn : Nat \ {0}, kind : Usage!Kinds, day : Nat \ {0}]
Events == Seq(Event)
SessionFile == [id : Nat \ {0}, fork : Nat, events : Events, meta : BOOLEAN]

Begins(e, d) == Len(e) <= Len(d) /\ \A i \in 1..Len(e) : e[i] = d[i]
TurnsOf(e, d) == Len(e) <= Len(d) /\ \A i \in 1..Len(e) : e[i].turn = d[i].turn
Ascending(e, n) ==
  /\ \A i \in 1..Len(e) : e[i].turn <= n
  /\ \A i, j \in 1..Len(e) : i < j => e[i].turn < e[j].turn

FileOf(fs, f, n) ==
  /\ fs[f].id <= f
  /\ fs[fs[f].id].id = fs[f].id /\ fs[fs[f].id].fork = fs[f].fork
  /\ Begins(fs[f].events, fs[fs[f].id].events)
  /\ fs[f].fork # 0 => fs[f].fork < fs[f].id /\ fs[fs[f].fork].id = fs[f].fork
  /\ Ascending(fs[f].events, n)
  /\ ~fs[f].meta => fs[f].fork = 0 /\ \A g \in 1..Len(fs) : g # f => fs[g].id # fs[f].id

\* A turn that two files tell of was made behind the same turns.
Shared(fs, f, i, g, j) == fs[f].events[i].turn = fs[g].events[j].turn
SameBefore(fs) ==
  \A f, g \in 1..Len(fs) : \A i \in 1..Len(fs[f].events), j \in 1..Len(fs[g].events) :
    Shared(fs, f, i, g, j) => i = j /\ \A k \in 1..i : Shared(fs, f, k, g, k)

\* Every session has a first ancestor, and turns are shared by kin only.
Kin(fs, r) ==
  /\ \A f \in 1..Len(fs) : r[fs[f].id] = IF fs[f].fork = 0 THEN fs[f].id ELSE r[fs[f].fork]
  /\ \A f \in 1..Len(fs) : r[fs[f].id] = fs[f].id \/ \E g \in 1..Len(fs) : fs[g].fork = r[fs[f].id]
  /\ \A f, g \in 1..Len(fs) :
       ~fs[f].meta /\ fs[g].id # fs[f].id => r[fs[g].id] # fs[f].id
  /\ \A f, g \in 1..Len(fs) : \A i \in 1..Len(fs[f].events), j \in 1..Len(fs[g].events) :
       Shared(fs, f, i, g, j) => r[fs[f].id] = r[fs[g].id]

HistoryOf(fs, n) ==
  /\ fs \in Seq(SessionFile)
  /\ \A f \in 1..Len(fs) : FileOf(fs, f, n)
  /\ SameBefore(fs)
  /\ \E r \in [1..Len(fs) -> Nat] : Kin(fs, r)

UsageInv == /\ HistoryOf(files, turns) /\ Len(files) <= MaxHistory
            /\ turns \in Nat /\ today \in Nat \ {0}

LEMMA EventsAre ==
  ASSUME NEW e \in Events
  PROVE  Len(e) \in Nat /\ \A i \in 1..Len(e) : e[i] \in Event
<1>. QED
  BY DEF Events

LEMMA FilesAre ==
  ASSUME NEW fs \in Seq(SessionFile), NEW f \in 1..Len(fs)
  PROVE  /\ Len(fs) \in Nat /\ f \in Nat /\ fs[f] \in SessionFile
         /\ fs[f].id \in Nat \ {0} /\ fs[f].fork \in Nat /\ fs[f].meta \in BOOLEAN
         /\ fs[f].events \in Events /\ Len(fs[f].events) \in Nat
         /\ \A i \in 1..Len(fs[f].events) :
              /\ fs[f].events[i] \in Event
              /\ fs[f].events[i].turn \in Nat \ {0} /\ fs[f].events[i].kind \in Usage!Kinds
              /\ fs[f].events[i].day \in Nat \ {0}
<1>1. fs[f] \in SessionFile /\ Len(fs) \in Nat
  OBVIOUS
<1>2. /\ fs[f].id \in Nat \ {0} /\ fs[f].fork \in Nat /\ fs[f].meta \in BOOLEAN
      /\ fs[f].events \in Events
  BY <1>1 DEF SessionFile
<1>3. Len(fs[f].events) \in Nat /\ \A i \in 1..Len(fs[f].events) : fs[f].events[i] \in Event
  BY <1>2, EventsAre
<1>4. \A e \in Event : e.turn \in Nat \ {0} /\ e.kind \in Usage!Kinds /\ e.day \in Nat \ {0}
  BY DEF Event
<1>. QED
  BY <1>1, <1>2, <1>3, <1>4

LEMMA BeginsIsTransitive ==
  ASSUME NEW d, NEW e, NEW g, Len(d) \in Nat, Len(e) \in Nat, Len(g) \in Nat, Begins(d, e), Begins(e, g)
  PROVE  Begins(d, g)
<1>1. \A i \in 1..Len(d) : i \in 1..Len(e)
  BY DEF Begins
<1>. QED
  BY <1>1 DEF Begins

LEMMA NoFilesYet == HistoryOf(<<>>, 0)
<1>1. <<>> \in Seq(SessionFile) /\ Len(<<>>) = 0
  OBVIOUS
<1>2. \A f \in 1..Len(<<>>) : FALSE
  BY <1>1
<1>3. SameBefore(<<>>)
  BY <1>2 DEF SameBefore
<1>4. \E r \in [1..Len(<<>>) -> Nat] : Kin(<<>>, r)
  <2>. DEFINE r == [f \in 1..Len(<<>>) |-> 0]
  <2>1. r \in [1..Len(<<>>) -> Nat]
    OBVIOUS
  <2>2. Kin(<<>>, r)
    <3>. HIDE DEF r
    <3>. QED
      BY <1>2 DEF Kin
  <2>. QED
    BY <2>1, <2>2, Zenon
<1>. QED
  BY <1>1, <1>2, <1>3, <1>4 DEF HistoryOf

\* A new file: of a new session, of a fork of session f, or of the session of f again; it has
\* the first turns of f.
NewFile(fs, x, f) ==
  \/ x.id = Len(fs) + 1 /\ x.fork = 0 /\ x.events = <<>>
  \/ /\ f \in 1..Len(fs) /\ fs[f].meta /\ TurnsOf(x.events, fs[f].events)
     /\ \/ x.id = Len(fs) + 1 /\ x.fork = fs[f].id
        \/ x.id = fs[f].id /\ x.fork = fs[f].fork /\ Begins(x.events, fs[f].events)

LEMMA FileIsAdded ==
  ASSUME NEW fs, NEW n \in Nat, HistoryOf(fs, n), NEW x \in SessionFile, x.meta, NEW f, NewFile(fs, x, f)
  PROVE  HistoryOf(Append(fs, x), n)
<1>. DEFINE gs == Append(fs, x)
            L == Len(fs)
<1>0. /\ fs \in Seq(SessionFile) /\ L \in Nat
      /\ \A g \in 1..L : FileOf(fs, g, n)
      /\ SameBefore(fs)
  BY DEF HistoryOf
<1>1. /\ gs \in Seq(SessionFile) /\ Len(gs) = L + 1 /\ gs[L + 1] = x
      /\ \A g \in 1..L : gs[g] = fs[g]
      /\ 1..Len(gs) = 1..L \cup {L + 1}
  BY <1>0
<1>2. /\ x.id \in Nat \ {0} /\ x.fork \in Nat /\ x.events \in Events /\ Len(x.events) \in Nat
      /\ x.id <= L + 1
  <2>1. x.id \in Nat \ {0} /\ x.fork \in Nat /\ x.events \in Events /\ Len(x.events) \in Nat
    BY DEF SessionFile, Events
  <2>2. CASE x.id = L + 1
    BY <2>1, <2>2, <1>0
  <2>3. CASE f \in 1..L /\ x.id = fs[f].id
    <3>1. fs[f].id <= f
      BY <1>0, <2>3 DEF FileOf
    <3>. QED
      BY <3>1, <2>1, <2>3, <1>0
  <2>. QED
    BY <2>1, <2>2, <2>3 DEF NewFile
<1>3. \A g \in 1..L : /\ fs[g].id \in 1..L /\ fs[g].id \in Nat /\ fs[g].fork \in Nat
                      /\ fs[g].fork # 0 => fs[g].fork \in 1..L
                      /\ fs[g].events \in Events /\ Len(fs[g].events) \in Nat
  <2>1. ASSUME NEW g \in 1..L
        PROVE  /\ fs[g].id \in 1..L /\ fs[g].id \in Nat /\ fs[g].fork \in Nat
               /\ fs[g].fork # 0 => fs[g].fork \in 1..L
               /\ fs[g].events \in Events /\ Len(fs[g].events) \in Nat
    <3>1. fs[g].id <= g /\ (fs[g].fork # 0 => fs[g].fork < fs[g].id)
      BY <1>0, <2>1 DEF FileOf
    <3>2. fs[g].id \in Nat \ {0} /\ fs[g].fork \in Nat /\ fs[g].events \in Events /\ Len(fs[g].events) \in Nat
      BY <1>0, <2>1, FilesAre
    <3>. QED
      BY <3>1, <3>2, <1>0
  <2>. QED
    BY <2>1
<1>. HIDE DEF gs
<1>x. /\ x.id # L + 1 => f \in 1..L /\ x.id = fs[f].id /\ x.fork = fs[f].fork /\ Begins(x.events, fs[f].events)
      /\ x.events = <<>> \/ (f \in 1..L /\ TurnsOf(x.events, fs[f].events))
      /\ x.fork # 0 => f \in 1..L /\ (x.fork = fs[f].id \/ (x.id = fs[f].id /\ x.fork = fs[f].fork))
  BY DEF NewFile
<1>4. ASSUME NEW g \in 1..L PROVE FileOf(gs, g, n)
  <2>1. FileOf(fs, g, n) /\ fs[g].id \in 1..L /\ (fs[g].fork # 0 => fs[g].fork \in 1..L)
    BY <1>0, <1>3
  <2>2. gs[g] = fs[g] /\ gs[fs[g].id] = fs[fs[g].id]
        /\ (fs[g].fork # 0 => gs[fs[g].fork] = fs[fs[g].fork])
    BY <1>1, <2>1
  <2>3. ~fs[g].meta => x.id # fs[g].id
    <3>1. CASE x.id = L + 1
      BY <3>1, <2>1, <1>0
    <3>2. CASE f \in 1..L /\ x.id = fs[f].id /\ fs[f].meta
      BY <3>2, <2>1 DEF FileOf
    <3>. QED
      BY <3>1, <3>2 DEF NewFile
  <2>4. ~gs[g].meta => gs[g].fork = 0 /\ \A h \in 1..Len(gs) : h # g => gs[h].id # gs[g].id
    BY <2>1, <2>2, <2>3, <1>1 DEF FileOf
  <2>. QED
    BY <2>1, <2>2, <2>4 DEF FileOf
<1>5. FileOf(gs, L + 1, n)
  <2>1. Ascending(x.events, n)
    <3>1. CASE x.events = <<>>
      <4>1. Len(x.events) = 0
        BY <3>1
      <4>. QED
        BY <4>1 DEF Ascending
    <3>2. CASE f \in 1..L /\ TurnsOf(x.events, fs[f].events)
      <4>1. Ascending(fs[f].events, n) /\ Len(fs[f].events) \in Nat
        BY <1>0, <1>3, <3>2 DEF FileOf
      <4>2. \A i \in 1..Len(x.events) : i \in 1..Len(fs[f].events) /\ x.events[i].turn = fs[f].events[i].turn
        BY <4>1, <3>2, <1>2 DEF TurnsOf
      <4>. QED
        BY <4>1, <4>2 DEF Ascending
    <3>. QED
      BY <3>1, <3>2, <1>x
  <2>2. CASE x.id = L + 1
    <3>1. gs[x.id] = x
      BY <2>2, <1>1
    <3>2. Begins(x.events, x.events)
      BY <1>2 DEF Begins
    <3>3. x.fork # 0 => x.fork < x.id /\ gs[x.fork].id = x.fork
      <4>1. ASSUME x.fork # 0 PROVE f \in 1..L /\ x.fork = fs[f].id
        <5>1. x.id # fs[f].id \/ ~(f \in 1..L)
          BY <2>2, <1>3, <1>0
        <5>. QED
          BY <5>1, <4>1, <1>x
      <4>2. x.fork # 0 => fs[f].id \in 1..L /\ fs[fs[f].id].id = fs[f].id
        BY <4>1, <1>0, <1>3 DEF FileOf
      <4>. QED
        BY <4>1, <4>2, <2>2, <1>0, <1>1
    <3>. QED
      BY <2>1, <2>2, <3>1, <3>2, <3>3, <1>1, <1>0 DEF FileOf
  <2>3. CASE x.id # L + 1
    <3>1. f \in 1..L /\ x.id = fs[f].id /\ x.fork = fs[f].fork /\ Begins(x.events, fs[f].events)
      BY <2>3, <1>x
    <3>2. FileOf(fs, f, n) /\ fs[f].id \in 1..L /\ (fs[f].fork # 0 => fs[f].fork \in 1..L)
          /\ Len(fs[f].events) \in Nat
      BY <3>1, <1>0, <1>3
    <3>3. gs[x.id] = fs[fs[f].id] /\ (x.fork # 0 => gs[x.fork] = fs[fs[f].fork])
      BY <3>1, <3>2, <1>1
    <3>4. Begins(x.events, fs[fs[f].id].events)
      <4>1. Begins(fs[f].events, fs[fs[f].id].events) /\ Len(fs[fs[f].id].events) \in Nat
        BY <3>2, <1>3 DEF FileOf
      <4>. QED
        BY <4>1, <3>1, <3>2, <1>2, BeginsIsTransitive
    <3>. QED
      BY <2>1, <3>1, <3>2, <3>3, <3>4, <1>1, <1>2, <1>0 DEF FileOf
  <2>. QED
    BY <2>2, <2>3
<1>6. ASSUME NEW g \in 1..L, NEW h \in 1..L, NEW i \in 1..Len(fs[g].events), NEW j \in 1..Len(fs[h].events),
             Shared(fs, g, i, h, j)
      PROVE  i = j /\ \A k \in 1..i : Shared(fs, g, k, h, k)
  BY <1>0, <1>6, Zenon DEF SameBefore
<1>7. \A i \in 1..Len(x.events) : f \in 1..L /\ i \in 1..Len(fs[f].events)
                                  /\ x.events[i].turn = fs[f].events[i].turn
  <2>1. CASE x.events = <<>>
    <3>1. Len(x.events) = 0
      BY <2>1
    <3>. QED
      BY <3>1
  <2>2. CASE f \in 1..L /\ TurnsOf(x.events, fs[f].events)
    BY <2>2, <1>2, <1>3 DEF TurnsOf
  <2>. QED
    BY <2>1, <2>2, <1>x
\* Every file has the turns of an older one.
<1>8. \A g \in 1..Len(gs) : \A i \in 1..Len(gs[g].events) : \E m \in 1..L :
        /\ i \in 1..Len(fs[m].events)
        /\ \A k \in 1..i : gs[g].events[k].turn = fs[m].events[k].turn
        /\ g = m \/ (g = L + 1 /\ m = f)
  <2>1. ASSUME NEW g \in 1..L, NEW i \in 1..Len(gs[g].events)
        PROVE \E m \in 1..L : /\ i \in 1..Len(fs[m].events)
                              /\ \A k \in 1..i : gs[g].events[k].turn = fs[m].events[k].turn
                              /\ g = m \/ (g = L + 1 /\ m = f)
    BY <1>1, <2>1
  <2>2. ASSUME NEW i \in 1..Len(x.events)
        PROVE \E m \in 1..L : /\ i \in 1..Len(fs[m].events)
                              /\ \A k \in 1..i : x.events[k].turn = fs[m].events[k].turn
                              /\ m = f
    <3>1. \A k \in 1..i : k \in 1..Len(x.events)
      BY <1>2
    <3>. QED
      BY <1>7, <3>1
  <2>3. gs[L + 1].events = x.events
    BY <1>1
  <2>4. ASSUME NEW i \in 1..Len(gs[L + 1].events)
        PROVE \E m \in 1..L : /\ i \in 1..Len(fs[m].events)
                              /\ \A k \in 1..i : gs[L + 1].events[k].turn = fs[m].events[k].turn
                              /\ L + 1 = m \/ m = f
    BY <2>2, <2>3, <2>4, Zenon
  <2>5. \A g \in 1..Len(gs) : g \in 1..L \/ g = L + 1
    BY <1>1
  <2>6. ASSUME NEW g \in 1..Len(gs), NEW i \in 1..Len(gs[g].events)
        PROVE \E m \in 1..L : /\ i \in 1..Len(fs[m].events)
                              /\ \A k \in 1..i : gs[g].events[k].turn = fs[m].events[k].turn
                              /\ g = m \/ (g = L + 1 /\ m = f)
    <3>1. CASE g \in 1..L
      BY <2>1, <2>6, <3>1, Zenon
    <3>2. CASE g = L + 1
      <4>1. i \in 1..Len(gs[L + 1].events) /\ g \notin 1..L
        BY <2>6, <3>2, <1>0
      <4>2. PICK m \in 1..L : /\ i \in 1..Len(fs[m].events)
                              /\ \A k \in 1..i : gs[L + 1].events[k].turn = fs[m].events[k].turn
                              /\ L + 1 = m \/ m = f
        BY <2>4, <4>1, Zenon
      <4>. QED
        BY <3>2, <4>1, <4>2, Zenon
    <3>. QED
      BY <2>5, <3>1, <3>2
  <2>. QED
    BY <2>6, Zenon
<1>9. SameBefore(gs)
  <2>1. ASSUME NEW g \in 1..Len(gs), NEW h \in 1..Len(gs),
               NEW i \in 1..Len(gs[g].events), NEW j \in 1..Len(gs[h].events), Shared(gs, g, i, h, j)
        PROVE  i = j /\ \A k \in 1..i : Shared(gs, g, k, h, k)
    <3>1. PICK m \in 1..L : /\ i \in 1..Len(fs[m].events)
                            /\ \A k \in 1..i : gs[g].events[k].turn = fs[m].events[k].turn
      BY <1>8
    <3>2. PICK p \in 1..L : /\ j \in 1..Len(fs[p].events)
                            /\ \A k \in 1..j : gs[h].events[k].turn = fs[p].events[k].turn
      BY <1>8
    <3>3. i \in 1..i /\ j \in 1..j
      BY <1>3, <3>1, <3>2
    <3>4. Shared(fs, m, i, p, j)
      BY <2>1, <3>1, <3>2, <3>3 DEF Shared
    <3>5. i = j /\ \A k \in 1..i : Shared(fs, m, k, p, k)
      BY <1>6, <3>1, <3>2, <3>4
    <3>. QED
      BY <3>1, <3>2, <3>5 DEF Shared
  <2>. QED
    BY <2>1 DEF SameBefore
<1>10. PICK r \in [1..L -> Nat] : Kin(fs, r)
  BY DEF HistoryOf
<1>. DEFINE q == [g \in 1..(L + 1) |-> IF g = L + 1 THEN (IF x.fork = 0 THEN L + 1 ELSE r[x.fork]) ELSE r[g]]
<1>11. x.fork # 0 => x.fork \in 1..L
  BY <1>x, <1>3
<1>12. /\ q \in [1..Len(gs) -> Nat]
       /\ \A g \in 1..L : q[g] = r[g]
       /\ q[L + 1] = IF x.fork = 0 THEN L + 1 ELSE r[x.fork]
  BY <1>0, <1>1, <1>10, <1>11
<1>. HIDE DEF q
\* The session of the new file is kin of that it has the turns of.
<1>13. (f \in 1..L /\ x.events # <<>>) \/ x.id # L + 1 \/ x.fork # 0 => q[x.id] = r[fs[f].id]
  <2>1. CASE x.id # L + 1
    BY <2>1, <1>x, <1>3, <1>12
  <2>2. CASE x.id = L + 1 /\ x.fork # 0
    <3>1. f \in 1..L /\ x.fork = fs[f].id
      BY <2>2, <1>x, <1>3
    <3>. QED
      BY <3>1, <2>2, <1>12
  <2>3. CASE x.id = L + 1 /\ x.fork = 0 /\ f \in 1..L /\ x.events # <<>>
    <3>1. FALSE
      BY <2>3, <1>3, <1>0 DEF NewFile
    <3>. QED
      BY <3>1
  <2>. QED
    BY <2>1, <2>2, <2>3
<1>14. Kin(gs, q)
  <2>1. \A g \in 1..Len(gs) : q[gs[g].id] = IF gs[g].fork = 0 THEN gs[g].id ELSE q[gs[g].fork]
    <3>1. ASSUME NEW g \in 1..L PROVE q[gs[g].id] = IF gs[g].fork = 0 THEN gs[g].id ELSE q[gs[g].fork]
      <4>1. r[fs[g].id] = IF fs[g].fork = 0 THEN fs[g].id ELSE r[fs[g].fork]
        BY <1>10 DEF Kin
      <4>. QED
        BY <4>1, <1>1, <1>3, <1>12
    <3>2. q[x.id] = IF x.fork = 0 THEN x.id ELSE q[x.fork]
      <4>1. CASE x.id = L + 1
        BY <4>1, <1>11, <1>12
      <4>2. CASE x.id # L + 1
        <5>1. f \in 1..L /\ x.id = fs[f].id /\ x.fork = fs[f].fork
          BY <4>2, <1>x
        <5>2. r[fs[f].id] = IF fs[f].fork = 0 THEN fs[f].id ELSE r[fs[f].fork]
          BY <5>1, <1>10 DEF Kin
        <5>. QED
          BY <5>1, <5>2, <1>3, <1>12
      <4>. QED
        BY <4>1, <4>2
    <3>. QED
      BY <3>1, <3>2, <1>1
  <2>2. \A g \in 1..Len(gs) : q[gs[g].id] = gs[g].id \/ \E h \in 1..Len(gs) : gs[h].fork = q[gs[g].id]
    <3>1. ASSUME NEW g \in 1..L
          PROVE r[fs[g].id] = fs[g].id \/ \E h \in 1..Len(gs) : gs[h].fork = r[fs[g].id]
      <4>1. r[fs[g].id] = fs[g].id \/ \E h \in 1..L : fs[h].fork = r[fs[g].id]
        BY <1>10 DEF Kin
      <4>. QED
        BY <4>1, <1>1
    <3>2. q[x.id] = x.id \/ \E h \in 1..Len(gs) : gs[h].fork = q[x.id]
      <4>1. CASE x.id # L + 1
        <5>1. f \in 1..L /\ x.id = fs[f].id /\ q[x.id] = r[fs[f].id]
          BY <4>1, <1>x, <1>13
        <5>. QED
          BY <3>1, <5>1
      <4>2. CASE x.id = L + 1 /\ x.fork = 0
        BY <4>2, <1>12
      <4>3. CASE x.id = L + 1 /\ x.fork # 0
        <5>1. f \in 1..L /\ x.fork = fs[f].id /\ q[x.id] = r[fs[f].id]
          BY <4>3, <1>x, <1>3, <1>13
        <5>2. CASE r[fs[f].id] = fs[f].id
          BY <5>1, <5>2, <1>1
        <5>3. CASE \E h \in 1..Len(gs) : gs[h].fork = r[fs[f].id]
          BY <5>1, <5>3
        <5>. QED
          BY <3>1, <5>1, <5>2, <5>3
      <4>. QED
        BY <4>1, <4>2, <4>3
    <3>3. ASSUME NEW g \in 1..Len(gs)
          PROVE q[gs[g].id] = gs[g].id \/ \E h \in 1..Len(gs) : gs[h].fork = q[gs[g].id]
      <4>1. CASE g \in 1..L
        <5>1. gs[g] = fs[g] /\ q[fs[g].id] = r[fs[g].id]
          BY <4>1, <1>1, <1>3, <1>12
        <5>2. r[fs[g].id] = fs[g].id \/ \E h \in 1..Len(gs) : gs[h].fork = r[fs[g].id]
          BY <3>1, <4>1
        <5>. QED
          BY <5>1, <5>2
      <4>2. CASE g = L + 1
        <5>1. gs[g] = x
          BY <4>2, <1>1
        <5>. QED
          BY <5>1, <3>2
      <4>. QED
        BY <4>1, <4>2, <1>1
    <3>. QED
      BY <3>3
  <2>3. \A g, h \in 1..Len(gs) : ~gs[g].meta /\ gs[h].id # gs[g].id => q[gs[h].id] # gs[g].id
    <3>1. ASSUME NEW g \in 1..Len(gs), NEW h \in 1..Len(gs), ~gs[g].meta, gs[h].id # gs[g].id
          PROVE q[gs[h].id] # gs[g].id
      <4>1. g \in 1..L /\ gs[g] = fs[g] /\ fs[g].id \in 1..L
        BY <3>1, <1>1, <1>3
      <4>2. CASE h \in 1..L
        <5>1. gs[h] = fs[h] /\ q[fs[h].id] = r[fs[h].id]
          BY <4>2, <1>1, <1>3, <1>12
        <5>. QED
          BY <3>1, <4>1, <4>2, <5>1, <1>10 DEF Kin
      <4>3. CASE h = L + 1 /\ x.id = L + 1 /\ x.fork = 0
        BY <4>1, <4>3, <1>1, <1>12, <1>0
      <4>4. CASE h = L + 1 /\ f \in 1..L /\ fs[f].meta /\ q[x.id] = r[fs[f].id]
        <5>1. fs[f].id # fs[g].id
          <6>1. f # g
            BY <3>1, <4>1, <4>4
          <6>. QED
            BY <3>1, <4>1, <4>4, <6>1, <1>0 DEF FileOf
        <5>2. r[fs[f].id] # fs[g].id
          BY <3>1, <4>1, <4>4, <5>1, <1>10 DEF Kin
        <5>. QED
          BY <4>1, <4>4, <5>2, <1>1
      <4>5. h \in 1..L \/ h = L + 1
        BY <1>1
      <4>6. ~(x.id = L + 1 /\ x.fork = 0) => f \in 1..L /\ fs[f].meta
        BY DEF NewFile
      <4>. QED
        BY <4>2, <4>3, <4>4, <4>5, <4>6, <1>13
    <3>. QED
      BY <3>1
  <2>4. ASSUME NEW g \in 1..Len(gs), NEW i \in 1..Len(gs[g].events)
        PROVE  \E m \in 1..L : /\ i \in 1..Len(fs[m].events) /\ q[gs[g].id] = r[fs[m].id]
                               /\ gs[g].events[i].turn = fs[m].events[i].turn
    <3>1. PICK m \in 1..L : /\ i \in 1..Len(fs[m].events)
                            /\ \A k \in 1..i : gs[g].events[k].turn = fs[m].events[k].turn
                            /\ g = m \/ (g = L + 1 /\ m = f)
      BY <1>8
    <3>2. i \in 1..i
      BY <3>1, <1>3
    <3>3. CASE g = m
      BY <3>1, <3>2, <3>3, <1>1, <1>3, <1>12
    <3>4. CASE g = L + 1 /\ m = f
      <4>1. x.events # <<>>
        <5>1. ASSUME x.events = <<>> PROVE FALSE
          <6>1. gs[g].events = x.events /\ Len(x.events) = 0
            BY <3>4, <5>1, <1>1
          <6>. QED
            BY <2>4, <6>1
        <5>. QED
          BY <5>1
      <4>2. q[x.id] = r[fs[f].id]
        BY <3>1, <3>4, <4>1, <1>13
      <4>. QED
        BY <3>1, <3>2, <3>4, <4>2, <1>1
    <3>. QED
      BY <3>1, <3>3, <3>4
  <2>5. \A g, h \in 1..Len(gs) : \A i \in 1..Len(gs[g].events), j \in 1..Len(gs[h].events) :
          Shared(gs, g, i, h, j) => q[gs[g].id] = q[gs[h].id]
    <3>1. ASSUME NEW g \in 1..Len(gs), NEW h \in 1..Len(gs),
                 NEW i \in 1..Len(gs[g].events), NEW j \in 1..Len(gs[h].events), Shared(gs, g, i, h, j)
          PROVE  q[gs[g].id] = q[gs[h].id]
      <4>1. PICK m \in 1..L : /\ i \in 1..Len(fs[m].events) /\ q[gs[g].id] = r[fs[m].id]
                              /\ gs[g].events[i].turn = fs[m].events[i].turn
        BY <2>4
      <4>2. PICK p \in 1..L : /\ j \in 1..Len(fs[p].events) /\ q[gs[h].id] = r[fs[p].id]
                              /\ gs[h].events[j].turn = fs[p].events[j].turn
        BY <2>4
      <4>3. Shared(fs, m, i, p, j)
        BY <3>1, <4>1, <4>2 DEF Shared
      <4>4. r[fs[m].id] = r[fs[p].id]
        BY <1>10, <4>1, <4>2, <4>3, Zenon DEF Kin
      <4>. QED
        BY <4>1, <4>2, <4>4
    <3>. QED
      BY <3>1
  <2>. QED
    BY <2>1, <2>2, <2>3, <2>5 DEF Kin
<1>15. \A g \in 1..Len(gs) : FileOf(gs, g, n)
  BY <1>1, <1>4, <1>5
<1>. QED
  BY <1>1, <1>9, <1>12, <1>14, <1>15, Zenon DEF HistoryOf, gs

LEMMA TurnIsMade ==
  ASSUME NEW fs, NEW n \in Nat, HistoryOf(fs, n), NEW f \in 1..Len(fs),
         \A g \in 1..(f - 1) : fs[g].id # fs[f].id, NEW e \in Event, e.turn = n + 1
  PROVE  HistoryOf([fs EXCEPT ![f].events = Append(@, e)], n + 1)
<1>. DEFINE gs == [fs EXCEPT ![f].events = Append(@, e)]
            L == Len(fs)
            made == Append(fs[f].events, e)
            m == Len(fs[f].events)
<1>0. /\ fs \in Seq(SessionFile) /\ L \in Nat /\ f \in 1..L
      /\ \A g \in 1..L : FileOf(fs, g, n)
      /\ SameBefore(fs)
  BY DEF HistoryOf
<1>1. /\ fs[f] \in SessionFile /\ fs[f].events \in Seq(Event) /\ m \in Nat
      /\ \A g \in 1..L : Len(fs[g].events) \in Nat /\ fs[g].id \in Nat \ {0}
  BY <1>0, FilesAre DEF Events
<1>2. /\ made \in Seq(Event) /\ Len(made) = m + 1 /\ made[m + 1] = e
      /\ \A i \in 1..m : made[i] = fs[f].events[i]
  BY <1>1
<1>. HIDE DEF made
<1>3. [fs[f] EXCEPT !.events = made] \in SessionFile
  BY <1>1, <1>2 DEF SessionFile, Events
<1>4. /\ gs \in Seq(SessionFile) /\ Len(gs) = L /\ gs[f] = [fs[f] EXCEPT !.events = made]
      /\ \A g \in 1..L : g # f => gs[g] = fs[g]
  <2>1. gs = [fs EXCEPT ![f] = [fs[f] EXCEPT !.events = made]]
    BY Zenon DEF made
  <2>. HIDE DEF gs
  <2>. QED
    BY <2>1, <1>0, <1>3, ExceptSeq
<1>. HIDE DEF gs
<1>5. /\ gs[f].events = made
      /\ \A g \in 1..L : /\ gs[g].id = fs[g].id /\ gs[g].fork = fs[g].fork /\ gs[g].meta = fs[g].meta
                         /\ g # f => gs[g].events = fs[g].events
  <2>1. gs[f].events = made /\ gs[f].id = fs[f].id /\ gs[f].fork = fs[f].fork /\ gs[f].meta = fs[f].meta
    BY <1>1, <1>4 DEF SessionFile
  <2>. QED
    BY <2>1, <1>4
<1>6. fs[f].id = f
  <2>1. fs[f].id <= f /\ fs[fs[f].id].id = fs[f].id
    BY <1>0 DEF FileOf
  <2>. QED
    BY <2>1, <1>1
\* A count of a file is one it had, or that of the new turn.
<1>7. ASSUME NEW g \in 1..L, NEW i \in 1..Len(gs[g].events)
      PROVE  \/ i \in 1..Len(fs[g].events) /\ gs[g].events[i] = fs[g].events[i] /\ fs[g].events[i].turn <= n
             \/ g = f /\ i = m + 1 /\ gs[g].events[i] = e
  <2>1. i \in 1..Len(fs[g].events) => fs[g].events[i].turn <= n
    BY <1>0 DEF FileOf, Ascending
  <2>2. CASE g # f
    BY <2>1, <2>2, <1>5
  <2>3. CASE g = f
    BY <2>1, <2>3, <1>1, <1>2, <1>5
  <2>. QED
    BY <2>2, <2>3
<1>8. ASSUME NEW g \in 1..L, NEW i \in 1..Len(fs[g].events)
      PROVE  i \in 1..Len(gs[g].events) /\ gs[g].events[i] = fs[g].events[i]
  <2>1. CASE g # f
    BY <2>1, <1>5
  <2>2. CASE g = f
    BY <2>2, <1>1, <1>2, <1>5
  <2>. QED
    BY <2>1, <2>2
<1>9. \A g \in 1..L : \A i \in 1..Len(fs[g].events) : fs[g].events[i].turn \in Nat
  BY <1>0, FilesAre
<1>10. ASSUME NEW g \in 1..L PROVE FileOf(gs, g, n + 1)
  <2>1. FileOf(fs, g, n) /\ fs[g].id \in 1..L /\ (fs[g].fork # 0 => fs[g].fork \in 1..L)
    <3>1. fs[g].id <= g /\ (fs[g].fork # 0 => fs[g].fork < fs[g].id) /\ fs[g].fork \in Nat
      BY <1>0, FilesAre DEF FileOf
    <3>. QED
      BY <3>1, <1>0, <1>1
  <2>2. Begins(gs[g].events, gs[fs[g].id].events)
    <3>1. CASE g = f
      BY <3>1, <1>2, <1>5, <1>6, <1>1 DEF Begins
    <3>2. CASE g # f
      <4>1. Begins(fs[g].events, fs[fs[g].id].events) /\ gs[g].events = fs[g].events
        BY <2>1, <3>2, <1>5 DEF FileOf
      <4>2. CASE fs[g].id # f
        BY <4>1, <4>2, <2>1, <1>5
      <4>3. CASE fs[g].id = f
        <5>1. Len(fs[g].events) <= m /\ Len(fs[g].events) \in Nat
          BY <4>1, <4>3, <1>1 DEF Begins
        <5>2. \A i \in 1..Len(fs[g].events) : i \in 1..m /\ fs[g].events[i] = made[i]
          BY <5>1, <4>1, <4>3, <1>1, <1>2 DEF Begins
        <5>. QED
          BY <5>1, <5>2, <4>1, <4>3, <1>1, <1>2, <1>5 DEF Begins
      <4>. QED
        BY <4>2, <4>3
    <3>. QED
      BY <3>1, <3>2
  <2>3. Ascending(gs[g].events, n + 1)
    <3>1. CASE g # f
      <4>1. Ascending(fs[g].events, n) /\ gs[g].events = fs[g].events
        BY <2>1, <3>1, <1>5 DEF FileOf
      <4>2. \A i \in 1..Len(fs[g].events) : fs[g].events[i].turn \in Nat
        BY <1>9
      <4>. QED
        BY <4>1, <4>2 DEF Ascending
    <3>2. CASE g = f
      <4>1. Ascending(fs[f].events, n) /\ gs[g].events = made
        BY <2>1, <3>2, <1>5 DEF FileOf
      <4>2. \A i \in 1..(m + 1) : \/ i \in 1..m /\ made[i].turn = fs[f].events[i].turn
                                                /\ made[i].turn \in Nat /\ made[i].turn <= n
                                  \/ i = m + 1 /\ made[i].turn = n + 1
        <5>1. ASSUME NEW i \in 1..m
              PROVE  made[i].turn = fs[f].events[i].turn /\ made[i].turn \in Nat /\ made[i].turn <= n
          <6>1. made[i] = fs[f].events[i] /\ fs[f].events[i].turn \in Nat
            BY <1>2, <1>9
          <6>2. fs[f].events[i].turn <= n
            BY <4>1 DEF Ascending
          <6>. QED
            BY <6>1, <6>2
        <5>2. \A i \in 1..(m + 1) : i \in 1..m \/ i = m + 1
          <6>1. m \in Nat
            BY <1>1
          <6>. HIDE DEF m
          <6>. QED
            BY <6>1
        <5>. QED
          BY <5>1, <5>2, <1>2
      <4>3. \A i \in 1..(m + 1) : made[i].turn <= n + 1
        BY <4>2
      <4>4. ASSUME NEW i \in 1..(m + 1), NEW j \in 1..(m + 1), i < j PROVE made[i].turn < made[j].turn
        <5>1. i \in 1..m
          BY <4>4, <1>1
        <5>2. CASE j \in 1..m
          <6>1. fs[f].events[i].turn < fs[f].events[j].turn
            BY <5>1, <5>2, <4>1, <4>4 DEF Ascending
          <6>. QED
            BY <6>1, <5>1, <5>2, <1>2
        <5>3. CASE j = m + 1
          <6>1. made[i].turn \in Nat /\ made[i].turn <= n
            BY <5>1, <4>2, <4>4, <1>1
          <6>2. made[j].turn = n + 1
            BY <5>3, <1>2
          <6>. QED
            BY <6>1, <6>2
        <5>. QED
          BY <5>2, <5>3, <1>1
      <4>. QED
        BY <4>1, <4>3, <4>4, <1>2 DEF Ascending
    <3>. QED
      BY <3>1, <3>2
  <2>4. gs[fs[g].id].id = fs[fs[g].id].id /\ gs[fs[g].id].fork = fs[fs[g].id].fork
        /\ (fs[g].fork # 0 => gs[fs[g].fork].id = fs[fs[g].fork].id)
        /\ gs[g].id = fs[g].id /\ gs[g].fork = fs[g].fork /\ gs[g].meta = fs[g].meta
    BY <2>1, <1>5
  <2>5. ~gs[g].meta => gs[g].fork = 0 /\ \A h \in 1..Len(gs) : h # g => gs[h].id # gs[g].id
    BY <2>1, <2>4, <1>4, <1>5 DEF FileOf
  <2>. QED
    BY <2>1, <2>2, <2>3, <2>4, <2>5 DEF FileOf
\* What two files share they shared, unless it is the new turn, of one file.
<1>11. ASSUME NEW g \in 1..L, NEW h \in 1..L, NEW i \in 1..Len(gs[g].events), NEW j \in 1..Len(gs[h].events),
              Shared(gs, g, i, h, j)
       PROVE  \/ i \in 1..Len(fs[g].events) /\ j \in 1..Len(fs[h].events) /\ Shared(fs, g, i, h, j)
              \/ g = f /\ h = f /\ i = j
  <2>1. \/ i \in 1..Len(fs[g].events) /\ gs[g].events[i] = fs[g].events[i] /\ fs[g].events[i].turn <= n
        \/ g = f /\ i = m + 1 /\ gs[g].events[i] = e
    BY <1>7
  <2>2. \/ j \in 1..Len(fs[h].events) /\ gs[h].events[j] = fs[h].events[j] /\ fs[h].events[j].turn <= n
        \/ h = f /\ j = m + 1 /\ gs[h].events[j] = e
    BY <1>7
  <2>3. gs[g].events[i].turn = gs[h].events[j].turn
    BY <1>11 DEF Shared
  <2>4. /\ i \in 1..Len(fs[g].events) => fs[g].events[i].turn \in Nat
        /\ j \in 1..Len(fs[h].events) => fs[h].events[j].turn \in Nat
    BY <1>9
  <2>5. CASE i \in 1..Len(fs[g].events) /\ j \in 1..Len(fs[h].events)
    <3>1. fs[g].events[i] = gs[g].events[i] /\ fs[h].events[j] = gs[h].events[j]
      BY <2>5, <1>8
    <3>. QED
      BY <2>3, <2>5, <3>1 DEF Shared
  <2>6. CASE g = f /\ i = m + 1 /\ gs[g].events[i] = e
    <3>1. ~(j \in 1..Len(fs[h].events) /\ gs[h].events[j] = fs[h].events[j] /\ fs[h].events[j].turn <= n)
      BY <2>3, <2>4, <2>6
    <3>. QED
      BY <2>2, <2>6, <3>1
  <2>7. CASE h = f /\ j = m + 1 /\ gs[h].events[j] = e
    <3>1. ~(i \in 1..Len(fs[g].events) /\ gs[g].events[i] = fs[g].events[i] /\ fs[g].events[i].turn <= n)
      BY <2>3, <2>4, <2>7
    <3>. QED
      BY <2>1, <2>7, <3>1
  <2>. QED
    BY <2>1, <2>2, <2>5, <2>6, <2>7
<1>12. SameBefore(gs)
  <2>1. ASSUME NEW g \in 1..L, NEW h \in 1..L, NEW i \in 1..Len(gs[g].events), NEW j \in 1..Len(gs[h].events),
               Shared(gs, g, i, h, j)
        PROVE  i = j /\ \A k \in 1..i : Shared(gs, g, k, h, k)
    <3>1. CASE i \in 1..Len(fs[g].events) /\ j \in 1..Len(fs[h].events) /\ Shared(fs, g, i, h, j)
      <4>1. i = j /\ \A k \in 1..i : Shared(fs, g, k, h, k)
        BY <3>1, <1>0, Zenon DEF SameBefore
      <4>2. \A k \in 1..i : k \in 1..Len(fs[g].events) /\ k \in 1..Len(fs[h].events)
        <5>1. Len(fs[g].events) \in Nat /\ Len(fs[h].events) \in Nat /\ i = j
          BY <4>1, <1>1
        <5>. QED
          BY <3>1, <5>1
      <4>. QED
        BY <4>1, <4>2, <1>8 DEF Shared
    <3>2. CASE g = f /\ h = f /\ i = j
      BY <3>2 DEF Shared
    <3>. QED
      BY <2>1, <3>1, <3>2, <1>11, Zenon
  <2>. QED
    BY <2>1, <1>4 DEF SameBefore
<1>13. PICK r \in [1..L -> Nat] : Kin(fs, r)
  BY DEF HistoryOf
<1>14. Kin(gs, r)
  <2>1. ASSUME NEW g \in 1..L, NEW h \in 1..L, NEW i \in 1..Len(gs[g].events), NEW j \in 1..Len(gs[h].events),
               Shared(gs, g, i, h, j)
        PROVE  r[gs[g].id] = r[gs[h].id]
    <3>1. CASE i \in 1..Len(fs[g].events) /\ j \in 1..Len(fs[h].events) /\ Shared(fs, g, i, h, j)
      <4>1. r[fs[g].id] = r[fs[h].id]
        BY <3>1, <1>13, Zenon DEF Kin
      <4>. QED
        BY <4>1, <1>5
    <3>. QED
      BY <2>1, <3>1, <1>11, Zenon
  <2>2. \A g \in 1..L : r[gs[g].id] = IF gs[g].fork = 0 THEN gs[g].id ELSE r[gs[g].fork]
    <3>1. ASSUME NEW g \in 1..L PROVE r[fs[g].id] = IF fs[g].fork = 0 THEN fs[g].id ELSE r[fs[g].fork]
      BY <1>13 DEF Kin
    <3>. QED
      BY <3>1, <1>5
  <2>3. \A g \in 1..L : r[gs[g].id] = gs[g].id \/ \E h \in 1..L : gs[h].fork = r[gs[g].id]
    <3>1. ASSUME NEW g \in 1..L PROVE r[fs[g].id] = fs[g].id \/ \E h \in 1..L : gs[h].fork = r[fs[g].id]
      <4>1. r[fs[g].id] = fs[g].id \/ \E h \in 1..L : fs[h].fork = r[fs[g].id]
        BY <1>13 DEF Kin
      <4>. QED
        BY <4>1, <1>5
    <3>2. ASSUME NEW g \in 1..L PROVE gs[g].id = fs[g].id
      BY <1>5
    <3>. QED
      BY <3>1, <3>2
  <2>4. \A g, h \in 1..L : ~gs[g].meta /\ gs[h].id # gs[g].id => r[gs[h].id] # gs[g].id
    <3>1. ASSUME NEW g \in 1..L, NEW h \in 1..L, ~fs[g].meta, fs[h].id # fs[g].id
          PROVE  r[fs[h].id] # fs[g].id
      BY <3>1, <1>13 DEF Kin
    <3>2. ASSUME NEW g \in 1..L PROVE gs[g].id = fs[g].id /\ gs[g].meta = fs[g].meta
      BY <1>5
    <3>. QED
      BY <3>1, <3>2
  <2>. QED
    BY <2>1, <2>2, <2>3, <2>4, <1>4 DEF Kin
<1>15. \A g \in 1..Len(gs) : FileOf(gs, g, n + 1)
  BY <1>4, <1>10
<1>. QED
  BY <1>4, <1>12, <1>13, <1>14, <1>15, Zenon DEF HistoryOf, gs

LEMMA MetadataIsLost ==
  ASSUME NEW fs, NEW n \in Nat, HistoryOf(fs, n), NEW f \in 1..Len(fs), fs[f].meta, fs[f].fork = 0,
         \A g \in 1..Len(fs) : g # f => fs[g].id # fs[f].id /\ fs[g].fork # fs[f].id
  PROVE  HistoryOf([fs EXCEPT ![f].meta = FALSE], n)
<1>. DEFINE gs == [fs EXCEPT ![f].meta = FALSE]
            L == Len(fs)
<1>0. /\ fs \in Seq(SessionFile) /\ L \in Nat /\ f \in 1..L
      /\ \A g \in 1..L : FileOf(fs, g, n)
      /\ SameBefore(fs)
  BY DEF HistoryOf
<1>1. fs[f] \in SessionFile /\ [fs[f] EXCEPT !.meta = FALSE] \in SessionFile /\ fs[f].id \in Nat \ {0}
  <2>1. fs[f] \in SessionFile
    BY <1>0, FilesAre
  <2>. QED
    BY <2>1 DEF SessionFile
<1>2. /\ gs \in Seq(SessionFile) /\ Len(gs) = L /\ gs[f] = [fs[f] EXCEPT !.meta = FALSE]
      /\ \A g \in 1..L : g # f => gs[g] = fs[g]
  <2>. DEFINE x == [fs[f] EXCEPT !.meta = FALSE]
  <2>1. gs = [fs EXCEPT ![f] = x]
    BY Zenon
  <2>2. x \in SessionFile
    BY <1>1
  <2>. HIDE DEF gs, x
  <2>3. /\ gs \in Seq(SessionFile) /\ Len(gs) = L /\ gs[f] = x
        /\ \A g \in 1..L : g # f => gs[g] = fs[g]
    BY <2>1, <2>2, <1>0, ExceptSeq
  <2>. QED
    BY <2>3 DEF x
<1>. HIDE DEF gs
<1>3. \A g \in 1..L : /\ gs[g].id = fs[g].id /\ gs[g].fork = fs[g].fork /\ gs[g].events = fs[g].events
                      /\ g # f => gs[g].meta = fs[g].meta
  BY <1>1, <1>2 DEF SessionFile
<1>4. ASSUME NEW g \in 1..L PROVE FileOf(gs, g, n)
  <2>1. FileOf(fs, g, n) /\ fs[g].id \in 1..L /\ (fs[g].fork # 0 => fs[g].fork \in 1..L)
    <3>1. fs[g].id <= g /\ (fs[g].fork # 0 => fs[g].fork < fs[g].id) /\ fs[g].fork \in Nat /\ fs[g].id \in Nat \ {0}
      BY <1>0, FilesAre DEF FileOf
    <3>. QED
      BY <3>1, <1>0
  <2>2. ~gs[g].meta => gs[g].fork = 0 /\ \A h \in 1..L : h # g => gs[h].id # gs[g].id
    <3>1. CASE g = f
      BY <3>1, <1>3
    <3>2. CASE g # f
      BY <3>2, <2>1, <1>3 DEF FileOf
    <3>. QED
      BY <3>1, <3>2
  <2>. QED
    BY <2>1, <2>2, <1>2, <1>3 DEF FileOf
<1>5. SameBefore(gs)
  <2>1. ASSUME NEW g \in 1..L, NEW h \in 1..L, NEW i \in 1..Len(fs[g].events), NEW j \in 1..Len(fs[h].events),
               Shared(fs, g, i, h, j)
        PROVE  i = j /\ \A k \in 1..i : Shared(fs, g, k, h, k)
    BY <2>1, <1>0, Zenon DEF SameBefore
  <2>2. ASSUME NEW g \in 1..L, NEW h \in 1..L, NEW i, NEW j
        PROVE  Shared(gs, g, i, h, j) = Shared(fs, g, i, h, j)
    BY <1>3 DEF Shared
  <2>3. ASSUME NEW g \in 1..L, NEW h \in 1..L, NEW i \in 1..Len(gs[g].events), NEW j \in 1..Len(gs[h].events),
               Shared(gs, g, i, h, j)
        PROVE  i = j /\ \A k \in 1..i : Shared(gs, g, k, h, k)
    <3>1. i \in 1..Len(fs[g].events) /\ j \in 1..Len(fs[h].events)
      BY <1>3
    <3>2. Shared(fs, g, i, h, j)
      BY <2>2, <2>3
    <3>3. i = j /\ \A k \in 1..i : Shared(fs, g, k, h, k)
      BY <3>1, <3>2, <2>1
    <3>. QED
      BY <3>3, <2>2
  <2>. QED
    BY <2>3, <1>2 DEF SameBefore
<1>6. PICK r \in [1..L -> Nat] : Kin(fs, r)
  BY DEF HistoryOf
<1>7. ASSUME NEW g \in 1..L, NEW h \in 1..L, ~gs[g].meta, gs[h].id # gs[g].id
      PROVE  r[gs[h].id] # gs[g].id
  <2>1. CASE g # f
    BY <1>7, <2>1, <1>3, <1>6 DEF Kin
  <2>2. CASE g = f
    <3>1. r[fs[h].id] = fs[h].id \/ \E k \in 1..L : fs[k].fork = r[fs[h].id]
      BY <1>6 DEF Kin
    <3>2. \A k \in 1..L : fs[k].fork # fs[f].id
      BY <1>1
    <3>. QED
      BY <1>7, <2>2, <3>1, <3>2, <1>3
  <2>. QED
    BY <2>1, <2>2
<1>8. Kin(gs, r)
  <2>1. \A g \in 1..L : r[gs[g].id] = IF gs[g].fork = 0 THEN gs[g].id ELSE r[gs[g].fork]
    <3>1. ASSUME NEW g \in 1..L PROVE r[fs[g].id] = IF fs[g].fork = 0 THEN fs[g].id ELSE r[fs[g].fork]
      BY <1>6 DEF Kin
    <3>. QED
      BY <3>1, <1>3
  <2>2. \A g \in 1..L : r[gs[g].id] = gs[g].id \/ \E h \in 1..L : gs[h].fork = r[gs[g].id]
    <3>1. ASSUME NEW g \in 1..L PROVE r[fs[g].id] = fs[g].id \/ \E h \in 1..L : gs[h].fork = r[fs[g].id]
      <4>1. r[fs[g].id] = fs[g].id \/ \E h \in 1..L : fs[h].fork = r[fs[g].id]
        BY <1>6 DEF Kin
      <4>. QED
        BY <4>1, <1>3
    <3>. QED
      BY <3>1, <1>3
  <2>3. \A g, h \in 1..L : \A i \in 1..Len(gs[g].events), j \in 1..Len(gs[h].events) :
          Shared(gs, g, i, h, j) => r[gs[g].id] = r[gs[h].id]
    <3>1. ASSUME NEW g \in 1..L, NEW h \in 1..L, NEW i \in 1..Len(gs[g].events), NEW j \in 1..Len(gs[h].events),
                 Shared(gs, g, i, h, j)
          PROVE  r[gs[g].id] = r[gs[h].id]
      <4>1. /\ i \in 1..Len(fs[g].events) /\ j \in 1..Len(fs[h].events) /\ Shared(fs, g, i, h, j)
            /\ gs[g].id = fs[g].id /\ gs[h].id = fs[h].id
        BY <3>1, <1>3 DEF Shared
      <4>2. \A k, l \in 1..L : \A a \in 1..Len(fs[k].events), b \in 1..Len(fs[l].events) :
              Shared(fs, k, a, l, b) => r[fs[k].id] = r[fs[l].id]
        BY <1>6 DEF Kin
      <4>3. r[fs[g].id] = r[fs[h].id]
        BY <4>1, <4>2, Zenon
      <4>. QED
        BY <4>1, <4>3
    <3>. QED
      BY <3>1
  <2>4. \A g, h \in 1..L : ~gs[g].meta /\ gs[h].id # gs[g].id => r[gs[h].id] # gs[g].id
    BY <1>7
  <2>5. Len(gs) = L
    BY <1>2
  <2>. QED
    BY <2>1, <2>2, <2>3, <2>4, <2>5 DEF Kin
<1>9. \A g \in 1..Len(gs) : FileOf(gs, g, n)
  BY <1>2, <1>4
<1>. QED
  BY <1>2, <1>5, <1>6, <1>8, <1>9, Zenon DEF HistoryOf, gs

LEMMA UsageStep == UsageInv /\ [Usage!Next]_(Usage!vars) => UsageInv'
<1>. SUFFICES ASSUME UsageInv, [Usage!Next]_(Usage!vars) PROVE UsageInv'
  OBVIOUS
<1>0. /\ HistoryOf(files, turns) /\ files \in Seq(SessionFile) /\ Len(files) \in Nat /\ Len(files) <= MaxHistory
      /\ turns \in Nat /\ today \in Nat \ {0} /\ MaxHistory \in Nat
      /\ \A f \in 1..Len(files) : FileOf(files, f, turns)
      /\ DOMAIN files = 1..Len(files)
  BY HistoryAssumption DEF UsageInv, HistoryOf
\* A new file is as FileIsAdded asks.
<1>a. ASSUME NEW x \in SessionFile, x.meta, NEW f, NewFile(files, x, f), Len(files) < MaxHistory,
             files' = Append(files, x), turns' = turns, today' = today
      PROVE  UsageInv'
  <2>1. HistoryOf(files', turns')
    BY <1>0, <1>a, FileIsAdded
  <2>2. Len(files') = Len(files) + 1
    BY <1>0, <1>a
  <2>. QED
    BY <2>1, <2>2, <1>0, <1>a DEF UsageInv
<1>1. CASE Usage!NewSession
  <2>. DEFINE x == Usage!File(Len(files) + 1, 0, <<>>)
  <2>1. Len(files) < MaxHistory /\ files' = Append(files, x) /\ turns' = turns /\ today' = today
    BY <1>1 DEF Usage!NewSession, Usage!None
  <2>2. x = [id |-> Len(files) + 1, fork |-> 0, events |-> <<>>, meta |-> TRUE]
    BY DEF Usage!File
  <2>. HIDE DEF x
  <2>3. x \in SessionFile /\ x.meta /\ NewFile(files, x, 1)
    <3>1. <<>> \in Events
      BY DEF Events
    <3>. QED
      BY <3>1, <2>2, <1>0 DEF SessionFile, NewFile
  <2>. QED
    BY <2>1, <2>3, <1>a DEF x
<1>2. CASE Usage!NextDay
  BY <1>0, <1>2 DEF Usage!NextDay, UsageInv
<1>3. ASSUME NEW f \in 1..Len(files), Usage!Turn(f) PROVE UsageInv'
  <2>1. PICK k \in Usage!Kinds :
          files' = [files EXCEPT ![f].events = Append(@, [turn |-> turns + 1, kind |-> k, day |-> today])]
    BY <1>3 DEF Usage!Turn
  <2>2. turns' = turns + 1 /\ today' = today /\ \A g \in 1..(f - 1) : files[g].id # files[f].id
    BY <1>3 DEF Usage!Turn
  <2>. DEFINE e == [turn |-> turns + 1, kind |-> k, day |-> today]
  <2>3. e \in Event /\ e.turn = turns + 1
    BY <1>0 DEF Event
  <2>4. files' = [files EXCEPT ![f].events = Append(@, e)]
    BY <2>1
  <2>. HIDE DEF e
  <2>5. HistoryOf(files', turns')
    BY <2>2, <2>3, <2>4, <1>0, TurnIsMade
  <2>6. Len(files') = Len(files)
    BY <2>4, <1>0
  <2>. QED
    BY <2>2, <2>5, <2>6, <1>0 DEF UsageInv
<1>4. ASSUME NEW f \in 1..Len(files), Usage!Fork(f) PROVE UsageInv'
  <2>. DEFINE s == files[f].events
  <2>1. s \in Seq(Event) /\ Len(s) \in Nat /\ files[f].id \in Nat \ {0}
    BY <1>0, FilesAre DEF Events
  <2>2. PICK n \in 0..Len(s), keep \in BOOLEAN :
          files' = Append(files, Usage!File(Len(files) + 1, files[f].id,
                     IF keep THEN SubSeq(s, 1, n)
                     ELSE [i \in DOMAIN SubSeq(s, 1, n) |-> [SubSeq(s, 1, n)[i] EXCEPT !.day = today]]))
    BY <1>4 DEF Usage!Fork
  <2>. DEFINE copied == SubSeq(s, 1, n)
              redated == [i \in DOMAIN copied |-> [copied[i] EXCEPT !.day = today]]
              events == IF keep THEN copied ELSE redated
              x == [id |-> Len(files) + 1, fork |-> files[f].id, events |-> events, meta |-> TRUE]
  <2>3. /\ copied \in Seq(Event) /\ Len(copied) = n /\ DOMAIN copied = 1..n
        /\ \A i \in 1..n : copied[i] = s[i] /\ copied[i] \in Event
    <3>1. n \in Nat /\ n <= Len(s)
      BY <2>1
    <3>. HIDE DEF s
    <3>2. copied \in Seq(Event) /\ Len(copied) = n /\ \A i \in 1..n : copied[i] = s[i]
      BY <2>1, <3>1
    <3>. QED
      BY <3>2
  <2>. HIDE DEF copied
  <2>4. \A i \in 1..n : [copied[i] EXCEPT !.day = today] \in Event /\ [copied[i] EXCEPT !.day = today].turn = s[i].turn
    <3>1. ASSUME NEW d \in Event
          PROVE  [d EXCEPT !.day = today] \in Event /\ [d EXCEPT !.day = today].turn = d.turn
      BY <1>0 DEF Event
    <3>. QED
      BY <2>3, <3>1
  <2>5. redated = [i \in 1..n |-> [copied[i] EXCEPT !.day = today]]
    BY <2>3
  <2>6. redated \in Seq(Event) /\ Len(redated) = n /\ \A i \in 1..n : redated[i].turn = s[i].turn
    <3>1. redated \in [1..n -> Event]
      BY <2>4, <2>5
    <3>2. n \in Nat
      BY <2>1
    <3>. HIDE DEF redated
    <3>3. redated \in Seq(Event) /\ Len(redated) = n
      BY <3>1, <3>2
    <3>4. \A i \in 1..n : redated[i].turn = s[i].turn
      BY <2>4, <2>5
    <3>. QED
      BY <3>3, <3>4
  <2>. HIDE DEF redated
  <2>7. events \in Events /\ TurnsOf(events, s)
    <3>1. CASE keep
      BY <3>1, <2>1, <2>3 DEF TurnsOf, Events
    <3>2. CASE ~keep
      BY <3>2, <2>1, <2>6 DEF TurnsOf, Events
    <3>. QED
      BY <3>1, <3>2
  <2>8. files' = Append(files, x)
    BY <2>2 DEF Usage!File, redated, copied
  <2>. HIDE DEF events
  <2>9. x \in SessionFile /\ x.meta
    BY <2>1, <2>7, <1>0 DEF SessionFile
  <2>10. /\ files[f].meta /\ Len(files) < MaxHistory /\ turns' = turns /\ today' = today
    BY <1>4 DEF Usage!Fork
  <2>11. NewFile(files, x, f)
    BY <2>7, <2>10 DEF NewFile
  <2>. HIDE DEF x
  <2>. QED
    BY <2>8, <2>9, <2>10, <2>11, <1>a
<1>5. ASSUME NEW f \in 1..Len(files), Usage!Archive(f) PROVE UsageInv'
  <2>. DEFINE s == files[f].events
  <2>1. s \in Seq(Event) /\ Len(s) \in Nat /\ files[f] \in SessionFile
    BY <1>0, FilesAre DEF Events
  <2>2. PICK n \in 0..Len(s) : files' = Append(files, [files[f] EXCEPT !.events = SubSeq(@, 1, n)])
    BY <1>5 DEF Usage!Archive
  <2>. DEFINE copied == SubSeq(s, 1, n)
              x == [files[f] EXCEPT !.events = copied]
  <2>3. copied \in Seq(Event) /\ Len(copied) = n /\ \A i \in 1..n : copied[i] = s[i]
    <3>1. n \in Nat /\ n <= Len(s)
      BY <2>1
    <3>. HIDE DEF s
    <3>. QED
      BY <2>1, <3>1
  <2>4. files' = Append(files, x)
    BY <2>2
  <2>5. /\ files[f].meta /\ Len(files) < MaxHistory /\ turns' = turns /\ today' = today
    BY <1>5 DEF Usage!Archive
  <2>. HIDE DEF copied
  <2>6. x \in SessionFile /\ x.meta /\ x.events = copied /\ x.id = files[f].id /\ x.fork = files[f].fork
    BY <2>1, <2>3, <2>5 DEF SessionFile, Events
  <2>. HIDE DEF x
  <2>7. NewFile(files, x, f)
    BY <2>1, <2>3, <2>5, <2>6 DEF NewFile, TurnsOf, Begins
  <2>. QED
    BY <2>4, <2>5, <2>6, <2>7, <1>a
<1>6. ASSUME NEW f \in 1..Len(files), Usage!LoseMetadata(f) PROVE UsageInv'
  <2>1. /\ files[f].meta /\ files[f].fork = 0
        /\ \A g \in 1..Len(files) : g # f => files[g].id # files[f].id /\ files[g].fork # files[f].id
        /\ files' = [files EXCEPT ![f].meta = FALSE] /\ turns' = turns /\ today' = today
    BY <1>0, <1>6 DEF Usage!LoseMetadata, Usage!None
  <2>2. HistoryOf(files', turns')
    BY <2>1, <1>0, MetadataIsLost
  <2>3. Len(files') = Len(files)
    BY <2>1, <1>0
  <2>. QED
    BY <2>1, <2>2, <2>3, <1>0 DEF UsageInv
<1>7. CASE UNCHANGED Usage!vars
  BY <1>7 DEF Usage!vars, UsageInv
<1>. QED
  BY <1>0, <1>1, <1>2, <1>3, <1>4, <1>5, <1>6, <1>7 DEF Usage!Next

\* The i-th file that is scanned is the i-th newest.
ScannedNumber == IF Len(files) < MaxScanned THEN Len(files) ELSE MaxScanned
Place(i) == Len(files) - i + 1
FileAt(i) == files[Place(i)]

LEMMA ScannedAre ==
  ASSUME UsageInv
  PROVE  /\ ScannedNumber \in Nat /\ DOMAIN Usage!Scanned = 1..ScannedNumber
         /\ \A i \in 1..ScannedNumber :
              /\ Usage!Scanned[i] = FileAt(i) /\ Place(i) \in 1..Len(files)
              /\ FileAt(i) \in SessionFile /\ FileOf(files, Place(i), turns)
              /\ FileAt(i).id \in 1..Len(files) /\ FileAt(i).fork \in Nat /\ FileAt(i).meta \in BOOLEAN
              /\ FileAt(i).events \in Events /\ Len(FileAt(i).events) \in Nat
         /\ \A i, j \in 1..ScannedNumber : Place(i) = Place(j) => i = j
<1>1. /\ files \in Seq(SessionFile) /\ Len(files) \in Nat /\ MaxScanned \in Nat
      /\ \A f \in 1..Len(files) : FileOf(files, f, turns)
  BY HistoryAssumption DEF UsageInv, HistoryOf
<1>2. ScannedNumber \in Nat /\ ScannedNumber <= Len(files)
  BY <1>1 DEF ScannedNumber
<1>3. Usage!Scanned = [i \in 1..ScannedNumber |-> FileAt(i)]
  BY DEF Usage!Scanned, ScannedNumber, FileAt, Place
<1>4. ASSUME NEW i \in 1..ScannedNumber PROVE Place(i) \in 1..Len(files) /\ Place(i) \in Nat
  BY <1>1, <1>2 DEF Place
<1>5. ASSUME NEW i \in 1..ScannedNumber
      PROVE  /\ FileAt(i) \in SessionFile /\ FileOf(files, Place(i), turns)
             /\ FileAt(i).id \in 1..Len(files) /\ FileAt(i).fork \in Nat /\ FileAt(i).meta \in BOOLEAN
             /\ FileAt(i).events \in Events /\ Len(FileAt(i).events) \in Nat
  <2>1. Place(i) \in 1..Len(files) /\ Place(i) \in Nat
    BY <1>4
  <2>2. /\ FileAt(i) \in SessionFile /\ FileAt(i).id \in Nat \ {0} /\ FileAt(i).fork \in Nat
        /\ FileAt(i).meta \in BOOLEAN /\ FileAt(i).events \in Events /\ Len(FileAt(i).events) \in Nat
    BY <2>1, <1>1, FilesAre DEF FileAt
  <2>3. FileOf(files, Place(i), turns) /\ FileAt(i).id <= Place(i)
    BY <2>1, <1>1 DEF FileOf, FileAt
  <2>. QED
    BY <2>1, <2>2, <2>3, <1>1
<1>6. \A i, j \in 1..ScannedNumber : Place(i) = Place(j) => i = j
  BY <1>1, <1>2 DEF Place
<1>. QED
  BY <1>2, <1>3, <1>4, <1>5, <1>6

LEMMA HistoriesAre ==
  ASSUME UsageInv, NEW i \in 1..ScannedNumber
  PROVE  /\ Usage!History(i).id = IF FileAt(i).meta THEN FileAt(i).id ELSE MaxHistory + i
         /\ Usage!History(i).fork = FileAt(i).fork
         /\ Usage!History(i).seen = Usage!Observations(FileAt(i).events)
         /\ Len(Usage!History(i).seen) = Len(FileAt(i).events)
         /\ Usage!History(i).id \in Nat
<1>1. /\ Usage!Scanned[i] = FileAt(i) /\ Len(FileAt(i).events) \in Nat /\ FileAt(i).id \in Nat
      /\ ScannedNumber \in Nat
  BY ScannedAre
<1>2. /\ Usage!History(i).id = IF FileAt(i).meta THEN FileAt(i).id ELSE MaxHistory + i
      /\ Usage!History(i).fork = FileAt(i).fork
      /\ Usage!History(i).seen = Usage!Observations(FileAt(i).events)
  BY <1>1, Zenon DEF Usage!History
<1>3. Len(Usage!Observations(FileAt(i).events)) = Len(FileAt(i).events)
  BY <1>1 DEF Usage!Observations
<1>4. i \in Nat /\ MaxHistory \in Nat
  BY <1>1, HistoryAssumption
<1>. QED
  BY <1>1, <1>2, <1>3, <1>4

\* A file that lost its first line is the only one of its session; the others are of the session
\* they name.
LEMMA SessionsAreTold ==
  ASSUME UsageInv, NEW i \in 1..ScannedNumber, NEW j \in 1..ScannedNumber
  PROVE  /\ Usage!History(i).id = Usage!History(j).id <=> FileAt(i).id = FileAt(j).id
         /\ FileAt(i).id = FileAt(j).id /\ ~FileAt(i).meta => i = j
<1>1. /\ FileAt(i).id \in 1..Len(files) /\ FileAt(j).id \in 1..Len(files)
      /\ Place(i) \in 1..Len(files) /\ Place(j) \in 1..Len(files)
      /\ FileOf(files, Place(i), turns) /\ FileOf(files, Place(j), turns)
      /\ Place(i) = Place(j) => i = j
      /\ FileAt(i).meta \in BOOLEAN /\ FileAt(j).meta \in BOOLEAN
  BY ScannedAre
<1>2. Len(files) \in Nat /\ Len(files) <= MaxHistory /\ MaxHistory \in Nat /\ i \in Nat \ {0} /\ j \in Nat \ {0}
  BY HistoryAssumption, ScannedAre DEF UsageInv, HistoryOf
<1>3. /\ FileAt(i).id = FileAt(j).id /\ ~FileAt(i).meta => i = j
      /\ FileAt(i).id = FileAt(j).id /\ ~FileAt(j).meta => i = j
  BY <1>1 DEF FileOf, FileAt
<1>4. /\ Usage!History(i).id = IF FileAt(i).meta THEN FileAt(i).id ELSE MaxHistory + i
      /\ Usage!History(j).id = IF FileAt(j).meta THEN FileAt(j).id ELSE MaxHistory + j
  BY HistoriesAre
<1>5. CASE FileAt(i).meta /\ FileAt(j).meta
  BY <1>3, <1>4, <1>5
<1>6. CASE ~FileAt(i).meta /\ FileAt(j).meta
  BY <1>1, <1>2, <1>3, <1>4, <1>6
<1>7. CASE FileAt(i).meta /\ ~FileAt(j).meta
  BY <1>1, <1>2, <1>3, <1>4, <1>7
<1>8. CASE ~FileAt(i).meta /\ ~FileAt(j).meta
  BY <1>1, <1>2, <1>3, <1>4, <1>8
<1>. QED
  BY <1>1, <1>5, <1>6, <1>7, <1>8

\* When each count has a total, an observation tells its turn, and its total is never nothing.
LEMMA ObservationsTell ==
  ASSUME NEW e \in Events, NEW n, Ascending(e, n), \A i \in 1..Len(e) : e[i].kind # "last",
         NEW k \in 1..Len(e)
  PROVE  /\ Usage!Observations(e)[k].day = e[k].day
         /\ Usage!Observations(e)[k].tokens = {e[k].turn}
         /\ Usage!Observations(e)[k].key = Usage!Total(e, k)
         /\ Usage!Observations(e)[k].key # {}
<1>1. Len(e) \in Nat /\ k \in Nat /\ 1 <= k /\ k <= Len(e) /\ \A i \in 1..Len(e) : e[i].turn \in Nat
  BY EventsAre DEF Event
<1>2. /\ Usage!Observations(e)[k].day = e[k].day
      /\ Usage!Observations(e)[k].tokens =
           IF e[k].kind = "total" THEN Usage!Total(e, k) \ Usage!PreviousTotal(e, k) ELSE {e[k].turn}
      /\ Usage!Observations(e)[k].key = IF e[k].kind = "last" THEN {} ELSE Usage!Total(e, k)
  BY DEF Usage!Observations
<1>3. e[k].turn \in Usage!Total(e, k)
  BY <1>1 DEF Usage!Total
<1>4. Usage!PreviousTotal(e, k) = IF k = 1 THEN {} ELSE Usage!Total(e, k - 1)
  <2>. DEFINE with == {j \in 1..k - 1 : e[j].kind # "last"}
  <2>1. with = 1..(k - 1)
    BY <1>1
  <2>2. Usage!PreviousTotal(e, k) =
          IF with = {} THEN {} ELSE Usage!Total(e, CHOOSE j \in with : \A l \in with : l <= j)
    BY DEF Usage!PreviousTotal
  <2>. HIDE DEF with
  <2>3. CASE k = 1
    BY <2>1, <2>2, <2>3
  <2>4. CASE k # 1
    <3>1. with # {} /\ k - 1 \in with /\ \A l \in with : l <= k - 1
      BY <2>1, <2>4, <1>1
    <3>2. (CHOOSE j \in with : \A l \in with : l <= j) = k - 1
      <4>. DEFINE c == CHOOSE j \in with : \A l \in with : l <= j
      <4>1. c \in with /\ \A l \in with : l <= c
        BY <3>1, Zenon
      <4>. HIDE DEF c
      <4>2. c = k - 1
        BY <4>1, <3>1, <2>1, <1>1
      <4>. QED
        BY <4>2 DEF c
    <3>. QED
      BY <2>2, <2>4, <3>1, <3>2
  <2>. QED
    BY <2>3, <2>4
<1>5. Usage!Total(e, k) \ Usage!PreviousTotal(e, k) = {e[k].turn}
  <2>1. CASE k = 1
    BY <2>1, <1>4 DEF Usage!Total
  <2>2. CASE k # 1
    <3>1. \A j \in 1..k : j = k \/ j \in 1..(k - 1)
      BY <1>1
    <3>2. \A j \in 1..(k - 1) : e[j].turn < e[k].turn /\ e[j].turn \in Nat /\ j \in 1..k
      BY <1>1 DEF Ascending
    <3>3. e[k].turn \notin Usage!Total(e, k - 1)
      BY <3>2, <1>1 DEF Usage!Total
    <3>4. Usage!Total(e, k) = Usage!Total(e, k - 1) \cup {e[k].turn}
      BY <3>1, <3>2, <1>1 DEF Usage!Total
    <3>. QED
      BY <2>2, <3>3, <3>4, <1>4
  <2>. QED
    BY <2>1, <2>2
<1>. QED
  BY <1>2, <1>3, <1>5

\* Equal totals are those of one turn.
LEMMA TotalsTell ==
  ASSUME NEW fs \in Seq(SessionFile), SameBefore(fs), NEW f \in 1..Len(fs), NEW g \in 1..Len(fs),
         NEW i \in 1..Len(fs[f].events), NEW j \in 1..Len(fs[g].events)
  PROVE  Usage!Total(fs[f].events, i) = Usage!Total(fs[g].events, j) <=> Shared(fs, f, i, g, j)
<1>0. Len(fs[f].events) \in Nat /\ Len(fs[g].events) \in Nat /\ i \in 1..i /\ j \in 1..j
  BY FilesAre
<1>1. \A k \in 1..Len(fs[f].events), l \in 1..Len(fs[g].events) :
         Shared(fs, f, k, g, l) => k = l /\ \A m \in 1..k : Shared(fs, f, m, g, m)
  BY Zenon DEF SameBefore
<1>2. ASSUME Shared(fs, f, i, g, j) PROVE Usage!Total(fs[f].events, i) = Usage!Total(fs[g].events, j)
  <2>1. i = j /\ \A m \in 1..i : fs[f].events[m].turn = fs[g].events[m].turn
    BY <1>1, <1>2 DEF Shared
  <2>. QED
    BY <2>1 DEF Usage!Total
<1>3. ASSUME Usage!Total(fs[f].events, i) = Usage!Total(fs[g].events, j) PROVE Shared(fs, f, i, g, j)
  <2>1. PICK l \in 1..j : fs[f].events[i].turn = fs[g].events[l].turn
    <3>1. fs[f].events[i].turn \in Usage!Total(fs[f].events, i)
      BY <1>0 DEF Usage!Total
    <3>2. fs[f].events[i].turn \in Usage!Total(fs[g].events, j)
      BY <1>3, <3>1
    <3>. QED
      BY <3>2 DEF Usage!Total
  <2>2. PICK k \in 1..i : fs[g].events[j].turn = fs[f].events[k].turn
    <3>1. fs[g].events[j].turn \in Usage!Total(fs[g].events, j)
      BY <1>0 DEF Usage!Total
    <3>2. fs[g].events[j].turn \in Usage!Total(fs[f].events, i)
      BY <1>3, <3>1
    <3>. QED
      BY <3>2 DEF Usage!Total
  <2>3. l \in 1..Len(fs[g].events) /\ k \in 1..Len(fs[f].events)
    BY <1>0
  <2>4. i = l
    BY <2>1, <2>3, <1>1 DEF Shared
  <2>5. k = j
    BY <2>2, <2>3, <1>1 DEF Shared
  <2>6. i = j
    BY <2>4, <2>5, <1>0
  <2>. QED
    BY <2>1, <2>4, <2>6 DEF Shared
<1>. QED
  BY <1>2, <1>3

Best(i) ==
  \A j \in 1..ScannedNumber : Usage!History(j).id = Usage!History(i).id =>
    /\ ~Usage!Heavier(Usage!History(j), Usage!History(i))
    /\ j < i => Usage!Heavier(Usage!History(i), Usage!History(j))

LEMMA SelectedAre ==
  ASSUME UsageInv
  PROVE  Usage!Selected = {Usage!History(i) : i \in {j \in 1..ScannedNumber : Best(j)}}
<1>1. DOMAIN Usage!Scanned = 1..ScannedNumber
  BY ScannedAre
<1>. QED
  BY <1>1 DEF Usage!Selected, Best

\* The files of a session begin alike, so the one that is longer is the heavier one.
LEMMA HeavierIsLonger ==
  ASSUME UsageInv, NEW i \in 1..ScannedNumber, NEW j \in 1..ScannedNumber, FileAt(i).id = FileAt(j).id
  PROVE  Usage!Heavier(Usage!History(i), Usage!History(j)) <=> Len(FileAt(i).events) > Len(FileAt(j).events)
<1>. DEFINE e == FileAt(i).events
            d == FileAt(j).events
            o == files[FileAt(i).id].events
<1>1. /\ e \in Seq(Event) /\ d \in Seq(Event) /\ Len(e) \in Nat /\ Len(d) \in Nat
      /\ FileOf(files, Place(i), turns) /\ FileOf(files, Place(j), turns)
  BY ScannedAre DEF Events
<1>2. Begins(e, o) /\ Begins(d, o)
  BY <1>1 DEF FileOf, FileAt
<1>3. /\ Len(Usage!History(i).seen) = Len(e) /\ Len(Usage!History(j).seen) = Len(d)
      /\ Usage!History(i).seen = Usage!Observations(e) /\ Usage!History(j).seen = Usage!Observations(d)
  BY HistoriesAre
<1>4. ASSUME Len(e) = Len(d) PROVE Usage!Tokens(Usage!History(i)) = Usage!Tokens(Usage!History(j))
  <2>1. \A k \in 1..Len(e) : e[k] = d[k]
    BY <1>2, <1>4 DEF Begins
  <2>2. e = d
    <3>. HIDE DEF e, d
    <3>. QED
      BY <2>1, <1>1, <1>4, SeqEqual
  <2>3. Usage!History(i).seen = Usage!History(j).seen
    BY <1>3, <2>2
  <2>. QED
    BY <2>3 DEF Usage!Tokens
<1>. HIDE DEF e, d, o
<1>5. CASE Len(e) = Len(d)
  BY <1>1, <1>3, <1>4, <1>5 DEF Usage!Heavier, e, d
<1>6. CASE Len(e) # Len(d)
  <2>1. Usage!Heavier(Usage!History(i), Usage!History(j)) <=> Len(e) > Len(d)
    BY <1>1, <1>3, <1>6 DEF Usage!Heavier
  <2>. QED
    BY <2>1 DEF e, d
<1>. QED
  BY <1>5, <1>6

LEMMA OneIsSelected ==
  ASSUME UsageInv, NEW i \in 1..ScannedNumber, NEW j \in 1..ScannedNumber, Best(i), Best(j),
         FileAt(i).id = FileAt(j).id
  PROVE  i = j
<1>1. Usage!History(i).id = Usage!History(j).id
  BY SessionsAreTold
<1>2. ~(i < j) /\ ~(j < i)
  BY <1>1, Zenon DEF Best
<1>. QED
  BY <1>2, ScannedAre

LEMMA LongestIsSelected ==
  ASSUME UsageInv, NEW i \in 1..ScannedNumber
  PROVE  \E b \in 1..ScannedNumber :
           Best(b) /\ FileAt(b).id = FileAt(i).id /\ Begins(FileAt(i).events, FileAt(b).events)
<1>. DEFINE o == files[FileAt(i).id].events
            Same == {j \in 1..ScannedNumber : FileAt(j).id = FileAt(i).id}
            Length(j) == Len(FileAt(j).events)
            Short == {Len(o) - Length(j) : j \in Same}
<1>0. ScannedNumber \in Nat /\ i \in Same
  BY ScannedAre
<1>1. \A j \in Same : Begins(FileAt(j).events, o) /\ Length(j) \in Nat
  BY ScannedAre DEF FileOf, FileAt
<1>2. Len(o) \in Nat
  <2>1. FileAt(i).id \in 1..Len(files) /\ files \in Seq(SessionFile)
    BY ScannedAre DEF UsageInv, HistoryOf
  <2>. QED
    BY <2>1, FilesAre
<1>3. \A j \in Same : Length(j) <= Len(o)
  BY <1>1 DEF Begins
<1>. HIDE DEF o, Same, Length
<1>4. Short \in SUBSET Nat /\ Short # {}
  BY <1>0, <1>1, <1>2, <1>3
<1>5. PICK s \in Short : \A t \in Short : s <= t
  <2>. HIDE DEF Short
  <2>. QED
    BY <1>4, Smallest
<1>6. PICK l \in Same : \A j \in Same : Length(j) <= Length(l)
  <2>1. PICK l \in Same : s = Len(o) - Length(l)
    BY <1>5
  <2>2. \A j \in Same : s <= Len(o) - Length(j)
    BY <1>5
  <2>. QED
    BY <1>1, <1>2, <2>1, <2>2
<1>. DEFINE Longest == {j \in Same : Length(j) = Length(l)}
<1>7. Longest \in SUBSET Nat /\ Longest # {}
  BY <1>0, <1>6 DEF Same
<1>8. PICK b \in Longest : \A j \in Longest : b <= j
  <2>. HIDE DEF Longest
  <2>. QED
    BY <1>7, Smallest
<1>9. b \in 1..ScannedNumber /\ FileAt(b).id = FileAt(i).id /\ b \in Same /\ b \in Nat
  BY <1>0, <1>7, <1>8 DEF Same
<1>10. Best(b)
  <2>1. ASSUME NEW j \in 1..ScannedNumber, Usage!History(j).id = Usage!History(b).id
        PROVE  /\ ~Usage!Heavier(Usage!History(j), Usage!History(b))
               /\ j < b => Usage!Heavier(Usage!History(b), Usage!History(j))
    <3>1. FileAt(j).id = FileAt(b).id /\ j \in Same
      BY <2>1, <1>9, SessionsAreTold DEF Same
    <3>2. /\ Usage!Heavier(Usage!History(j), Usage!History(b)) <=> Length(j) > Length(b)
          /\ Usage!Heavier(Usage!History(b), Usage!History(j)) <=> Length(b) > Length(j)
      BY <3>1, <1>9, HeavierIsLonger DEF Length
    <3>3. Length(j) <= Length(b) /\ Length(j) \in Nat /\ Length(b) \in Nat
      BY <3>1, <1>1, <1>6, <1>8, <1>9
    <3>4. j < b => Length(j) # Length(b)
      BY <3>1, <1>0, <1>8, <1>9
    <3>. QED
      BY <3>2, <3>3, <3>4
  <2>. QED
    BY <2>1 DEF Best
<1>11. Begins(FileAt(i).events, FileAt(b).events)
  <2>1. Begins(FileAt(i).events, o) /\ Begins(FileAt(b).events, o) /\ Length(i) <= Length(b)
        /\ Length(i) \in Nat /\ Length(b) \in Nat
    BY <1>0, <1>1, <1>6, <1>8, <1>9
  <2>2. Length(i) = Len(FileAt(i).events) /\ Length(b) = Len(FileAt(b).events)
    BY DEF Length
  <2>3. \A k \in 1..Len(FileAt(i).events) : k \in 1..Len(FileAt(b).events)
    BY <2>1, <2>2
  <2>. QED
    BY <2>1, <2>2, <2>3 DEF Begins
<1>. QED
  BY <1>9, <1>10, <1>11

Forks == {h \in Usage!Selected : h.fork # 0}
Lineage == Usage!Parents(Usage!Selected)

LEMMA LineageIs ==
  ASSUME UsageInv
  PROVE  /\ \A b \in 1..ScannedNumber : Best(b) /\ FileAt(b).fork # 0 =>
              /\ FileAt(b).id \in DOMAIN Lineage /\ Lineage[FileAt(b).id] = FileAt(b).fork
              /\ FileAt(b).meta /\ Usage!History(b).id = FileAt(b).id
         /\ \A id \in DOMAIN Lineage : \E b \in 1..ScannedNumber :
              Best(b) /\ FileAt(b).fork # 0 /\ FileAt(b).id = id
<1>1. Lineage = [id \in {h.id : h \in Forks} |-> (CHOOSE h \in Forks : h.id = id).fork]
  BY DEF Lineage, Usage!Parents, Forks, Usage!None
<1>2. ASSUME NEW b \in 1..ScannedNumber, Best(b), FileAt(b).fork # 0
      PROVE  Usage!History(b) \in Forks /\ Usage!History(b).id = FileAt(b).id /\ FileAt(b).meta
  <2>1. FileAt(b).meta /\ Usage!History(b).fork = FileAt(b).fork
    BY <1>2, ScannedAre, HistoriesAre DEF FileOf, FileAt
  <2>2. Usage!History(b) \in Usage!Selected
    BY <1>2, SelectedAre
  <2>. QED
    BY <1>2, <2>1, <2>2, HistoriesAre DEF Forks
<1>3. ASSUME NEW h \in Forks
      PROVE  \E b \in 1..ScannedNumber : Best(b) /\ FileAt(b).fork # 0 /\ h = Usage!History(b)
  <2>1. PICK b \in 1..ScannedNumber : Best(b) /\ h = Usage!History(b)
    BY SelectedAre DEF Forks
  <2>. QED
    BY <2>1, HistoriesAre DEF Forks
<1>4. ASSUME NEW b \in 1..ScannedNumber, Best(b), FileAt(b).fork # 0
      PROVE  FileAt(b).id \in DOMAIN Lineage /\ Lineage[FileAt(b).id] = FileAt(b).fork
  <2>. DEFINE c == CHOOSE h \in Forks : h.id = FileAt(b).id
  <2>1. Usage!History(b) \in Forks /\ Usage!History(b).id = FileAt(b).id
    BY <1>2, <1>4
  <2>2. c \in Forks /\ c.id = FileAt(b).id
    BY <2>1, Zenon
  <2>3. FileAt(b).id \in DOMAIN Lineage /\ Lineage[FileAt(b).id] = c.fork
    BY <1>1, <2>1
  <2>. HIDE DEF c
  <2>4. PICK d \in 1..ScannedNumber : Best(d) /\ FileAt(d).fork # 0 /\ c = Usage!History(d)
    BY <1>3, <2>2
  <2>5. FileAt(d).id = FileAt(b).id
    BY <2>2, <2>4, <1>2
  <2>6. d = b
    BY <2>4, <2>5, <1>4, OneIsSelected
  <2>. QED
    BY <2>3, <2>4, <2>6, HistoriesAre
<1>5. ASSUME NEW id \in DOMAIN Lineage
      PROVE  \E b \in 1..ScannedNumber : Best(b) /\ FileAt(b).fork # 0 /\ FileAt(b).id = id
  <2>1. PICK h \in Forks : h.id = id
    BY <1>1
  <2>2. PICK b \in 1..ScannedNumber : Best(b) /\ FileAt(b).fork # 0 /\ h = Usage!History(b)
    BY <1>3
  <2>. QED
    BY <2>1, <2>2, <1>2
<1>. QED
  BY <1>2, <1>4, <1>5

\* The way up, from every id to n.
UpTo(parent, n, u) == u = [i \in 0..n |-> IF i \in DOMAIN parent THEN u[parent[i]] ELSE i]

LEMMA LineagesCanBeClimbed ==
  ASSUME NEW parent, \A i \in DOMAIN parent : i \in Nat /\ parent[i] \in Nat /\ parent[i] < i, NEW n \in Nat
  PROVE  \E u : UpTo(parent, n, u)
<1>. DEFINE S == {k \in Nat : \E u : UpTo(parent, k, u)}
<1>1. 0 \in S
  <2>. DEFINE u == [i \in 0..0 |-> i]
  <2>1. \A i \in 0..0 : i \notin DOMAIN parent
    OBVIOUS
  <2>2. UpTo(parent, 0, u)
    BY <2>1 DEF UpTo
  <2>. QED
    BY <2>2
<1>2. ASSUME NEW k \in S PROVE k + 1 \in S
  <2>1. PICK u : UpTo(parent, k, u)
    OBVIOUS
  <2>0. k \in Nat
    OBVIOUS
  <2>. HIDE DEF S
  <2>9. PICK v : v = IF k + 1 \in DOMAIN parent THEN u[parent[k + 1]] ELSE k + 1
    OBVIOUS
  <2>. DEFINE w == [i \in 0..(k + 1) |-> IF i = k + 1 THEN v ELSE u[i]]
  <2>2. \A i \in 0..k : u[i] = IF i \in DOMAIN parent THEN u[parent[i]] ELSE i
    BY <2>1, Zenon DEF UpTo
  <2>3. \A i \in 0..k : w[i] = u[i]
    BY <2>0
  <2>4. w[k + 1] = v
    BY <2>0
  <2>5. ASSUME NEW i \in 0..(k + 1) PROVE w[i] = IF i \in DOMAIN parent THEN w[parent[i]] ELSE i
    <3>. HIDE DEF w
    <3>1. i \in DOMAIN parent => parent[i] \in 0..k
      BY <2>0
    <3>2. i \in DOMAIN parent => w[parent[i]] = u[parent[i]]
      BY <3>1, <2>3
    <3>3. CASE i = k + 1
      BY <2>4, <2>9, <3>2, <3>3
    <3>4. CASE i \in 0..k
      BY <2>2, <2>3, <3>2, <3>4
    <3>5. i = k + 1 \/ i \in 0..k
      BY <2>0
    <3>. QED
      BY <3>3, <3>4, <3>5, Zenon
  <2>6. w = [i \in 0..(k + 1) |-> w[i]]
    OBVIOUS
  <2>7. k + 1 \in Nat
    BY <2>0
  <2>8. UpTo(parent, k + 1, w)
    <3>. HIDE DEF w
    <3>. QED
      BY <2>5, <2>6, Zenon DEF UpTo
  <2>. QED
    BY <2>7, <2>8, Zenon DEF S
<1>. HIDE DEF S
<1>3. S = Nat
  <2>1. S \in SUBSET Nat
    BY DEF S
  <2>. QED
    BY <1>1, <1>2, <2>1, NumbersFromZero
<1>. QED
  BY <1>3 DEF S

LEMMA RootIs ==
  ASSUME NEW parent, \A i \in DOMAIN parent : i \in Nat /\ parent[i] \in Nat /\ parent[i] < i, NEW id \in Nat
  PROVE  \E u : /\ \A i \in 0..id : u[i] = IF i \in DOMAIN parent THEN u[parent[i]] ELSE i
                /\ Usage!RootOf(parent, id) = u[id]
<1>. DEFINE f == CHOOSE u : u = [i \in 0..id |-> IF i \in DOMAIN parent THEN u[parent[i]] ELSE i]
<1>1. Usage!RootOf(parent, id) = f[id]
  BY DEF Usage!RootOf
<1>2. \E u : UpTo(parent, id, u)
  <2>. HIDE DEF f
  <2>. QED
    BY LineagesCanBeClimbed
<1>3. f = [i \in 0..id |-> IF i \in DOMAIN parent THEN f[parent[i]] ELSE i]
  BY <1>2, Zenon DEF UpTo
<1>. HIDE DEF f
<1>4. \A i \in 0..id : f[i] = IF i \in DOMAIN parent THEN f[parent[i]] ELSE i
  BY <1>3, Zenon
<1>. QED
  BY <1>1, <1>4

\* The root of a session that is read is its first ancestor; a file without metadata is its own.
LEMMA RootsAreAncestors ==
  ASSUME UsageInv, Usage!LineagesAreRead, NEW r, Kin(files, r), NEW b \in 1..ScannedNumber, Best(b)
  PROVE  Usage!RootOf(Lineage, Usage!History(b).id) =
           IF FileAt(b).meta THEN r[FileAt(b).id] ELSE Usage!History(b).id
<1>0. /\ files \in Seq(SessionFile) /\ Len(files) \in Nat /\ Len(files) <= MaxHistory
      /\ MaxHistory \in Nat /\ ScannedNumber \in Nat
      /\ \A f \in 1..Len(files) : FileOf(files, f, turns)
      /\ \A f \in 1..Len(files) : files[f].id \in Nat \ {0} /\ files[f].fork \in Nat
  BY HistoryAssumption, ScannedAre, FilesAre DEF UsageInv, HistoryOf
<1>1. \A id \in DOMAIN Lineage : \E c \in 1..ScannedNumber :
        Best(c) /\ FileAt(c).fork # 0 /\ FileAt(c).id = id
  BY LineageIs
<1>2. \A i \in DOMAIN Lineage : i \in Nat /\ i <= Len(files) /\ Lineage[i] \in Nat /\ Lineage[i] < i
  <2>1. ASSUME NEW i \in DOMAIN Lineage
        PROVE  i \in Nat /\ i <= Len(files) /\ Lineage[i] \in Nat /\ Lineage[i] < i
    <3>1. PICK c \in 1..ScannedNumber : Best(c) /\ FileAt(c).fork # 0 /\ FileAt(c).id = i
      BY <1>1
    <3>2. Lineage[i] = FileAt(c).fork
      BY <3>1, LineageIs
    <3>3. FileAt(c).fork \in Nat /\ FileAt(c).id \in 1..Len(files) /\ FileAt(c).fork < FileAt(c).id
      BY <3>1, ScannedAre DEF FileOf, FileAt
    <3>. QED
      BY <3>1, <3>2, <3>3, <1>0
  <2>. QED
    BY <2>1
<1>3. Usage!History(b).id \in Nat
  BY HistoriesAre
<1>4. PICK u : /\ \A i \in 0..Usage!History(b).id : u[i] = IF i \in DOMAIN Lineage THEN u[Lineage[i]] ELSE i
               /\ Usage!RootOf(Lineage, Usage!History(b).id) = u[Usage!History(b).id]
  BY <1>2, <1>3, RootIs
<1>5. CASE ~FileAt(b).meta
  <2>1. Usage!History(b).id = MaxHistory + b /\ b \in Nat \ {0}
    BY <1>0, <1>5, HistoriesAre
  <2>2. Usage!History(b).id \notin DOMAIN Lineage
    BY <2>1, <1>0, <1>2
  <2>3. Usage!History(b).id \in 0..Usage!History(b).id
    BY <1>3
  <2>. QED
    BY <1>4, <1>5, <2>2, <2>3
<1>6. CASE FileAt(b).meta
  <2>. DEFINE Read(id) ==
                /\ id \in 1..Len(files) /\ files[id].id = id /\ files[id].meta
                /\ files[id].fork = 0 \/ \E i \in 1..ScannedNumber : FileAt(i).id = id
              S == {id \in 1..FileAt(b).id : Read(id) /\ u[id] # r[id]}
  <2>1. FileAt(b).id = Usage!History(b).id /\ FileAt(b).id \in 1..Len(files)
    BY <1>6, HistoriesAre, ScannedAre
  <2>2. Read(FileAt(b).id)
    <3>1. files[FileAt(b).id].id = FileAt(b).id
      BY ScannedAre DEF FileOf, FileAt
    <3>2. files[FileAt(b).id].meta
      <4>1. ~files[FileAt(b).id].meta => Place(b) = FileAt(b).id
        BY <2>1, <3>1, <1>0, ScannedAre DEF FileOf, FileAt
      <4>. QED
        BY <4>1, <1>6, <2>1, <1>0, FilesAre DEF FileAt
    <3>. QED
      BY <2>1, <3>1, <3>2
  <2>3. \A g \in 1..Len(files) : r[files[g].id] = IF files[g].fork = 0 THEN files[g].id ELSE r[files[g].fork]
    BY DEF Kin
  <2>4. ASSUME NEW id \in S, \A k \in S : id <= k PROVE FALSE
    <3>1. /\ Read(id) /\ u[id] # r[id] /\ id \in Nat /\ id \in 1..Len(files)
          /\ id <= FileAt(b).id /\ id \in 0..Usage!History(b).id /\ 0 < id
      BY <1>0, <2>1
    <3>2. u[id] = IF id \in DOMAIN Lineage THEN u[Lineage[id]] ELSE id
      BY <1>4, <3>1
    <3>3. CASE files[id].fork = 0
      <4>1. r[id] = id
        BY <2>3, <3>1, <3>3
      <4>2. id \notin DOMAIN Lineage
        <5>1. ASSUME id \in DOMAIN Lineage PROVE FALSE
          <6>1. PICK c \in 1..ScannedNumber : Best(c) /\ FileAt(c).fork # 0 /\ FileAt(c).id = id
            BY <5>1, <1>1
          <6>2. files[id].fork = FileAt(c).fork
            BY <6>1, ScannedAre DEF FileOf, FileAt
          <6>. QED
            BY <3>3, <6>1, <6>2
        <5>. QED
          BY <5>1
      <4>. QED
        BY <3>1, <3>2, <4>1, <4>2
    <3>4. CASE files[id].fork # 0
      <4>. DEFINE p == files[id].fork
      <4>1. PICK i \in 1..ScannedNumber : FileAt(i).id = id
        BY <3>1, <3>4
      <4>2. FileAt(i).fork = p /\ FileAt(i).fork # 0
        BY <4>1, <3>4, ScannedAre DEF FileOf, FileAt
      <4>3. PICK c \in 1..ScannedNumber : Best(c) /\ FileAt(c).id = id
        BY <4>1, LongestIsSelected
      <4>4. FileAt(c).fork = p
        BY <4>3, ScannedAre DEF FileOf, FileAt
      <4>5. id \in DOMAIN Lineage /\ Lineage[id] = p
        BY <3>4, <4>3, <4>4, LineageIs
      <4>6. p \in Nat /\ p < id /\ p # 0 /\ files[p].id = p
        BY <3>1, <3>4, <1>0 DEF FileOf
      <4>7. p \in 1..Len(files) /\ p \in 1..FileAt(b).id
        BY <4>6, <3>1, <2>1, <1>0
      <4>8. r[id] = r[p]
        BY <2>3, <3>1, <3>4
      <4>9. files[p].meta
        <5>1. ASSUME ~files[p].meta PROVE FALSE
          <6>1. files[p].fork = 0
            BY <5>1, <4>7, <1>0 DEF FileOf
          <6>2. r[p] = p
            BY <6>1, <4>6, <4>7, <2>3
          <6>3. r[files[id].id] # files[p].id
            <7>1. files[id].id # files[p].id
              BY <3>1, <4>6
            <7>. QED
              BY <7>1, <5>1, <3>1, <4>7 DEF Kin
          <6>. QED
            BY <6>2, <6>3, <4>6, <4>8, <3>1
        <5>. QED
          BY <5>1
      <4>10. files[p].fork = 0 \/ \E j \in 1..ScannedNumber : FileAt(j).id = p
        <5>1. \/ \E j \in DOMAIN Usage!Scanned : Usage!Scanned[j].id = Usage!Scanned[i].fork
              \/ \A f \in DOMAIN files : files[f].id = Usage!Scanned[i].fork => files[f].fork = 0
          <6>1. i \in DOMAIN Usage!Scanned /\ Usage!Scanned[i].fork # 0
            BY <4>2, ScannedAre
          <6>. QED
            BY <6>1 DEF Usage!LineagesAreRead, Usage!None
        <5>2. Usage!Scanned[i].fork = p /\ p \in DOMAIN files
          BY <4>2, <4>7, <1>0, ScannedAre
        <5>3. CASE \E j \in DOMAIN Usage!Scanned : Usage!Scanned[j].id = p
          BY <5>3, ScannedAre
        <5>4. CASE \A f \in DOMAIN files : files[f].id = p => files[f].fork = 0
          BY <5>2, <5>4, <4>6
        <5>. QED
          BY <5>1, <5>2, <5>3, <5>4
      <4>11. Read(p)
        BY <4>6, <4>7, <4>9, <4>10
      <4>12. u[p] = r[p]
        <5>1. ASSUME u[p] # r[p] PROVE FALSE
          <6>1. p \in S
            BY <5>1, <4>7, <4>11
          <6>2. id <= p
            BY <6>1, <2>4
          <6>. QED
            BY <6>2, <4>6, <3>1
        <5>. QED
          BY <5>1
      <4>. QED
        BY <3>1, <3>2, <4>5, <4>8, <4>12
    <3>. QED
      BY <3>3, <3>4
  <2>5. S = {}
    <3>1. S \in SUBSET Nat
      OBVIOUS
    <3>. HIDE DEF S
    <3>. QED
      BY <2>4, <3>1, Smallest
  <2>6. FileAt(b).id \in 1..FileAt(b).id
    BY <2>1, <1>0
  <2>7. u[FileAt(b).id] = r[FileAt(b).id]
    BY <2>2, <2>5, <2>6
  <2>. QED
    BY <1>4, <1>6, <2>1, <2>7
<1>. QED
  BY <1>5, <1>6

Observation(b, k) == <<Usage!History(b), k>>
Tells(b, k) == b \in 1..ScannedNumber /\ Best(b) /\ k \in 1..Len(FileAt(b).events)
TurnAt(b, k) == FileAt(b).events[k].turn

LEMMA ObservedAre ==
  ASSUME UsageInv, Usage!HasTotals
  PROVE  /\ \A o : o \in Usage!Observed(1) <=> \E b, k : Tells(b, k) /\ o = Observation(b, k)
         /\ \A b, k : Tells(b, k) =>
              /\ Usage!TokensOf(Observation(b, k)) = {TurnAt(b, k)}
              /\ Usage!Key(Observation(b, k)) = Usage!Total(FileAt(b).events, k)
              /\ Usage!Key(Observation(b, k)) # {}
<1>1. ASSUME NEW b, NEW k, Tells(b, k)
      PROVE  /\ Usage!TokensOf(Observation(b, k)) = {TurnAt(b, k)}
             /\ Usage!Key(Observation(b, k)) = Usage!Total(FileAt(b).events, k)
             /\ Usage!Key(Observation(b, k)) # {}
             /\ Usage!History(b).seen[k].day >= 1
             /\ k \in 1..Len(Usage!History(b).seen)
  <2>1. b \in 1..ScannedNumber /\ k \in 1..Len(FileAt(b).events)
    BY <1>1 DEF Tells
  <2>2. /\ FileAt(b).events \in Events /\ Ascending(FileAt(b).events, turns) /\ Place(b) \in DOMAIN files
        /\ Len(FileAt(b).events) \in Nat
    BY <2>1, ScannedAre DEF FileOf, FileAt, UsageInv, HistoryOf
  <2>3. \A i \in 1..Len(FileAt(b).events) : FileAt(b).events[i].kind # "last"
    BY <2>2 DEF Usage!HasTotals, FileAt
  <2>4. /\ Usage!History(b).seen = Usage!Observations(FileAt(b).events)
        /\ Len(Usage!History(b).seen) = Len(FileAt(b).events)
    BY <2>1, HistoriesAre
  <2>5. /\ Usage!Observations(FileAt(b).events)[k].day = FileAt(b).events[k].day
        /\ Usage!Observations(FileAt(b).events)[k].tokens = {FileAt(b).events[k].turn}
        /\ Usage!Observations(FileAt(b).events)[k].key = Usage!Total(FileAt(b).events, k)
        /\ Usage!Observations(FileAt(b).events)[k].key # {}
    BY <2>1, <2>2, <2>3, ObservationsTell
  <2>6. FileAt(b).events[k].day \in Nat \ {0}
    BY <2>1, <2>2, EventsAre DEF Event
  <2>7. Observation(b, k)[1] = Usage!History(b) /\ Observation(b, k)[2] = k
    BY DEF Observation
  <2>. QED
    BY <2>1, <2>4, <2>5, <2>6, <2>7 DEF Usage!TokensOf, Usage!Key, TurnAt
<1>2. ASSUME NEW o \in Usage!Observed(1) PROVE \E b, k : Tells(b, k) /\ o = Observation(b, k)
  <2>1. PICK h \in Usage!Selected :
          o \in {<<h, i>> : i \in {j \in 1..Len(h.seen) : h.seen[j].day >= 1}}
    BY DEF Usage!Observed
  <2>2. PICK k \in 1..Len(h.seen) : o = <<h, k>>
    BY <2>1
  <2>3. PICK b \in 1..ScannedNumber : Best(b) /\ h = Usage!History(b)
    BY SelectedAre
  <2>4. Len(h.seen) = Len(FileAt(b).events)
    BY <2>3, HistoriesAre
  <2>. QED
    BY <2>2, <2>3, <2>4 DEF Tells, Observation
<1>3. ASSUME NEW b, NEW k, Tells(b, k) PROVE Observation(b, k) \in Usage!Observed(1)
  <2>1. Usage!History(b) \in Usage!Selected
    BY <1>3, SelectedAre DEF Tells
  <2>2. k \in {j \in 1..Len(Usage!History(b).seen) : Usage!History(b).seen[j].day >= 1}
    BY <1>1, <1>3
  <2>. QED
    BY <2>1, <2>2 DEF Usage!Observed, Observation
<1>. QED
  BY <1>1, <1>2, <1>3

\* Observations of one turn have one key and one root.
LEMMA OneTurnOneRoot ==
  ASSUME UsageInv, Usage!HasTotals, Usage!LineagesAreRead, NEW b, NEW k, Tells(b, k), NEW c, NEW l, Tells(c, l)
  PROVE  /\ Usage!Key(Observation(b, k)) = Usage!Key(Observation(c, l)) <=> TurnAt(b, k) = TurnAt(c, l)
         /\ TurnAt(b, k) = TurnAt(c, l) =>
              /\ k = l
              /\ Usage!RootOf(Lineage, Usage!History(b).id) = Usage!RootOf(Lineage, Usage!History(c).id)
<1>1. /\ b \in 1..ScannedNumber /\ k \in 1..Len(files[Place(b)].events) /\ Best(b)
      /\ c \in 1..ScannedNumber /\ l \in 1..Len(files[Place(c)].events) /\ Best(c)
  BY DEF Tells, FileAt
<1>2. Place(b) \in 1..Len(files) /\ Place(c) \in 1..Len(files) /\ SameBefore(files) /\ files \in Seq(SessionFile)
  BY <1>1, ScannedAre DEF UsageInv, HistoryOf
<1>3. TurnAt(b, k) = TurnAt(c, l) <=> Shared(files, Place(b), k, Place(c), l)
  BY DEF TurnAt, FileAt, Shared
<1>4. Usage!Key(Observation(b, k)) = Usage!Key(Observation(c, l)) <=> TurnAt(b, k) = TurnAt(c, l)
  <2>1. /\ Usage!Key(Observation(b, k)) = Usage!Total(files[Place(b)].events, k)
        /\ Usage!Key(Observation(c, l)) = Usage!Total(files[Place(c)].events, l)
    BY ObservedAre DEF FileAt
  <2>. QED
    BY <2>1, <1>1, <1>2, <1>3, TotalsTell
<1>5. ASSUME TurnAt(b, k) = TurnAt(c, l)
      PROVE  /\ k = l
             /\ Usage!RootOf(Lineage, Usage!History(b).id) = Usage!RootOf(Lineage, Usage!History(c).id)
  <2>1. k = l
    BY <1>1, <1>2, <1>3, <1>5, Zenon DEF SameBefore
  <2>2. PICK r \in [1..Len(files) -> Nat] : Kin(files, r)
    BY DEF UsageInv, HistoryOf
  <2>3. r[FileAt(b).id] = r[FileAt(c).id]
    BY <1>1, <1>2, <1>3, <1>5, <2>2, Zenon DEF Kin, FileAt
  <2>4. /\ Usage!RootOf(Lineage, Usage!History(b).id) =
             IF FileAt(b).meta THEN r[FileAt(b).id] ELSE Usage!History(b).id
        /\ Usage!RootOf(Lineage, Usage!History(c).id) =
             IF FileAt(c).meta THEN r[FileAt(c).id] ELSE Usage!History(c).id
    BY <1>1, <2>2, RootsAreAncestors
  <2>5. ASSUME ~FileAt(b).meta \/ ~FileAt(c).meta PROVE b = c
    <3>1. FileAt(b).id = FileAt(c).id
      <4>1. /\ r[FileAt(b).id] = IF FileAt(b).fork = 0 THEN FileAt(b).id ELSE r[FileAt(b).fork]
            /\ r[FileAt(c).id] = IF FileAt(c).fork = 0 THEN FileAt(c).id ELSE r[FileAt(c).fork]
        BY <1>2, <2>2 DEF Kin, FileAt
      <4>2. /\ ~FileAt(b).meta => FileAt(b).fork = 0
            /\ ~FileAt(c).meta => FileAt(c).fork = 0
        BY <1>1, ScannedAre DEF FileOf, FileAt
      <4>3. /\ ~FileAt(b).meta /\ FileAt(c).id # FileAt(b).id => r[FileAt(c).id] # FileAt(b).id
            /\ ~FileAt(c).meta /\ FileAt(b).id # FileAt(c).id => r[FileAt(b).id] # FileAt(c).id
        BY <1>2, <2>2 DEF Kin, FileAt
      <4>. QED
        BY <2>3, <2>5, <4>1, <4>2, <4>3
    <3>. QED
      BY <3>1, <1>1, OneIsSelected
  <2>6. CASE FileAt(b).meta /\ FileAt(c).meta
    BY <2>1, <2>3, <2>4, <2>6
  <2>7. CASE ~FileAt(b).meta \/ ~FileAt(c).meta
    BY <2>1, <2>5, <2>7
  <2>. QED
    BY <2>6, <2>7
<1>. QED
  BY <1>4, <1>5

LEMMA ObservationsCountedTheSame == \A S : Usage!Cardinality(S) = Cardinality(S)
  BY DEF Usage!Cardinality, Cardinality, Usage!IsFiniteSet, IsFiniteSet

LEMMA TurnsAreCounted ==
  ASSUME UsageInv, Usage!HasTotals, Usage!LineagesAreRead, NEW t \in 1..turns
  PROVE  Cardinality({o \in Usage!Recorded(1) : t \in Usage!TokensOf(o)}) = IF t \in Usage!Told THEN 1 ELSE 0
<1>. DEFINE Of == {o \in Usage!Recorded(1) : t \in Usage!TokensOf(o)}
            Had(o) == \E b \in Usage!Observed(1) :
                        /\ Usage!Earlier(b, o) /\ Usage!Key(b) = Usage!Key(o)
                        /\ Usage!RootOf(Lineage, b[1].id) = Usage!RootOf(Lineage, o[1].id)
<1>1. Usage!Recorded(1) = {o \in Usage!Observed(1) : o[1].fork = 0 \/ Usage!Key(o) = {} \/ ~Had(o)}
  BY DEF Usage!Recorded, Lineage, Usage!None
<1>2. /\ \A o : o \in Usage!Observed(1) <=> \E b, k : Tells(b, k) /\ o = Observation(b, k)
      /\ \A b, k : Tells(b, k) =>
           /\ Usage!TokensOf(Observation(b, k)) = {TurnAt(b, k)} /\ Usage!Key(Observation(b, k)) # {}
  BY ObservedAre
<1>3. \A b, k : Observation(b, k)[1] = Usage!History(b) /\ Observation(b, k)[2] = k
  BY DEF Observation
<1>4. \A o : o \in Of <=> \E b, k : /\ Tells(b, k) /\ TurnAt(b, k) = t /\ o = Observation(b, k)
                                    /\ FileAt(b).fork = 0 \/ ~Had(o)
  <2>1. \A b, k : Tells(b, k) => Observation(b, k)[1].fork = FileAt(b).fork
    BY <1>3, HistoriesAre DEF Tells
  <2>. HIDE DEF Had
  <2>2. ASSUME NEW b, NEW k, Tells(b, k)
        PROVE  Observation(b, k) \in Of <=> TurnAt(b, k) = t /\ (FileAt(b).fork = 0 \/ ~Had(Observation(b, k)))
    <3>1. /\ Usage!TokensOf(Observation(b, k)) = {TurnAt(b, k)} /\ Usage!Key(Observation(b, k)) # {}
          /\ Observation(b, k) \in Usage!Observed(1) /\ Observation(b, k)[1].fork = FileAt(b).fork
      BY <1>2, <2>1, <2>2
    <3>. QED
      BY <1>1, <3>1
  <2>3. \A o \in Of : \E b, k : Tells(b, k) /\ o = Observation(b, k)
    BY <1>1, <1>2
  <2>. HIDE DEF Of
  <2>. QED
    BY <2>2, <2>3
<1>. HIDE DEF Of
<1>5. ASSUME t \notin Usage!Told PROVE Of = {}
  <2>1. ASSUME NEW b, NEW k, Tells(b, k), TurnAt(b, k) = t PROVE FALSE
    <3>1. /\ b \in DOMAIN Usage!Scanned /\ Usage!Scanned[b] = FileAt(b) /\ k \in 1..Len(FileAt(b).events)
      BY <2>1, ScannedAre DEF Tells
    <3>2. t \in Usage!Total(Usage!Scanned[b].events, Len(Usage!Scanned[b].events))
      BY <2>1, <3>1 DEF Usage!Total, TurnAt
    <3>. QED
      BY <1>5, <3>1, <3>2 DEF Usage!Told
  <2>. QED
    BY <1>4, <2>1
<1>6. ASSUME t \in Usage!Told PROVE \E b, k : Tells(b, k) /\ TurnAt(b, k) = t
  <2>1. PICK i \in 1..ScannedNumber : t \in Usage!Total(FileAt(i).events, Len(FileAt(i).events))
    BY <1>6, ScannedAre DEF Usage!Told
  <2>2. PICK k \in 1..Len(FileAt(i).events) : t = FileAt(i).events[k].turn
    BY <2>1 DEF Usage!Total
  <2>3. PICK b \in 1..ScannedNumber : Best(b) /\ Begins(FileAt(i).events, FileAt(b).events)
    BY LongestIsSelected
  <2>4. k \in 1..Len(FileAt(b).events) /\ FileAt(b).events[k] = FileAt(i).events[k]
    BY <2>3, ScannedAre DEF Begins
  <2>. QED
    BY <2>2, <2>3, <2>4 DEF Tells, TurnAt
\* What is had was told before.
<1>7. ASSUME NEW b, NEW k, Tells(b, k), TurnAt(b, k) = t, NEW c, NEW l, Tells(c, l), TurnAt(c, l) = t
      PROVE  /\ k = l
             /\ Usage!Key(Observation(b, k)) = Usage!Key(Observation(c, l))
             /\ Usage!RootOf(Lineage, Usage!History(b).id) = Usage!RootOf(Lineage, Usage!History(c).id)
  BY <1>7, OneTurnOneRoot
<1>8. \A b, k : Tells(b, k) => /\ Usage!History(b).id \in Nat /\ Usage!History(b).fork = FileAt(b).fork
                               /\ FileAt(b).fork \in Nat /\ b \in 1..ScannedNumber /\ Best(b) /\ k \in Nat
  BY HistoriesAre, ScannedAre DEF Tells
<1>9. ASSUME NEW b, NEW c, NEW k, NEW l, Tells(b, k), Tells(c, l), Usage!History(b).id = Usage!History(c).id
      PROVE  b = c
  BY <1>8, <1>9, SessionsAreTold, OneIsSelected
<1>10. ASSUME NEW b, NEW k, Tells(b, k), TurnAt(b, k) = t, NEW c, NEW l, Tells(c, l), TurnAt(c, l) = t,
              Usage!RootsFirst(Usage!History(b), Usage!History(c))
       PROVE  Had(Observation(c, l))
  <2>1. Usage!History(b) # Usage!History(c)
    <3>1. ASSUME Usage!History(b) = Usage!History(c) PROVE FALSE
      BY <1>8, <1>10, <3>1 DEF Usage!RootsFirst, Usage!None
    <3>. QED
      BY <3>1
  <2>2. Usage!Earlier(Observation(b, k), Observation(c, l))
    BY <1>3, <1>10, <2>1 DEF Usage!Earlier
  <2>3. Observation(b, k) \in Usage!Observed(1)
    BY <1>2, <1>10
  <2>4. /\ Usage!Key(Observation(b, k)) = Usage!Key(Observation(c, l))
        /\ Usage!RootOf(Lineage, Usage!History(b).id) = Usage!RootOf(Lineage, Usage!History(c).id)
    BY <1>7, <1>10
  <2>5. /\ Usage!RootOf(Lineage, Observation(b, k)[1].id) = Usage!RootOf(Lineage, Usage!History(b).id)
        /\ Usage!RootOf(Lineage, Observation(c, l)[1].id) = Usage!RootOf(Lineage, Usage!History(c).id)
    BY <1>3
  <2>. QED
    BY <2>2, <2>3, <2>4, <2>5, Zenon
<1>11. ASSUME NEW c, NEW l, Tells(c, l), TurnAt(c, l) = t, Had(Observation(c, l))
       PROVE  \E b, k : Tells(b, k) /\ TurnAt(b, k) = t /\ Usage!RootsFirst(Usage!History(b), Usage!History(c))
  <2>1. PICK o \in Usage!Observed(1) : Usage!Earlier(o, Observation(c, l)) /\ Usage!Key(o) = Usage!Key(Observation(c, l))
    BY <1>11
  <2>2. PICK b, k : Tells(b, k) /\ o = Observation(b, k)
    BY <1>2
  <2>3. TurnAt(b, k) = t
    BY <2>1, <2>2, <1>11, OneTurnOneRoot
  <2>4. k = l
    BY <2>2, <2>3, <1>7, <1>11
  <2>5. Usage!RootsFirst(Usage!History(b), Usage!History(c))
    BY <2>1, <2>2, <2>4, <1>3, <1>8 DEF Usage!Earlier
  <2>. QED
    BY <2>2, <2>3, <2>5
<1>. HIDE DEF Had
\* One of a session that is no fork is recorded, or else the one with the least name.
<1>12. ASSUME t \in Usage!Told PROVE \E o : o \in Of
  <2>1. CASE \E b, k : Tells(b, k) /\ TurnAt(b, k) = t /\ FileAt(b).fork = 0
    BY <2>1, <1>4
  <2>2. CASE \A b, k : Tells(b, k) /\ TurnAt(b, k) = t => FileAt(b).fork # 0
    <3>. DEFINE Names == {i \in Nat : \E b, k : Tells(b, k) /\ TurnAt(b, k) = t /\ Usage!History(b).id = i}
    <3>1. Names \in SUBSET Nat /\ Names # {}
      BY <1>6, <1>8, <1>12
    <3>2. PICK i \in Names : \A j \in Names : i <= j
      <4>. HIDE DEF Names
      <4>. QED
        BY <3>1, Smallest
    <3>3. PICK b, k : Tells(b, k) /\ TurnAt(b, k) = t /\ Usage!History(b).id = i
      BY <3>2
    <3>4. ASSUME Had(Observation(b, k)) PROVE FALSE
      <4>1. PICK c, l : Tells(c, l) /\ TurnAt(c, l) = t /\ Usage!RootsFirst(Usage!History(c), Usage!History(b))
        BY <1>11, <3>3, <3>4
      <4>2. Usage!History(c).id \in Names
        BY <4>1, <1>8
      <4>3. i <= Usage!History(c).id
        <5>. HIDE DEF Names
        <5>. QED
          BY <3>2, <4>2
      <4>4. Usage!History(c).id < Usage!History(b).id
        BY <4>1, <2>2, <1>8 DEF Usage!RootsFirst, Usage!None
      <4>. QED
        BY <3>3, <4>1, <4>3, <4>4, <1>8
    <3>. QED
      BY <3>3, <3>4, <1>4
  <2>. QED
    BY <2>1, <2>2
<1>13. ASSUME NEW o \in Of, NEW p \in Of PROVE o = p
  <2>1. PICK b, k : /\ Tells(b, k) /\ TurnAt(b, k) = t /\ o = Observation(b, k)
                    /\ FileAt(b).fork = 0 \/ ~Had(o)
    BY <1>4
  <2>2. PICK c, l : /\ Tells(c, l) /\ TurnAt(c, l) = t /\ p = Observation(c, l)
                    /\ FileAt(c).fork = 0 \/ ~Had(p)
    BY <1>4
  <2>3. k = l
    BY <2>1, <2>2, <1>7
  <2>4. ~Usage!RootsFirst(Usage!History(b), Usage!History(c)) \/ FileAt(c).fork = 0
    BY <2>1, <2>2, <1>10
  <2>5. ~Usage!RootsFirst(Usage!History(c), Usage!History(b)) \/ FileAt(b).fork = 0
    BY <2>1, <2>2, <1>10
  <2>6. ASSUME FileAt(b).fork = 0, FileAt(c).fork = 0 PROVE b = c
    <3>1. PICK r \in [1..Len(files) -> Nat] : Kin(files, r)
      BY DEF UsageInv, HistoryOf
    <3>2. /\ b \in 1..ScannedNumber /\ Best(b) /\ c \in 1..ScannedNumber /\ Best(c)
      BY <2>1, <2>2, <1>8
    <3>3. r[FileAt(b).id] = FileAt(b).id /\ r[FileAt(c).id] = FileAt(c).id
      BY <2>6, <3>1, <3>2, ScannedAre DEF Kin, FileAt
    <3>4. /\ Usage!History(b).id = IF FileAt(b).meta THEN FileAt(b).id ELSE MaxHistory + b
          /\ Usage!History(c).id = IF FileAt(c).meta THEN FileAt(c).id ELSE MaxHistory + c
      BY <3>2, HistoriesAre
    <3>5. /\ Usage!RootOf(Lineage, Usage!History(b).id) = Usage!History(b).id
          /\ Usage!RootOf(Lineage, Usage!History(c).id) = Usage!History(c).id
      <4>1. /\ Usage!RootOf(Lineage, Usage!History(b).id) =
                 IF FileAt(b).meta THEN r[FileAt(b).id] ELSE Usage!History(b).id
            /\ Usage!RootOf(Lineage, Usage!History(c).id) =
                 IF FileAt(c).meta THEN r[FileAt(c).id] ELSE Usage!History(c).id
        BY <3>1, <3>2, RootsAreAncestors
      <4>. QED
        BY <3>3, <3>4, <4>1
    <3>6. Usage!History(b).id = Usage!History(c).id
      BY <2>1, <2>2, <3>5, <1>7
    <3>. QED
      BY <2>1, <2>2, <3>6, <1>9
  <2>7. b = c
    <3>1. CASE FileAt(b).fork = 0 /\ FileAt(c).fork = 0
      BY <2>6, <3>1
    <3>2. CASE FileAt(b).fork = 0 /\ FileAt(c).fork # 0
      BY <2>1, <2>2, <2>4, <3>2, <1>8 DEF Usage!RootsFirst, Usage!None
    <3>3. CASE FileAt(b).fork # 0 /\ FileAt(c).fork = 0
      BY <2>1, <2>2, <2>5, <3>3, <1>8 DEF Usage!RootsFirst, Usage!None
    <3>4. CASE FileAt(b).fork # 0 /\ FileAt(c).fork # 0
      <4>1. ~(Usage!History(b).id < Usage!History(c).id) /\ ~(Usage!History(c).id < Usage!History(b).id)
        BY <2>1, <2>2, <2>4, <2>5, <3>4, <1>8 DEF Usage!RootsFirst, Usage!None
      <4>2. Usage!History(b).id = Usage!History(c).id
        BY <2>1, <2>2, <4>1, <1>8
      <4>. QED
        BY <2>1, <2>2, <4>2, <1>9
    <3>. QED
      BY <3>1, <3>2, <3>3, <3>4
  <2>. QED
    BY <2>1, <2>2, <2>3, <2>7
<1>14. CASE t \in Usage!Told
  <2>1. PICK o : o \in Of
    BY <1>12, <1>14
  <2>2. Of = {o}
    BY <2>1, <1>13
  <2>3. Cardinality(Of) = 1
    BY <2>2, FS_Singleton
  <2>. QED
    BY <2>3, <1>14 DEF Of
<1>15. CASE t \notin Usage!Told
  <2>1. Cardinality(Of) = 0
    BY <1>5, <1>15, FS_EmptySet
  <2>. QED
    BY <2>1, <1>15 DEF Of
<1>. QED
  BY <1>14, <1>15

LEMMA TurnsCountOnce == ASSUME UsageInv PROVE Usage!EachTurnCountsOnce
  BY TurnsAreCounted, ObservationsCountedTheSame DEF Usage!EachTurnCountsOnce

-----------------------------------------------------------------------------
(* The files of a trace.                                                   *)

\* What the files hold, by kind.
FileKinds == Trace!Told \cup {"profile-summary"}
Made == Seq({1, 2})
Reply == [calls : Made, text : BOOLEAN]
Outcome == [ok : BOOLEAN, cached : BOOLEAN]
Profile == [requests : Nat, calls : Nat, repeated : Nat, duplicates : Nat, results : Nat,
            failures : Nat, hits : Nat, compactions : Nat, errors : Nat,
            toolOnly : Nat, streak : Nat, longest : Nat, seen : SUBSET {1, 2}, last : {0, 1, 2}]
TraceData == Reply \cup Outcome \cup Profile \cup {Trace!Nothing}
TraceFile == [turn : Nat, kind : FileKinds, n : Nat \ {0}, data : TraceData]
HasItsData(f) == /\ f.kind = "response" => f.data \in Reply
                 /\ f.kind = "tool-result" => f.data \in Outcome

FoundIn(fs, kinds) == {i \in 1..Len(fs) : fs[i].kind \in kinds /\ Trace!Known(fs[i])}
Appended(fs, f) == f \in TraceFile /\ HasItsData(f)

TraceOf(fs) == fs \in Seq(TraceFile) /\ \A i \in 1..Len(fs) : HasItsData(fs[i])

LEMMA FilesCountedTheSame == \A S : Trace!Cardinality(S) = Cardinality(S)
  BY DEF Trace!Cardinality, Cardinality, Trace!IsFiniteSet, IsFiniteSet

LEMMA FoundAre ==
  ASSUME NEW fs, TraceOf(fs), NEW kinds
  PROVE  /\ IsFiniteSet(FoundIn(fs, kinds)) /\ FoundIn(fs, kinds) \in SUBSET (1..Len(fs)) /\ Len(fs) \in Nat
         /\ Cardinality(FoundIn(fs, kinds)) \in Nat
         /\ \A i \in 1..Len(fs) : /\ fs[i] \in TraceFile /\ HasItsData(fs[i]) /\ fs[i].turn \in Nat
                                  /\ fs[i].n \in Nat \ {0} /\ fs[i].kind \in FileKinds
<1>1. Len(fs) \in Nat /\ \A i \in 1..Len(fs) : fs[i] \in TraceFile /\ HasItsData(fs[i])
  BY DEF TraceOf
<1>2. FoundIn(fs, kinds) \in SUBSET (1..Len(fs))
  BY DEF FoundIn
<1>3. IsFiniteSet(1..Len(fs))
  BY <1>1, FS_Interval
<1>4. IsFiniteSet(FoundIn(fs, kinds))
  BY <1>2, <1>3, FS_Subset
<1>. QED
  BY <1>1, <1>2, <1>4, FS_CardinalityType DEF TraceFile

LEMMA FileIsAppended ==
  ASSUME NEW fs, TraceOf(fs), NEW f, Appended(fs, f)
  PROVE  /\ TraceOf(Append(fs, f)) /\ Len(Append(fs, f)) = Len(fs) + 1
         /\ Append(fs, f)[Len(fs) + 1] = f /\ Len(fs) + 1 \notin 1..Len(fs)
         /\ \A i \in 1..Len(fs) : Append(fs, f)[i] = fs[i]
         /\ 1..Len(Append(fs, f)) = 1..Len(fs) \cup {Len(fs) + 1}
         /\ Len(fs) \in Nat
         /\ \A kinds : FoundIn(Append(fs, f), kinds) =
                         IF f.kind \in kinds /\ Trace!Known(f) THEN FoundIn(fs, kinds) \cup {Len(fs) + 1}
                         ELSE FoundIn(fs, kinds)
<1>. DEFINE gs == Append(fs, f)
            L == Len(fs)
<1>1. fs \in Seq(TraceFile) /\ L \in Nat /\ f \in TraceFile /\ HasItsData(f)
      /\ \A i \in 1..L : HasItsData(fs[i])
  BY DEF TraceOf, Appended
<1>2. /\ gs \in Seq(TraceFile) /\ Len(gs) = L + 1 /\ gs[L + 1] = f
      /\ \A i \in 1..L : gs[i] = fs[i]
  BY <1>1
<1>3. 1..Len(gs) = 1..L \cup {L + 1} /\ L + 1 \notin 1..L
  BY <1>1, <1>2
<1>. HIDE DEF gs
<1>4. TraceOf(gs)
  BY <1>1, <1>2, <1>3 DEF TraceOf
<1>5. ASSUME NEW kinds
      PROVE  FoundIn(gs, kinds) = IF f.kind \in kinds /\ Trace!Known(f) THEN FoundIn(fs, kinds) \cup {L + 1}
                                  ELSE FoundIn(fs, kinds)
  <2>1. \A i \in 1..L : i \in FoundIn(gs, kinds) <=> i \in FoundIn(fs, kinds)
    BY <1>2, <1>3 DEF FoundIn
  <2>2. L + 1 \in FoundIn(gs, kinds) <=> f.kind \in kinds /\ Trace!Known(f)
    BY <1>2, <1>3 DEF FoundIn
  <2>3. FoundIn(gs, kinds) \in SUBSET (1..L \cup {L + 1}) /\ FoundIn(fs, kinds) \in SUBSET (1..L)
    BY <1>3 DEF FoundIn
  <2>. QED
    BY <2>1, <2>2, <2>3, <1>3
<1>. QED
  BY <1>1, <1>2, <1>3, <1>4, <1>5 DEF gs

\* A file adds one to what its kind tells of.
Told(fs, p) ==
  /\ p.requests = Cardinality(FoundIn(fs, {"request-input"}))
  /\ p.results = Cardinality(FoundIn(fs, {"tool-result"}))
  /\ p.failures = Cardinality({i \in FoundIn(fs, {"tool-result"}) : ~fs[i].data.ok})
  /\ p.hits = Cardinality({i \in FoundIn(fs, {"tool-result"}) : fs[i].data.cached})

LEMMA OtherFilesTellNoCounts ==
  ASSUME NEW fs, TraceOf(fs), NEW f, Appended(fs, f), f.kind \notin {"request-input", "tool-result"},
         NEW p, Told(fs, p)
  PROVE  Told(Append(fs, f), p)
<1>. DEFINE gs == Append(fs, f)
<1>1. /\ FoundIn(gs, {"request-input"}) = FoundIn(fs, {"request-input"})
      /\ FoundIn(gs, {"tool-result"}) = FoundIn(fs, {"tool-result"})
      /\ \A i \in 1..Len(fs) : gs[i] = fs[i]
  BY FileIsAppended
<1>. HIDE DEF gs
<1>2. \A i \in FoundIn(fs, {"tool-result"}) : gs[i] = fs[i]
  BY <1>1 DEF FoundIn
<1>3. /\ {i \in FoundIn(gs, {"tool-result"}) : ~gs[i].data.ok} = {i \in FoundIn(fs, {"tool-result"}) : ~fs[i].data.ok}
      /\ {i \in FoundIn(gs, {"tool-result"}) : gs[i].data.cached} = {i \in FoundIn(fs, {"tool-result"}) : fs[i].data.cached}
  BY <1>1, <1>2
<1>. QED
  BY <1>1, <1>3 DEF Told, gs

LEMMA RequestsAreTold ==
  ASSUME NEW fs, TraceOf(fs), NEW f, Appended(fs, f), f.kind = "request-input", f.n = 1,
         NEW p, NEW q, Told(fs, p), q.requests = p.requests + 1,
         q.results = p.results, q.failures = p.failures, q.hits = p.hits
  PROVE  Told(Append(fs, f), q)
<1>. DEFINE gs == Append(fs, f)
<1>1. /\ FoundIn(gs, {"request-input"}) = FoundIn(fs, {"request-input"}) \cup {Len(fs) + 1}
      /\ FoundIn(gs, {"tool-result"}) = FoundIn(fs, {"tool-result"})
      /\ Len(fs) + 1 \notin 1..Len(fs)
      /\ \A i \in 1..Len(fs) : gs[i] = fs[i]
  BY FileIsAppended DEF Trace!Known
<1>. HIDE DEF gs
<1>2. \A i \in FoundIn(fs, {"tool-result"}) : gs[i] = fs[i]
  BY <1>1 DEF FoundIn
<1>3. /\ {i \in FoundIn(gs, {"tool-result"}) : ~gs[i].data.ok} = {i \in FoundIn(fs, {"tool-result"}) : ~fs[i].data.ok}
      /\ {i \in FoundIn(gs, {"tool-result"}) : gs[i].data.cached} = {i \in FoundIn(fs, {"tool-result"}) : fs[i].data.cached}
  BY <1>1, <1>2
<1>4. Len(fs) + 1 \notin FoundIn(fs, {"request-input"}) /\ IsFiniteSet(FoundIn(fs, {"request-input"}))
  BY <1>1, FoundAre
<1>5. Cardinality(FoundIn(gs, {"request-input"})) = Cardinality(FoundIn(fs, {"request-input"})) + 1
  BY <1>1, <1>4, FS_AddElement
<1>. QED
  BY <1>1, <1>3, <1>5 DEF Told, gs

LEMMA ResultsAreTold ==
  ASSUME NEW fs, TraceOf(fs), NEW f, Appended(fs, f), f.kind = "tool-result",
         NEW p, NEW q, Told(fs, p), q.requests = p.requests, q.results = p.results + 1,
         q.failures = IF f.data.ok THEN p.failures ELSE p.failures + 1,
         q.hits = IF f.data.cached THEN p.hits + 1 ELSE p.hits
  PROVE  Told(Append(fs, f), q)
<1>. DEFINE gs == Append(fs, f)
            R == FoundIn(fs, {"tool-result"})
            m == Len(fs) + 1
            Failed == {i \in R : ~fs[i].data.ok}
            Hit == {i \in R : fs[i].data.cached}
<1>1. /\ FoundIn(gs, {"request-input"}) = FoundIn(fs, {"request-input"})
      /\ FoundIn(gs, {"tool-result"}) = R \cup {m}
      /\ m \notin 1..Len(fs) /\ gs[m] = f
      /\ \A i \in 1..Len(fs) : gs[i] = fs[i]
  BY FileIsAppended DEF Trace!Known
<1>2. IsFiniteSet(R) /\ R \in SUBSET (1..Len(fs)) /\ f.data.ok \in BOOLEAN /\ f.data.cached \in BOOLEAN
  BY FoundAre DEF Appended, HasItsData, Outcome
<1>. HIDE DEF gs, m, R
<1>3. \A i \in R : gs[i] = fs[i] /\ i # m
  BY <1>1, <1>2
<1>4. /\ {i \in FoundIn(gs, {"tool-result"}) : ~gs[i].data.ok} = IF f.data.ok THEN Failed ELSE Failed \cup {m}
      /\ {i \in FoundIn(gs, {"tool-result"}) : gs[i].data.cached} = IF f.data.cached THEN Hit \cup {m} ELSE Hit
  BY <1>1, <1>3
<1>5. IsFiniteSet(Failed) /\ IsFiniteSet(Hit) /\ m \notin Failed /\ m \notin Hit /\ m \notin R
  BY <1>2, <1>3, FS_Subset
<1>6. /\ Cardinality(R \cup {m}) = Cardinality(R) + 1
      /\ Cardinality(Failed \cup {m}) = Cardinality(Failed) + 1
      /\ Cardinality(Hit \cup {m}) = Cardinality(Hit) + 1
  BY <1>2, <1>5, FS_AddElement
<1>7. /\ p.results = Cardinality(R) /\ p.failures = Cardinality(Failed) /\ p.hits = Cardinality(Hit)
      /\ p.requests = Cardinality(FoundIn(fs, {"request-input"}))
  BY DEF Told, R
<1>. HIDE DEF Failed, Hit
<1>8. /\ q.results = Cardinality(FoundIn(gs, {"tool-result"}))
      /\ q.failures = Cardinality({i \in FoundIn(gs, {"tool-result"}) : ~gs[i].data.ok})
      /\ q.hits = Cardinality({i \in FoundIn(gs, {"tool-result"}) : gs[i].data.cached})
      /\ q.requests = Cardinality(FoundIn(gs, {"request-input"}))
  BY <1>1, <1>4, <1>6, <1>7
<1>. QED
  BY <1>8 DEF Told, gs

\* What the profile counts.
LEMMA ProfileFields ==
  ASSUME NEW p \in Profile
  PROVE  /\ p.requests \in Nat /\ p.calls \in Nat /\ p.repeated \in Nat /\ p.duplicates \in Nat
         /\ p.results \in Nat /\ p.failures \in Nat /\ p.hits \in Nat /\ p.compactions \in Nat
         /\ p.errors \in Nat /\ p.toolOnly \in Nat /\ p.streak \in Nat /\ p.longest \in Nat
         /\ p.seen \in SUBSET {1, 2} /\ p.last \in {0, 1, 2}
  BY DEF Profile

\* All that the files are to tell is the same in both.
SameTold(p, q) ==
  /\ q.requests = p.requests /\ q.results = p.results /\ q.failures = p.failures /\ q.hits = p.hits
  /\ q.calls = p.calls /\ q.seen = p.seen /\ q.repeated = p.repeated
  /\ q.duplicates = p.duplicates /\ q.last = p.last
  /\ q.toolOnly = p.toolOnly /\ q.streak = p.streak /\ q.longest = p.longest

LEMMA TroubleIsCounted ==
  ASSUME NEW p \in Profile
  PROVE  /\ Trace!Count(p, "errors") \in Profile /\ SameTold(p, Trace!Count(p, "errors"))
         /\ Trace!Count(p, "compactions") \in Profile /\ SameTold(p, Trace!Count(p, "compactions"))
<1>1. ASSUME NEW x \in Nat, NEW q, q = [p EXCEPT !.errors = x] PROVE q \in Profile /\ SameTold(p, q)
  <2>1. q \in Profile
    BY <1>1 DEF Profile
  <2>. QED
    BY <2>1, <1>1 DEF Profile, SameTold
<1>2. ASSUME NEW x \in Nat, NEW q, q = [p EXCEPT !.compactions = x] PROVE q \in Profile /\ SameTold(p, q)
  <2>1. q \in Profile
    BY <1>2 DEF Profile
  <2>. QED
    BY <2>1, <1>2 DEF Profile, SameTold
<1>3. /\ Trace!Count(p, "errors") = [p EXCEPT !.errors = p.errors + 1] /\ p.errors + 1 \in Nat
      /\ Trace!Count(p, "compactions") = [p EXCEPT !.compactions = p.compactions + 1]
      /\ p.compactions + 1 \in Nat
  <2>1. p.errors + 1 \in Nat /\ p.compactions + 1 \in Nat
    BY ProfileFields
  <2>2. Trace!Count(p, "errors") = [p EXCEPT !.errors = p.errors + 1]
    BY DEF Trace!Count
  <2>3. Trace!Count(p, "compactions") = [p EXCEPT !.compactions = p.compactions + 1]
    BY DEF Trace!Count
  <2>. QED
    BY <2>1, <2>2, <2>3
<1>. QED
  BY <1>1, <1>2, <1>3

LEMMA RequestIsCounted ==
  ASSUME NEW p \in Profile, NEW q, q = Trace!Count(p, "requests")
  PROVE  /\ q \in Profile /\ q.requests = p.requests + 1
         /\ q.results = p.results /\ q.failures = p.failures
         /\ q.hits = p.hits /\ q.calls = p.calls /\ q.seen = p.seen /\ q.repeated = p.repeated
         /\ q.duplicates = p.duplicates /\ q.last = p.last /\ q.toolOnly = p.toolOnly
         /\ q.streak = p.streak /\ q.longest = p.longest
<1>1. PICK x \in Nat : x = p.requests + 1
  BY ProfileFields
<1>2. q = [p EXCEPT !.requests = x]
  BY <1>1 DEF Trace!Count
<1>3. q \in Profile
  BY <1>2 DEF Profile
<1>4. /\ q.requests = x /\ q.results = p.results /\ q.failures = p.failures
      /\ q.hits = p.hits /\ q.calls = p.calls /\ q.seen = p.seen /\ q.repeated = p.repeated
      /\ q.duplicates = p.duplicates /\ q.last = p.last /\ q.toolOnly = p.toolOnly
      /\ q.streak = p.streak /\ q.longest = p.longest
  BY <1>2 DEF Profile
<1>. QED
  BY <1>1, <1>3, <1>4

LEMMA TurnIsCounted ==
  ASSUME NEW p \in Profile, NEW calls, NEW text, NEW q, q = Trace!RecordTurnActivity(p, calls, text)
  PROVE  /\ q \in Profile /\ q.requests = p.requests /\ q.results = p.results
         /\ q.failures = p.failures /\ q.hits = p.hits /\ q.calls = p.calls /\ q.seen = p.seen
         /\ q.repeated = p.repeated /\ q.duplicates = p.duplicates /\ q.last = p.last
         /\ IF calls # <<>> /\ ~text
            THEN /\ q.toolOnly = p.toolOnly + 1 /\ q.streak = p.streak + 1
                 /\ q.longest = IF p.streak + 1 > p.longest THEN p.streak + 1 ELSE p.longest
            ELSE q.toolOnly = p.toolOnly /\ q.streak = 0 /\ q.longest = p.longest
<1>1. CASE calls # <<>> /\ ~text
  <2>1. PICK x \in Nat, y \in Nat, z \in Nat :
          /\ x = p.toolOnly + 1 /\ y = p.streak + 1
          /\ z = IF p.streak + 1 > p.longest THEN p.streak + 1 ELSE p.longest
    BY ProfileFields
  <2>2. q = [p EXCEPT !.toolOnly = x, !.streak = y, !.longest = z]
    BY <1>1, <2>1 DEF Trace!RecordTurnActivity
  <2>3. q \in Profile
    BY <2>2 DEF Profile
  <2>4. /\ q.requests = p.requests /\ q.results = p.results
        /\ q.failures = p.failures /\ q.hits = p.hits /\ q.calls = p.calls /\ q.seen = p.seen
        /\ q.repeated = p.repeated /\ q.duplicates = p.duplicates /\ q.last = p.last
        /\ q.toolOnly = x /\ q.streak = y /\ q.longest = z
    BY <2>2 DEF Profile
  <2>. QED
    BY <1>1, <2>1, <2>3, <2>4
<1>2. CASE ~(calls # <<>> /\ ~text)
  <2>2. q = [p EXCEPT !.streak = 0]
    BY <1>2 DEF Trace!RecordTurnActivity
  <2>3. q \in Profile
    BY <2>2 DEF Profile
  <2>4. /\ q.requests = p.requests /\ q.results = p.results
        /\ q.failures = p.failures /\ q.hits = p.hits /\ q.calls = p.calls /\ q.seen = p.seen
        /\ q.repeated = p.repeated /\ q.duplicates = p.duplicates /\ q.last = p.last
        /\ q.toolOnly = p.toolOnly /\ q.streak = 0 /\ q.longest = p.longest
    BY <2>2 DEF Profile
  <2>. QED
    BY <1>2, <2>3, <2>4
<1>. QED
  BY <1>1, <1>2

LEMMA CallIsCounted ==
  ASSUME NEW p \in Profile, NEW call \in {1, 2}, NEW q, q = Trace!RecordCall(p, call)
  PROVE  /\ q \in Profile /\ q.requests = p.requests /\ q.results = p.results /\ q.failures = p.failures
         /\ q.hits = p.hits /\ q.calls = p.calls + 1 /\ q.seen = p.seen \cup {call}
         /\ q.repeated = IF call \in p.seen THEN p.repeated + 1 ELSE p.repeated
         /\ q.duplicates = IF call = p.last THEN p.duplicates + 1 ELSE p.duplicates
         /\ q.last = call /\ q.toolOnly = p.toolOnly
         /\ q.streak = p.streak /\ q.longest = p.longest
<1>1. PICK x \in Nat, y \in Nat, z \in Nat, w \in SUBSET {1, 2} :
        /\ x = p.calls + 1 /\ w = p.seen \cup {call}
        /\ y = IF call \in p.seen THEN p.repeated + 1 ELSE p.repeated
        /\ z = IF call = p.last THEN p.duplicates + 1 ELSE p.duplicates
  <2>1. p.calls + 1 \in Nat /\ p.seen \cup {call} \in SUBSET {1, 2}
    BY ProfileFields
  <2>2. /\ (IF call \in p.seen THEN p.repeated + 1 ELSE p.repeated) \in Nat
        /\ (IF call = p.last THEN p.duplicates + 1 ELSE p.duplicates) \in Nat
    BY ProfileFields
  <2>. QED
    BY <2>1, <2>2, Zenon
<1>2. q = [p EXCEPT !.calls = x, !.repeated = y, !.duplicates = z, !.seen = w, !.last = call]
  BY <1>1 DEF Trace!RecordCall
<1>3. q \in Profile
  BY <1>2 DEF Profile
<1>4. /\ q.requests = p.requests /\ q.results = p.results /\ q.failures = p.failures
      /\ q.hits = p.hits /\ q.calls = x /\ q.seen = w /\ q.repeated = y /\ q.duplicates = z
      /\ q.last = call /\ q.toolOnly = p.toolOnly /\ q.streak = p.streak /\ q.longest = p.longest
  BY <1>2 DEF Profile
<1>. QED
  BY <1>1, <1>3, <1>4

LEMMA ResultIsCounted ==
  ASSUME NEW p \in Profile, NEW r \in Outcome, NEW q, q = Trace!RecordResult(p, r)
  PROVE  /\ q \in Profile /\ q.requests = p.requests /\ q.results = p.results + 1
         /\ q.failures = IF r.ok THEN p.failures ELSE p.failures + 1
         /\ q.hits = IF r.cached THEN p.hits + 1 ELSE p.hits
         /\ q.calls = p.calls /\ q.seen = p.seen
         /\ q.repeated = p.repeated /\ q.duplicates = p.duplicates
         /\ q.last = p.last /\ q.toolOnly = p.toolOnly
         /\ q.streak = p.streak /\ q.longest = p.longest
<1>1. PICK x \in Nat, y \in Nat, z \in Nat :
        /\ x = p.results + 1
        /\ y = IF r.ok THEN p.failures ELSE p.failures + 1
        /\ z = IF r.cached THEN p.hits + 1 ELSE p.hits
  BY ProfileFields
<1>2. q = [p EXCEPT !.results = x, !.failures = y, !.hits = z]
  BY <1>1 DEF Trace!RecordResult
<1>3. q \in Profile
  BY <1>2 DEF Profile
<1>4. /\ q.requests = p.requests /\ q.results = x /\ q.failures = y /\ q.hits = z
      /\ q.calls = p.calls /\ q.seen = p.seen
      /\ q.repeated = p.repeated /\ q.duplicates = p.duplicates
      /\ q.last = p.last /\ q.toolOnly = p.toolOnly
      /\ q.streak = p.streak /\ q.longest = p.longest
  BY <1>2 DEF Profile
<1>. QED
  BY <1>1, <1>3, <1>4

\* The calls that responses tell of, in the order they were made, and those that have run: all
\* but the rest of the last response.
CallsIn(fs) == UNION {{<<i, k>> : k \in 1..Len(fs[i].data.calls)} : i \in FoundIn(fs, {"response"})}
CallIn(fs, c) == fs[c[1]].data.calls[c[2]]
SoonerIn(fs, b, c) == fs[b[1]].turn < fs[c[1]].turn \/ (b[1] = c[1] /\ b[2] < c[2])
RepeatedIn(fs) == {c \in CallsIn(fs) : \E b \in CallsIn(fs) : SoonerIn(fs, b, c) /\ CallIn(fs, b) = CallIn(fs, c)}
DuplicatesIn(fs) ==
  {c \in CallsIn(fs) : \E b \in CallsIn(fs) :
     /\ SoonerIn(fs, b, c) /\ CallIn(fs, b) = CallIn(fs, c)
     /\ ~\E d \in CallsIn(fs) : SoonerIn(fs, b, d) /\ SoonerIn(fs, d, c)}

Waits(fs, c, s, rest) == fs[c[1]].turn = s /\ c[2] > Len(fs[c[1]].data.calls) - Len(rest)
RanIn(fs, s, rest) == {c \in CallsIn(fs) : ~Waits(fs, c, s, rest)}

OneReplyEach(fs) ==
  \A i, j \in FoundIn(fs, {"response"}) : fs[i].turn = fs[j].turn => i = j

RestIsOf(fs, s, rest, i) ==
  /\ i \in FoundIn(fs, {"response"}) /\ fs[i].turn = s /\ Len(rest) <= Len(fs[i].data.calls)
  /\ \A k \in 1..Len(rest) : rest[k] = fs[i].data.calls[Len(fs[i].data.calls) - Len(rest) + k]
  /\ \A j \in FoundIn(fs, {"response"}) : fs[j].turn <= s

IsLast(fs, s, rest, c) == c \in RanIn(fs, s, rest) /\ \A b \in RanIn(fs, s, rest) : b = c \/ SoonerIn(fs, b, c)

CallsTold(fs, p, s, rest) ==
  /\ IsFiniteSet(RanIn(fs, s, rest))
  /\ p.calls = Cardinality(RanIn(fs, s, rest))
  /\ p.seen = {CallIn(fs, c) : c \in RanIn(fs, s, rest)}
  /\ p.repeated = Cardinality(RepeatedIn(fs) \cap RanIn(fs, s, rest))
  /\ p.duplicates = Cardinality(DuplicatesIn(fs) \cap RanIn(fs, s, rest))
  /\ IF RanIn(fs, s, rest) = {} THEN p.last = 0
     ELSE \E c : IsLast(fs, s, rest, c) /\ p.last = CallIn(fs, c)

LEMMA CallsAre ==
  ASSUME NEW fs, TraceOf(fs)
  PROVE  /\ \A i, k : <<i, k>> \in CallsIn(fs) <=>
                        i \in FoundIn(fs, {"response"}) /\ k \in 1..Len(fs[i].data.calls)
         /\ \A c \in CallsIn(fs) :
              /\ c = <<c[1], c[2]>> /\ c[1] \in FoundIn(fs, {"response"}) /\ c[2] \in 1..Len(fs[c[1]].data.calls)
              /\ c[1] \in 1..Len(fs) /\ c[2] \in Nat /\ fs[c[1]].turn \in Nat
              /\ CallIn(fs, c) \in {1, 2}
         /\ \A i \in FoundIn(fs, {"response"}) :
              /\ i \in 1..Len(fs) /\ fs[i].turn \in Nat
              /\ fs[i].data.calls \in Seq({1, 2}) /\ Len(fs[i].data.calls) \in Nat
<1>1. ASSUME NEW i \in FoundIn(fs, {"response"})
      PROVE  /\ i \in 1..Len(fs) /\ fs[i].turn \in Nat
             /\ fs[i].data.calls \in Seq({1, 2}) /\ Len(fs[i].data.calls) \in Nat
  <2>1. i \in 1..Len(fs) /\ fs[i].kind = "response"
    BY DEF FoundIn
  <2>2. fs[i].data \in Reply /\ fs[i].turn \in Nat
    BY <2>1, FoundAre DEF HasItsData
  <2>3. fs[i].data.calls \in Seq({1, 2})
    BY <2>2 DEF Reply, Made
  <2>. QED
    BY <2>1, <2>2, <2>3
<1>2. \A i, k : <<i, k>> \in CallsIn(fs) <=> i \in FoundIn(fs, {"response"}) /\ k \in 1..Len(fs[i].data.calls)
  BY DEF CallsIn
<1>3. ASSUME NEW c \in CallsIn(fs)
      PROVE  /\ c = <<c[1], c[2]>> /\ c[1] \in FoundIn(fs, {"response"}) /\ c[2] \in 1..Len(fs[c[1]].data.calls)
             /\ c[1] \in 1..Len(fs) /\ c[2] \in Nat /\ fs[c[1]].turn \in Nat
             /\ CallIn(fs, c) \in {1, 2}
  <2>1. PICK i \in FoundIn(fs, {"response"}) : \E k \in 1..Len(fs[i].data.calls) : c = <<i, k>>
    BY DEF CallsIn
  <2>4. PICK k \in 1..Len(fs[i].data.calls) : c = <<i, k>>
    BY <2>1
  <2>2. c[1] = i /\ c[2] = k
    BY <2>4
  <2>3. k \in Nat /\ fs[i].data.calls[k] \in {1, 2}
    BY <1>1
  <2>. QED
    BY <1>1, <2>4, <2>2, <2>3 DEF CallIn
<1>. QED
  BY <1>1, <1>2, <1>3

LEMMA WhenAllRan ==
  ASSUME NEW fs, TraceOf(fs), NEW s
  PROVE  RanIn(fs, s, <<>>) = CallsIn(fs)
<1>1. \A c \in CallsIn(fs) : ~(c[2] > Len(fs[c[1]].data.calls) - Len(<<>>))
  BY CallsAre
<1>. QED
  BY <1>1 DEF RanIn, Waits

\* The calls of the older files stay as they were.
LEMMA OldCallsStay ==
  ASSUME NEW fs, TraceOf(fs), NEW f, Appended(fs, f)
  PROVE  /\ \A c \in CallsIn(fs) : CallIn(Append(fs, f), c) = CallIn(fs, c)
         /\ \A b, c \in CallsIn(fs) : SoonerIn(Append(fs, f), b, c) <=> SoonerIn(fs, b, c)
         /\ \A s, rest : \A c \in CallsIn(fs) : Waits(Append(fs, f), c, s, rest) <=> Waits(fs, c, s, rest)
         /\ \A i \in FoundIn(fs, {"response"}) : Append(fs, f)[i] = fs[i]
<1>1. \A c \in CallsIn(fs) : Append(fs, f)[c[1]] = fs[c[1]]
  BY CallsAre, FileIsAppended
<1>2. \A i \in FoundIn(fs, {"response"}) : Append(fs, f)[i] = fs[i]
  BY CallsAre, FileIsAppended
<1>. QED
  BY <1>1, <1>2 DEF CallIn, SoonerIn, Waits

LEMMA OtherFilesTellNoCalls ==
  ASSUME NEW fs, TraceOf(fs), NEW f, Appended(fs, f), f.kind # "response"
  PROVE  /\ \A p, s, rest : CallsTold(fs, p, s, rest) => CallsTold(Append(fs, f), p, s, rest)
         /\ OneReplyEach(fs) => OneReplyEach(Append(fs, f))
         /\ \A s, rest, i : RestIsOf(fs, s, rest, i) => RestIsOf(Append(fs, f), s, rest, i)
<1>. DEFINE gs == Append(fs, f)
<1>1. FoundIn(gs, {"response"}) = FoundIn(fs, {"response"})
  BY FileIsAppended
<1>2. /\ \A c \in CallsIn(fs) : CallIn(gs, c) = CallIn(fs, c)
      /\ \A b, c \in CallsIn(fs) : SoonerIn(gs, b, c) <=> SoonerIn(fs, b, c)
      /\ \A s, rest : \A c \in CallsIn(fs) : Waits(gs, c, s, rest) <=> Waits(fs, c, s, rest)
      /\ \A i \in FoundIn(fs, {"response"}) : gs[i] = fs[i]
  BY OldCallsStay
<1>. HIDE DEF gs
<1>3. CallsIn(gs) = CallsIn(fs)
  BY <1>1, <1>2 DEF CallsIn
<1>4. RepeatedIn(gs) = RepeatedIn(fs) /\ DuplicatesIn(gs) = DuplicatesIn(fs)
  BY <1>2, <1>3 DEF RepeatedIn, DuplicatesIn
<1>5. \A s, rest : RanIn(gs, s, rest) = RanIn(fs, s, rest)
  BY <1>2, <1>3 DEF RanIn
<1>6. \A s, rest : {CallIn(gs, c) : c \in RanIn(gs, s, rest)} = {CallIn(fs, c) : c \in RanIn(fs, s, rest)}
  BY <1>2, <1>5 DEF RanIn
<1>7. \A s, rest, c : IsLast(fs, s, rest, c) => IsLast(gs, s, rest, c) /\ CallIn(gs, c) = CallIn(fs, c)
  BY <1>2, <1>5 DEF RanIn, IsLast
<1>8. ASSUME NEW p, NEW s, NEW rest, CallsTold(fs, p, s, rest) PROVE CallsTold(gs, p, s, rest)
  <2>1. IF RanIn(gs, s, rest) = {} THEN p.last = 0 ELSE \E c : IsLast(gs, s, rest, c) /\ p.last = CallIn(gs, c)
    BY <1>5, <1>7, <1>8 DEF CallsTold
  <2>. QED
    BY <2>1, <1>4, <1>5, <1>6, <1>8 DEF CallsTold
<1>9. OneReplyEach(fs) => OneReplyEach(gs)
  BY <1>1, <1>2 DEF OneReplyEach
<1>10. \A s, rest, i : RestIsOf(fs, s, rest, i) => RestIsOf(gs, s, rest, i)
  BY <1>1, <1>2 DEF RestIsOf
<1>. QED
  BY <1>8, <1>9, <1>10 DEF gs

LEMMA ReplyIsAdded ==
  ASSUME NEW fs, TraceOf(fs), NEW f, Appended(fs, f), f.kind = "response", f.n = 1, OneReplyEach(fs),
         \A i \in FoundIn(fs, {"response"}) : fs[i].turn < f.turn
  PROVE  /\ OneReplyEach(Append(fs, f))
         /\ RestIsOf(Append(fs, f), f.turn, f.data.calls, Len(fs) + 1)
         /\ \A p, s : CallsTold(fs, p, s, <<>>) => CallsTold(Append(fs, f), p, f.turn, f.data.calls)
<1>. DEFINE gs == Append(fs, f)
            m == Len(fs) + 1
            R == FoundIn(fs, {"response"})
<1>1. /\ FoundIn(gs, {"response"}) = R \cup {m} /\ m \notin 1..Len(fs) /\ gs[m] = f /\ TraceOf(gs)
      /\ \A i \in R : i \in 1..Len(fs) /\ gs[i] = fs[i] /\ gs[i].turn \in Nat
  BY FileIsAppended, CallsAre DEF Trace!Known
<1>2. f.data.calls \in Seq({1, 2}) /\ f.turn \in Nat /\ Len(f.data.calls) \in Nat
  BY DEF Appended, HasItsData, Reply, Made, TraceFile
<1>3. /\ \A c \in CallsIn(fs) : CallIn(gs, c) = CallIn(fs, c)
      /\ \A b, c \in CallsIn(fs) : SoonerIn(gs, b, c) <=> SoonerIn(fs, b, c)
  BY OldCallsStay
<1>. HIDE DEF gs, m, R
<1>4. OneReplyEach(gs)
  BY <1>1, <1>2 DEF OneReplyEach, R
<1>5. RestIsOf(gs, f.turn, f.data.calls, m)
  <2>1. \A k \in 1..Len(f.data.calls) : Len(f.data.calls) - Len(f.data.calls) + k = k
    BY <1>2
  <2>2. \A j \in R \cup {m} : gs[j].turn <= f.turn
    BY <1>1, <1>2 DEF R
  <2>. QED
    BY <1>1, <1>2, <2>1, <2>2 DEF RestIsOf
<1>6. CallsIn(fs) \in SUBSET CallsIn(gs)
  <2>1. ASSUME NEW c \in CallsIn(fs) PROVE c \in CallsIn(gs)
    <3>1. c = <<c[1], c[2]>> /\ c[1] \in R /\ c[2] \in 1..Len(fs[c[1]].data.calls)
      BY CallsAre DEF R
    <3>2. <<c[1], c[2]>> \in CallsIn(gs)
      BY <3>1, <1>1, CallsAre DEF R
    <3>. QED
      BY <3>1, <3>2
  <2>. QED
    BY <2>1
\* A call is of an older file, or waits.
<1>7. ASSUME NEW c \in CallsIn(gs)
      PROVE  \/ c \in CallsIn(fs) /\ gs[c[1]].turn < f.turn
             \/ c \notin CallsIn(fs) /\ gs[c[1]].turn = f.turn /\ Waits(gs, c, f.turn, f.data.calls)
  <2>1. c = <<c[1], c[2]>> /\ c[1] \in R \cup {m} /\ c[2] \in 1..Len(gs[c[1]].data.calls)
    BY <1>1, CallsAre
  <2>2. CASE c[1] \in R
    <3>1. <<c[1], c[2]>> \in CallsIn(fs)
      BY <2>1, <2>2, <1>1, CallsAre DEF R
    <3>. QED
      BY <3>1, <2>1, <2>2, <1>1 DEF R
  <2>3. CASE c[1] = m
    <3>1. c \notin CallsIn(fs)
      BY <2>3, <1>1, CallsAre
    <3>. QED
      BY <3>1, <2>1, <2>3, <1>1, <1>2 DEF Waits
  <2>. QED
    BY <2>1, <2>2, <2>3
<1>8. RanIn(gs, f.turn, f.data.calls) = CallsIn(fs)
  <2>1. ASSUME NEW c \in CallsIn(gs) PROVE Waits(gs, c, f.turn, f.data.calls) <=> c \notin CallsIn(fs)
    <3>1. gs[c[1]].turn \in Nat
      BY <1>1, CallsAre
    <3>2. gs[c[1]].turn < f.turn => ~Waits(gs, c, f.turn, f.data.calls)
      <4>1. f.turn \in Nat
        BY <1>2
      <4>2. gs[c[1]].turn < f.turn => gs[c[1]].turn # f.turn
        BY <3>1, <4>1
      <4>. QED
        BY <4>2 DEF Waits
    <3>. QED
      BY <3>2, <1>7
  <2>. QED
    BY <2>1, <1>6 DEF RanIn
<1>9. \A b \in CallsIn(gs), c \in CallsIn(fs) : SoonerIn(gs, b, c) => b \in CallsIn(fs)
  <2>1. ASSUME NEW b \in CallsIn(gs), NEW c \in CallsIn(fs), SoonerIn(gs, b, c), b \notin CallsIn(fs) PROVE FALSE
    <3>1. gs[c[1]].turn < f.turn /\ gs[b[1]].turn = f.turn
      BY <2>1, <1>6, <1>7
    <3>2. gs[c[1]].turn \in Nat
      BY <1>1, <1>6, CallsAre
    <3>. QED
      BY <2>1, <3>1, <3>2, <1>2 DEF SoonerIn
  <2>. QED
    BY <2>1
<1>10. /\ RepeatedIn(gs) \cap CallsIn(fs) = RepeatedIn(fs)
       /\ DuplicatesIn(gs) \cap CallsIn(fs) = DuplicatesIn(fs)
  <2>1. ASSUME NEW c \in CallsIn(fs)
        PROVE  /\ c \in RepeatedIn(gs) <=> c \in RepeatedIn(fs)
               /\ c \in DuplicatesIn(gs) <=> c \in DuplicatesIn(fs)
    <3>1. c \in RepeatedIn(gs) <=> c \in RepeatedIn(fs)
      BY <1>3, <1>6, <1>9 DEF RepeatedIn
    <3>2. ASSUME NEW b \in CallsIn(fs), SoonerIn(fs, b, c)
          PROVE  (\E d \in CallsIn(gs) : SoonerIn(gs, b, d) /\ SoonerIn(gs, d, c)) <=>
                 (\E d \in CallsIn(fs) : SoonerIn(fs, b, d) /\ SoonerIn(fs, d, c))
      BY <1>3, <1>6, <1>9
    <3>3. c \in DuplicatesIn(gs) <=> c \in DuplicatesIn(fs)
      BY <3>2, <1>3, <1>6, <1>9 DEF DuplicatesIn
    <3>. QED
      BY <3>1, <3>3
  <2>2. RepeatedIn(fs) \in SUBSET CallsIn(fs) /\ DuplicatesIn(fs) \in SUBSET CallsIn(fs)
    BY DEF RepeatedIn, DuplicatesIn
  <2>. QED
    BY <2>1, <2>2
<1>11. ASSUME NEW p, NEW s, CallsTold(fs, p, s, <<>>) PROVE CallsTold(gs, p, f.turn, f.data.calls)
  <2>1. RanIn(fs, s, <<>>) = CallsIn(fs)
    BY WhenAllRan
  <2>2. {CallIn(gs, c) : c \in CallsIn(fs)} = {CallIn(fs, c) : c \in CallsIn(fs)}
    BY <1>3
  <2>3. RepeatedIn(fs) \cap CallsIn(fs) = RepeatedIn(fs) /\ DuplicatesIn(fs) \cap CallsIn(fs) = DuplicatesIn(fs)
    BY DEF RepeatedIn, DuplicatesIn
  <2>4. ASSUME NEW c, IsLast(fs, s, <<>>, c)
        PROVE  IsLast(gs, f.turn, f.data.calls, c) /\ CallIn(gs, c) = CallIn(fs, c)
    BY <2>1, <2>4, <1>3, <1>8 DEF IsLast
  <2>5. IF CallsIn(fs) = {} THEN p.last = 0
        ELSE \E c : IsLast(gs, f.turn, f.data.calls, c) /\ p.last = CallIn(gs, c)
    BY <2>1, <2>4, <1>11 DEF CallsTold
  <2>. QED
    BY <2>1, <2>2, <2>3, <2>5, <1>8, <1>10, <1>11 DEF CallsTold
<1>. QED
  BY <1>4, <1>5, <1>11 DEF gs, m

\* The calls that wait after one of them ran are of the same response.
LEMMA RestGoesOn ==
  ASSUME NEW fs, TraceOf(fs), NEW s, NEW rest \in Made, rest # <<>>, NEW i, RestIsOf(fs, s, rest, i)
  PROVE  RestIsOf(fs, s, Tail(rest), i)
<1>. DEFINE calls == fs[i].data.calls
<1>1. /\ Len(rest) \in Nat \ {0} /\ Head(rest) = rest[1] /\ Tail(rest) \in Seq({1, 2})
      /\ Len(Tail(rest)) = Len(rest) - 1 /\ \A k \in 1..Len(Tail(rest)) : Tail(rest)[k] = rest[k + 1]
  BY DEF Made
<1>2. /\ i \in FoundIn(fs, {"response"}) /\ fs[i].turn = s /\ Len(rest) <= Len(calls)
      /\ calls \in Seq({1, 2}) /\ Len(calls) \in Nat
      /\ \A k \in 1..Len(rest) : rest[k] = calls[Len(calls) - Len(rest) + k]
      /\ \A j \in FoundIn(fs, {"response"}) : fs[j].turn <= s
  BY CallsAre DEF RestIsOf
<1>. HIDE DEF calls
<1>3. ASSUME NEW k \in 1..Len(Tail(rest))
      PROVE  Tail(rest)[k] = calls[Len(calls) - Len(Tail(rest)) + k]
  <2>1. k + 1 \in 1..Len(rest) /\ Tail(rest)[k] = rest[k + 1]
    BY <1>1
  <2>2. rest[k + 1] = calls[Len(calls) - Len(rest) + (k + 1)]
    BY <2>1, <1>2
  <2>3. Len(calls) - Len(rest) + (k + 1) = Len(calls) - Len(Tail(rest)) + k
    BY <1>1, <1>2
  <2>. QED
    BY <2>1, <2>2, <2>3
<1>. QED
  BY <1>1, <1>2, <1>3 DEF RestIsOf, calls

\* A call that waited runs.
LEMMA CallRuns ==
  ASSUME NEW fs, TraceOf(fs), OneReplyEach(fs), NEW s \in Nat, NEW rest \in Made, rest # <<>>,
         NEW i, RestIsOf(fs, s, rest, i), NEW p, CallsTold(fs, p, s, rest), NEW q,
         q.calls = p.calls + 1, q.repeated = IF Head(rest) \in p.seen THEN p.repeated + 1 ELSE p.repeated,
         q.duplicates = IF Head(rest) = p.last THEN p.duplicates + 1 ELSE p.duplicates,
         q.seen = p.seen \cup {Head(rest)}, q.last = Head(rest)
  PROVE  CallsTold(fs, q, s, Tail(rest)) /\ RestIsOf(fs, s, Tail(rest), i)
<1>. DEFINE calls == fs[i].data.calls
            n == Len(calls) - Len(rest) + 1
            x == <<i, n>>
            Ran == RanIn(fs, s, rest)
<1>1. /\ Len(rest) \in Nat \ {0} /\ Head(rest) = rest[1] /\ Tail(rest) \in Seq({1, 2})
      /\ Len(Tail(rest)) = Len(rest) - 1 /\ \A k \in 1..Len(Tail(rest)) : Tail(rest)[k] = rest[k + 1]
  BY DEF Made
<1>2. /\ i \in FoundIn(fs, {"response"}) /\ fs[i].turn = s /\ Len(rest) <= Len(calls)
      /\ calls \in Seq({1, 2}) /\ Len(calls) \in Nat
      /\ \A k \in 1..Len(rest) : rest[k] = calls[Len(calls) - Len(rest) + k]
      /\ \A j \in FoundIn(fs, {"response"}) : fs[j].turn <= s /\ fs[j].turn \in Nat
  BY CallsAre DEF RestIsOf
<1>. HIDE DEF calls
<1>3. /\ n \in 1..Len(calls) /\ n \in Nat /\ Head(rest) = calls[n]
      /\ Len(calls) - Len(Tail(rest)) = n /\ Len(calls) - Len(rest) = n - 1
  BY <1>1, <1>2
<1>. HIDE DEF n
<1>4. x \in CallsIn(fs) /\ x[1] = i /\ x[2] = n /\ CallIn(fs, x) = Head(rest)
  BY <1>2, <1>3, CallsAre DEF CallIn, calls
<1>. HIDE DEF x
<1>5. RestIsOf(fs, s, Tail(rest), i)
  BY RestGoesOn
\* The calls in three: they ran, the one that runs, they wait.
<1>6. ASSUME NEW c \in CallsIn(fs)
      PROVE  /\ c[1] # i => fs[c[1]].turn < s
             /\ c \in Ran <=> c[1] # i \/ c[2] < n
             /\ c \in RanIn(fs, s, Tail(rest)) <=> c[1] # i \/ c[2] <= n
             /\ c = x <=> c[1] = i /\ c[2] = n
             /\ c[2] \in Nat /\ fs[c[1]].turn \in Nat
             /\ c \in Ran <=> SoonerIn(fs, c, x)
  <2>1. c[1] \in FoundIn(fs, {"response"}) /\ c[2] \in Nat /\ fs[c[1]].turn \in Nat /\ c = <<c[1], c[2]>>
    BY CallsAre
  <2>2. c[1] # i => fs[c[1]].turn < s
    BY <2>1, <1>2 DEF OneReplyEach
  <2>3. /\ Waits(fs, c, s, rest) <=> c[1] = i /\ c[2] > n - 1
        /\ Waits(fs, c, s, Tail(rest)) <=> c[1] = i /\ c[2] > n
    <3>1. CASE c[1] = i
      BY <3>1, <1>2, <1>3 DEF Waits, calls
    <3>2. CASE c[1] # i
      <4>1. fs[c[1]].turn # s
        BY <2>1, <2>2, <3>2
      <4>. QED
        BY <3>2, <4>1 DEF Waits
    <3>. QED
      BY <3>1, <3>2
  <2>4. c = x <=> c[1] = i /\ c[2] = n
    BY <2>1 DEF x
  <2>5. SoonerIn(fs, c, x) <=> fs[c[1]].turn < s \/ (c[1] = i /\ c[2] < n)
    BY <1>2, <1>4 DEF SoonerIn
  <2>6. c[1] = i => ~(fs[c[1]].turn < s)
    BY <1>2
  <2>. QED
    BY <2>1, <2>2, <2>3, <2>4, <2>5, <2>6, <1>3 DEF RanIn
<1>7. RanIn(fs, s, Tail(rest)) = Ran \cup {x} /\ x \notin Ran /\ Ran \in SUBSET CallsIn(fs)
  <2>1. Ran \in SUBSET CallsIn(fs) /\ RanIn(fs, s, Tail(rest)) \in SUBSET CallsIn(fs)
    BY DEF RanIn
  <2>2. \A c \in CallsIn(fs) : c \in RanIn(fs, s, Tail(rest)) <=> c \in Ran \/ c = x
    BY <1>3, <1>6
  <2>3. x \notin Ran
    BY <1>3, <1>4, <1>6
  <2>. QED
    BY <2>1, <2>2, <2>3, <1>4
<1>. HIDE DEF Ran
<1>8. /\ IsFiniteSet(Ran) /\ p.calls = Cardinality(Ran) /\ p.seen = {CallIn(fs, c) : c \in Ran}
      /\ p.repeated = Cardinality(RepeatedIn(fs) \cap Ran)
      /\ p.duplicates = Cardinality(DuplicatesIn(fs) \cap Ran)
      /\ Ran = {} => p.last = 0
      /\ Ran # {} => \E c : IsLast(fs, s, rest, c) /\ p.last = CallIn(fs, c)
  BY DEF CallsTold, Ran
<1>9. x \in RepeatedIn(fs) <=> Head(rest) \in p.seen
  BY <1>4, <1>6, <1>7, <1>8 DEF RepeatedIn
<1>10. x \in DuplicatesIn(fs) <=> Head(rest) = p.last
  <2>1. CASE Ran = {}
    <3>1. x \notin DuplicatesIn(fs)
      BY <2>1, <1>6 DEF DuplicatesIn
    <3>2. Head(rest) \in {1, 2}
      BY <1>4, CallsAre
    <3>. QED
      BY <2>1, <3>1, <3>2, <1>8
  <2>2. CASE Ran # {}
    <3>1. PICK c : IsLast(fs, s, rest, c) /\ p.last = CallIn(fs, c)
      BY <2>2, <1>8
    <3>2. c \in Ran /\ c \in CallsIn(fs) /\ SoonerIn(fs, c, x) /\ \A b \in Ran : b = c \/ SoonerIn(fs, b, c)
      BY <3>1, <1>6, <1>7 DEF IsLast, Ran
    <3>3. ASSUME NEW d \in CallsIn(fs), SoonerIn(fs, c, d) PROVE ~SoonerIn(fs, d, x)
      <4>1. ASSUME SoonerIn(fs, d, x) PROVE FALSE
        <5>1. d = c \/ SoonerIn(fs, d, c)
          BY <4>1, <3>2, <3>3, <1>6
        <5>2. /\ c[2] \in Nat /\ d[2] \in Nat /\ fs[c[1]].turn \in Nat /\ fs[d[1]].turn \in Nat
          BY <3>2, <3>3, <1>6
        <5>. QED
          BY <3>3, <5>1, <5>2 DEF SoonerIn
      <4>. QED
        BY <4>1
    <3>4. ASSUME Head(rest) = p.last PROVE x \in DuplicatesIn(fs)
      <4>1. CallIn(fs, c) = CallIn(fs, x) /\ ~\E d \in CallsIn(fs) : SoonerIn(fs, c, d) /\ SoonerIn(fs, d, x)
        BY <3>1, <3>3, <3>4, <1>4
      <4>. QED
        BY <3>2, <4>1, <1>4 DEF DuplicatesIn
    <3>5. ASSUME x \in DuplicatesIn(fs) PROVE Head(rest) = p.last
      <4>1. PICK b \in CallsIn(fs) : /\ SoonerIn(fs, b, x) /\ CallIn(fs, b) = CallIn(fs, x)
                                     /\ ~\E d \in CallsIn(fs) : SoonerIn(fs, b, d) /\ SoonerIn(fs, d, x)
        BY <3>5 DEF DuplicatesIn
      <4>2. b = c
        BY <3>2, <4>1, <1>6
      <4>. QED
        BY <3>1, <4>1, <4>2, <1>4
    <3>. QED
      BY <3>4, <3>5
  <2>. QED
    BY <2>1, <2>2
<1>11. ASSUME NEW S, NEW k \in Nat, k = Cardinality(S \cap Ran)
       PROVE  Cardinality(S \cap (Ran \cup {x})) = IF x \in S THEN k + 1 ELSE k
  <2>1. IsFiniteSet(S \cap Ran) /\ x \notin S \cap Ran
    BY <1>7, <1>8, FS_Subset
  <2>2. CASE x \in S
    <3>1. S \cap (Ran \cup {x}) = (S \cap Ran) \cup {x}
      BY <2>2
    <3>. QED
      BY <2>1, <2>2, <3>1, <1>11, FS_AddElement
  <2>3. CASE x \notin S
    <3>1. S \cap (Ran \cup {x}) = S \cap Ran
      BY <2>3
    <3>. QED
      BY <2>3, <3>1, <1>11
  <2>. QED
    BY <2>2, <2>3
<1>12. Cardinality(RepeatedIn(fs) \cap Ran) \in Nat /\ Cardinality(DuplicatesIn(fs) \cap Ran) \in Nat
  <2>1. IsFiniteSet(RepeatedIn(fs) \cap Ran) /\ IsFiniteSet(DuplicatesIn(fs) \cap Ran)
    BY <1>8, FS_Subset
  <2>. QED
    BY <2>1, FS_CardinalityType
<1>13. IsFiniteSet(Ran \cup {x}) /\ q.calls = Cardinality(Ran \cup {x})
  BY <1>7, <1>8, FS_AddElement
<1>14. q.seen = {CallIn(fs, c) : c \in Ran \cup {x}}
  <2>1. {CallIn(fs, c) : c \in Ran \cup {x}} = {CallIn(fs, c) : c \in Ran} \cup {CallIn(fs, x)}
    OBVIOUS
  <2>. QED
    BY <2>1, <1>4, <1>8
<1>15. /\ q.repeated = Cardinality(RepeatedIn(fs) \cap (Ran \cup {x}))
       /\ q.duplicates = Cardinality(DuplicatesIn(fs) \cap (Ran \cup {x}))
  BY <1>8, <1>9, <1>10, <1>11, <1>12
<1>16. IsLast(fs, s, Tail(rest), x) /\ q.last = CallIn(fs, x) /\ Ran \cup {x} # {}
  <2>1. \A b \in Ran \cup {x} : b = x \/ SoonerIn(fs, b, x)
    BY <1>6, <1>7
  <2>. QED
    BY <2>1, <1>4, <1>7 DEF IsLast
<1>17. CallsTold(fs, q, s, Tail(rest))
  BY <1>7, <1>13, <1>14, <1>15, <1>16 DEF CallsTold
<1>. QED
  BY <1>5, <1>17

\* The turns with a file, and those with calls only: a row of them, in the timeline, is no longer
\* than what was counted, and the row that ends at the last turn answered (before turn lim) is no
\* longer than the streak that goes on.
TimelineIn(fs) == {fs[i].turn : i \in FoundIn(fs, Trace!Told)}
ToolOnly(f) == f.data.calls # <<>> /\ ~f.data.text
ToolOnlyIn(fs) == {fs[i].turn : i \in {j \in FoundIn(fs, {"response"}) : ToolOnly(fs[j])}}
RowIn(T, t, u) == {x \in T : t <= x /\ x <= u}
RowBefore(T, t, lim) == {x \in T : t <= x /\ x < lim}

RowsTold(T, O, p, lim) ==
  /\ T \in SUBSET Nat /\ O \in SUBSET T /\ IsFiniteSet(O)
  /\ p.toolOnly = Cardinality(O)
  /\ \A t, u \in Nat : RowIn(T, t, u) \subseteq O => Cardinality(RowIn(T, t, u)) <= p.longest
  /\ \A t \in Nat : RowBefore(T, t, lim) \subseteq O => Cardinality(RowBefore(T, t, lim)) <= p.streak

LEMMA FilesBreakRows ==
  ASSUME NEW T, NEW O, NEW p, NEW lim \in Nat, RowsTold(T, O, p, lim), NEW y \in Nat
  PROVE  RowsTold(T \cup {y}, O, p, lim)
<1>1. T \in SUBSET Nat /\ O \in SUBSET T
  BY DEF RowsTold
<1>2. ASSUME NEW t \in Nat, NEW u \in Nat, RowIn(T \cup {y}, t, u) \subseteq O
      PROVE  RowIn(T \cup {y}, t, u) = RowIn(T, t, u)
  BY <1>1, <1>2 DEF RowIn
<1>3. ASSUME NEW t \in Nat, RowBefore(T \cup {y}, t, lim) \subseteq O
      PROVE  RowBefore(T \cup {y}, t, lim) = RowBefore(T, t, lim)
  BY <1>1, <1>3 DEF RowBefore
<1>. QED
  BY <1>1, <1>2, <1>3 DEF RowsTold

\* A turn that failed, or was answered with text, ends the row.
LEMMA OtherTurnsEndRows ==
  ASSUME NEW T, NEW O, NEW p, NEW q, NEW s \in Nat, RowsTold(T, O, p, s), s \notin O,
         q.toolOnly = p.toolOnly, q.longest = p.longest,
         q.streak = p.streak \/ (q.streak = 0 /\ s \in T), p.streak \in Nat
  PROVE  RowsTold(T, O, q, s + 1)
<1>1. T \in SUBSET Nat /\ O \in SUBSET T
  BY DEF RowsTold
<1>2. ASSUME NEW t \in Nat, RowBefore(T, t, s + 1) \subseteq O
      PROVE  Cardinality(RowBefore(T, t, s + 1)) <= q.streak
  <2>1. CASE s \in T
    <3>1. t > s
      <4>1. ASSUME t <= s PROVE FALSE
        <5>1. s < s + 1
          OBVIOUS
        <5>2. s \in RowBefore(T, t, s + 1)
          BY <2>1, <4>1, <5>1 DEF RowBefore
        <5>. QED
          BY <5>2, <1>2
      <4>. QED
        BY <4>1, <1>2
    <3>2. RowBefore(T, t, s + 1) = {}
      <4>1. \A x \in Nat : ~(t <= x /\ x < s + 1)
        BY <3>1, <1>2
      <4>. QED
        BY <1>1, <4>1 DEF RowBefore
    <3>. QED
      BY <3>2, FS_EmptySet
  <2>2. CASE s \notin T
    <3>2. ASSUME NEW x \in T PROVE (t <= x /\ x < s + 1) <=> (t <= x /\ x < s)
      <4>1. x \in Nat /\ x # s
        BY <1>1, <2>2, <3>2
      <4>2. x < s + 1 <=> x < s
        BY <4>1
      <4>. QED
        BY <4>2
    <3>1. RowBefore(T, t, s + 1) = RowBefore(T, t, s)
      BY <3>2 DEF RowBefore
    <3>. QED
      BY <3>1, <2>2, <1>2 DEF RowsTold
  <2>. QED
    BY <2>1, <2>2
<1>. QED
  BY <1>1, <1>2 DEF RowsTold

LEMMA TurnsOfCallsMakeRows ==
  ASSUME NEW T, NEW O, NEW p, NEW q, NEW s \in Nat, RowsTold(T, O, p, s), s \notin O, s \in T,
         \A x \in T : x <= s, p.streak \in Nat, p.longest \in Nat, p.toolOnly \in Nat,
         q.toolOnly = p.toolOnly + 1, q.streak = p.streak + 1,
         q.longest = IF p.streak + 1 > p.longest THEN p.streak + 1 ELSE p.longest
  PROVE  RowsTold(T, O \cup {s}, q, s + 1)
<1>1. T \in SUBSET Nat /\ O \in SUBSET T /\ IsFiniteSet(O) /\ p.toolOnly = Cardinality(O)
  BY DEF RowsTold
<1>2. IsFiniteSet(O \cup {s}) /\ Cardinality(O \cup {s}) = p.toolOnly + 1
  BY <1>1, FS_AddElement
\* A row with s is a row before s, and s.
<1>3. ASSUME NEW t \in Nat, RowBefore(T, t, s) \subseteq O
      PROVE  Cardinality(RowBefore(T, t, s) \cup {s}) <= q.streak
  <2>1. Cardinality(RowBefore(T, t, s)) <= p.streak
    BY <1>3 DEF RowsTold
  <2>2. IsFiniteSet(RowBefore(T, t, s)) /\ s \notin RowBefore(T, t, s)
    BY <1>1, <1>3, FS_Subset DEF RowBefore
  <2>3. Cardinality(RowBefore(T, t, s)) \in Nat
    BY <2>2, FS_CardinalityType
  <2>4. Cardinality(RowBefore(T, t, s) \cup {s}) = Cardinality(RowBefore(T, t, s)) + 1
    BY <2>2, FS_AddElement
  <2>. QED
    BY <2>1, <2>3, <2>4
<1>6. \A t \in Nat : s \notin RowBefore(T, t, s)
  BY DEF RowBefore
<1>4. ASSUME NEW t \in Nat, NEW u \in Nat, RowIn(T, t, u) \subseteq O \cup {s}
      PROVE  Cardinality(RowIn(T, t, u)) <= q.longest
  <2>1. CASE s \in RowIn(T, t, u)
    <3>0. t <= s /\ s <= u
      BY <2>1 DEF RowIn
    <3>9. \A x \in T : (t <= x /\ x <= u) <=> ((t <= x /\ x < s) \/ x = s)
      BY <1>1, <1>4, <3>0
    <3>1. RowIn(T, t, u) = RowBefore(T, t, s) \cup {s}
      BY <3>9 DEF RowIn, RowBefore
    <3>2. RowBefore(T, t, s) \subseteq O
      BY <1>4, <3>1, <1>6
    <3>3. Cardinality(RowIn(T, t, u)) <= q.streak
      BY <1>3, <3>1, <3>2
    <3>4. IsFiniteSet(RowIn(T, t, u))
      BY <1>2, <1>4, FS_Subset
    <3>5. Cardinality(RowIn(T, t, u)) \in Nat
      BY <3>4, FS_CardinalityType
    <3>. QED
      BY <3>3, <3>5
  <2>2. CASE s \notin RowIn(T, t, u)
    <3>1. RowIn(T, t, u) \subseteq O
      BY <1>4, <2>2
    <3>2. Cardinality(RowIn(T, t, u)) <= p.longest
      BY <3>1 DEF RowsTold
    <3>3. Cardinality(RowIn(T, t, u)) \in Nat
      BY <1>1, <3>1, FS_Subset, FS_CardinalityType
    <3>. QED
      BY <3>2, <3>3
  <2>. QED
    BY <2>1, <2>2
<1>5. ASSUME NEW t \in Nat, RowBefore(T, t, s + 1) \subseteq O \cup {s}
      PROVE  Cardinality(RowBefore(T, t, s + 1)) <= q.streak
  <2>1. CASE t <= s
    <3>9. \A x \in T : (t <= x /\ x < s + 1) <=> ((t <= x /\ x < s) \/ x = s)
      BY <1>1, <1>5, <2>1
    <3>1. RowBefore(T, t, s + 1) = RowBefore(T, t, s) \cup {s}
      BY <3>9 DEF RowBefore
    <3>2. RowBefore(T, t, s) \subseteq O
      BY <1>5, <3>1, <1>6
    <3>. QED
      BY <1>3, <3>1, <3>2
  <2>2. CASE t > s
    <3>9. \A x \in Nat : ~(t <= x /\ x < s + 1)
      BY <1>5, <2>2
    <3>1. RowBefore(T, t, s + 1) = {}
      BY <1>1, <3>9 DEF RowBefore
    <3>. QED
      BY <3>1, FS_EmptySet
  <2>. QED
    BY <2>1, <2>2
<1>. QED
  BY <1>1, <1>2, <1>4, <1>5 DEF RowsTold

LEMMA TimelineGrows ==
  ASSUME NEW fs, TraceOf(fs), NEW f, Appended(fs, f)
  PROVE  /\ TimelineIn(Append(fs, f)) = IF f.kind \in Trace!Told /\ Trace!Known(f) THEN TimelineIn(fs) \cup {f.turn}
                                        ELSE TimelineIn(fs)
         /\ ToolOnlyIn(Append(fs, f)) = IF f.kind = "response" /\ Trace!Known(f) /\ ToolOnly(f)
                                        THEN ToolOnlyIn(fs) \cup {f.turn} ELSE ToolOnlyIn(fs)
<1>. DEFINE gs == Append(fs, f)
            m == Len(fs) + 1
            R == {j \in FoundIn(fs, {"response"}) : ToolOnly(fs[j])}
<1>1. /\ gs[m] = f /\ m \notin 1..Len(fs) /\ \A i \in 1..Len(fs) : gs[i] = fs[i]
      /\ \A kinds : FoundIn(gs, kinds) = IF f.kind \in kinds /\ Trace!Known(f) THEN FoundIn(fs, kinds) \cup {m}
                                         ELSE FoundIn(fs, kinds)
  BY FileIsAppended
<1>. HIDE DEF gs, m
<1>2. \A kinds : \A i \in FoundIn(fs, kinds) : gs[i] = fs[i]
  BY <1>1 DEF FoundIn
<1>3. TimelineIn(gs) = IF f.kind \in Trace!Told /\ Trace!Known(f) THEN TimelineIn(fs) \cup {f.turn}
                       ELSE TimelineIn(fs)
  <2>1. {gs[i].turn : i \in FoundIn(fs, Trace!Told)} = TimelineIn(fs)
    BY <1>2 DEF TimelineIn
  <2>2. {gs[i].turn : i \in FoundIn(fs, Trace!Told) \cup {m}} =
          {gs[i].turn : i \in FoundIn(fs, Trace!Told)} \cup {f.turn}
    BY <1>1
  <2>. QED
    BY <2>1, <2>2, <1>1 DEF TimelineIn
<1>4. {j \in FoundIn(gs, {"response"}) : ToolOnly(gs[j])} =
        IF f.kind = "response" /\ Trace!Known(f) /\ ToolOnly(f) THEN R \cup {m} ELSE R
  <2>3. f.kind \in {"response"} <=> f.kind = "response"
    OBVIOUS
  <2>1. FoundIn(gs, {"response"}) = IF f.kind = "response" /\ Trace!Known(f) THEN FoundIn(fs, {"response"}) \cup {m}
                                    ELSE FoundIn(fs, {"response"})
    BY <1>1, <2>3, Zenon
  <2>2. {j \in FoundIn(fs, {"response"}) : ToolOnly(gs[j])} = R
    BY <1>2
  <2>. QED
    BY <2>1, <2>2, <1>1
<1>5. R \in SUBSET FoundIn(fs, {"response"})
  OBVIOUS
<1>6. ToolOnlyIn(fs) = {fs[i].turn : i \in R}
  BY DEF ToolOnlyIn
<1>. HIDE DEF R
<1>7. {gs[i].turn : i \in R} = {fs[i].turn : i \in R}
  BY <1>2, <1>5
<1>8. {gs[i].turn : i \in R \cup {m}} = {gs[i].turn : i \in R} \cup {f.turn}
  BY <1>1
<1>9. ToolOnlyIn(gs) = IF f.kind = "response" /\ Trace!Known(f) /\ ToolOnly(f)
                       THEN ToolOnlyIn(fs) \cup {f.turn} ELSE ToolOnlyIn(fs)
  BY <1>4, <1>6, <1>7, <1>8 DEF ToolOnlyIn
<1>. QED
  BY <1>3, <1>9 DEF gs

\* The summary written last outranks the others.
SameName(fs, t, kind) == {i \in 1..Len(fs) : fs[i].turn = t /\ fs[i].kind = kind}
Summaries(fs) == FoundIn(fs, {"profile-summary"})

SummariesTold(fs, sum, s) ==
  /\ \A i \in Summaries(fs) :
       fs[i].turn <= s /\ fs[i].n <= Cardinality(SameName(fs, fs[i].turn, "profile-summary"))
  /\ Summaries(fs) # {} =>
       \E i \in Summaries(fs) :
         fs[i].data = sum /\ \A j \in Summaries(fs) : j = i \/ Trace!Outranks(fs[i], fs[j])

LEMMA NamesGrow ==
  ASSUME NEW fs, TraceOf(fs), NEW f, Appended(fs, f), NEW t, NEW kind
  PROVE  /\ SameName(Append(fs, f), t, kind) =
              IF f.turn = t /\ f.kind = kind THEN SameName(fs, t, kind) \cup {Len(fs) + 1} ELSE SameName(fs, t, kind)
         /\ IsFiniteSet(SameName(fs, t, kind)) /\ Len(fs) + 1 \notin SameName(fs, t, kind)
         /\ Cardinality(SameName(fs, t, kind)) \in Nat
<1>1. /\ Append(fs, f)[Len(fs) + 1] = f /\ Len(fs) + 1 \notin 1..Len(fs) /\ Len(fs) \in Nat
      /\ \A i \in 1..Len(fs) : Append(fs, f)[i] = fs[i]
      /\ 1..Len(Append(fs, f)) = 1..Len(fs) \cup {Len(fs) + 1}
  BY FileIsAppended
<1>2. SameName(Append(fs, f), t, kind) =
        IF f.turn = t /\ f.kind = kind THEN SameName(fs, t, kind) \cup {Len(fs) + 1} ELSE SameName(fs, t, kind)
  BY <1>1 DEF SameName
<1>3. SameName(fs, t, kind) \in SUBSET (1..Len(fs)) /\ IsFiniteSet(1..Len(fs))
  BY <1>1, FS_Interval DEF SameName
<1>4. IsFiniteSet(SameName(fs, t, kind))
  BY <1>3, FS_Subset
<1>. QED
  BY <1>1, <1>2, <1>3, <1>4, FS_CardinalityType

LEMMA OtherFilesAreNoSummaries ==
  ASSUME NEW fs, TraceOf(fs), NEW f, Appended(fs, f), f.kind # "profile-summary",
         NEW sum, NEW s \in Nat, NEW r \in Nat, s <= r, SummariesTold(fs, sum, s)
  PROVE  SummariesTold(Append(fs, f), sum, r)
<1>. DEFINE gs == Append(fs, f)
<1>1. /\ Summaries(gs) = Summaries(fs) /\ Summaries(fs) \in SUBSET (1..Len(fs))
      /\ \A i \in 1..Len(fs) : gs[i] = fs[i] /\ fs[i].turn \in Nat
  BY FileIsAppended, FoundAre DEF Summaries
<1>2. \A t : SameName(gs, t, "profile-summary") = SameName(fs, t, "profile-summary")
  BY NamesGrow
<1>. HIDE DEF gs
<1>3. \A i \in Summaries(fs) : gs[i] = fs[i] /\ fs[i].turn \in Nat
  BY <1>1
<1>. QED
  BY <1>1, <1>2, <1>3 DEF SummariesTold, gs

LEMMA SummaryIsWritten ==
  ASSUME NEW fs, TraceOf(fs), NEW f, Appended(fs, f), f.kind = "profile-summary",
         f.n = Cardinality(SameName(fs, f.turn, "profile-summary")) + 1,
         NEW sum, NEW s \in Nat, s <= f.turn, SummariesTold(fs, sum, s)
  PROVE  SummariesTold(Append(fs, f), f.data, f.turn)
<1>. DEFINE gs == Append(fs, f)
            m == Len(fs) + 1
            F == Summaries(fs)
<1>1. /\ Summaries(gs) = F \cup {m} /\ F \in SUBSET (1..Len(fs)) /\ gs[m] = f /\ m \notin 1..Len(fs)
      /\ \A i \in 1..Len(fs) : gs[i] = fs[i] /\ fs[i].turn \in Nat /\ fs[i].n \in Nat
      /\ f.turn \in Nat
  <2>1. f.kind \in {"profile-summary"} /\ Trace!Known(f)
    BY DEF Trace!Known
  <2>2. Summaries(gs) = F \cup {m}
    BY <2>1, FileIsAppended DEF Summaries
  <2>3. f.turn \in Nat
    BY DEF Appended, TraceFile
  <2>. QED
    BY <2>2, <2>3, FileIsAppended, FoundAre DEF Summaries
<1>2. \A t : /\ SameName(gs, t, "profile-summary") =
                  IF f.turn = t THEN SameName(fs, t, "profile-summary") \cup {m}
                  ELSE SameName(fs, t, "profile-summary")
             /\ IsFiniteSet(SameName(fs, t, "profile-summary")) /\ m \notin SameName(fs, t, "profile-summary")
             /\ Cardinality(SameName(fs, t, "profile-summary")) \in Nat
  BY NamesGrow
<1>. HIDE DEF gs, m, F
<1>3. \A t : Cardinality(SameName(gs, t, "profile-summary")) =
               IF f.turn = t THEN Cardinality(SameName(fs, t, "profile-summary")) + 1
               ELSE Cardinality(SameName(fs, t, "profile-summary"))
  BY <1>2, FS_AddElement
<1>4. \A i \in F : /\ gs[i] = fs[i] /\ fs[i].turn \in Nat /\ fs[i].n \in Nat /\ fs[i].turn <= s
                   /\ fs[i].n <= Cardinality(SameName(fs, fs[i].turn, "profile-summary"))
  BY <1>1 DEF SummariesTold, F
<1>5. ASSUME NEW i \in F \cup {m}
      PROVE  gs[i].turn <= f.turn /\ gs[i].n <= Cardinality(SameName(gs, gs[i].turn, "profile-summary"))
  <2>1. CASE i \in F
    <3>1. /\ fs[i].turn <= s /\ fs[i].n <= Cardinality(SameName(fs, fs[i].turn, "profile-summary"))
          /\ Cardinality(SameName(fs, fs[i].turn, "profile-summary")) \in Nat
          /\ gs[i] = fs[i] /\ fs[i].turn \in Nat /\ fs[i].n \in Nat
      BY <2>1, <1>2, <1>4
    <3>2. \/ Cardinality(SameName(gs, fs[i].turn, "profile-summary")) =
               Cardinality(SameName(fs, fs[i].turn, "profile-summary"))
          \/ Cardinality(SameName(gs, fs[i].turn, "profile-summary")) =
               Cardinality(SameName(fs, fs[i].turn, "profile-summary")) + 1
      BY <1>3
    <3>. QED
      BY <3>1, <3>2, <1>1
  <2>2. CASE i = m
    BY <2>2, <1>1, <1>2, <1>3
  <2>. QED
    BY <2>1, <2>2
<1>6. ASSUME NEW j \in F PROVE Trace!Outranks(f, gs[j])
  <2>1. /\ gs[j] = fs[j] /\ fs[j].turn \in Nat /\ fs[j].n \in Nat /\ fs[j].turn <= s
        /\ fs[j].n <= Cardinality(SameName(fs, fs[j].turn, "profile-summary"))
    BY <1>4
  <2>2. CASE fs[j].turn = f.turn
    <3>1. fs[j].n < f.n
      BY <2>1, <2>2, <1>2
    <3>. QED
      BY <2>1, <2>2, <3>1 DEF Trace!Outranks
  <2>3. CASE fs[j].turn # f.turn
    BY <2>1, <2>3, <1>1 DEF Trace!Outranks
  <2>. QED
    BY <2>2, <2>3
<1>7. \E i \in Summaries(gs) :
        gs[i].data = f.data /\ \A j \in Summaries(gs) : j = i \/ Trace!Outranks(gs[i], gs[j])
  <2>1. m \in Summaries(gs) /\ gs[m].data = f.data
    BY <1>1
  <2>2. \A j \in Summaries(gs) : j = m \/ Trace!Outranks(gs[m], gs[j])
    BY <1>1, <1>6
  <2>. QED
    BY <2>1, <2>2
<1>. QED
  BY <1>1, <1>5, <1>7 DEF SummariesTold, gs

\* What the files tell of the run: fs the files, p the profile, sum the summary written last, s the
\* number of the last request, o the turn that is not answered yet and rest the calls that wait.
CutShort(fs) == \E i \in 1..Len(fs) : fs[i].kind = "before_tool-error"
TurnsUpTo(fs, s, o) ==
  \A i \in 1..Len(fs) : /\ fs[i].turn <= o
                        /\ (fs[i].kind = "request-input" => fs[i].turn <= s)
                        /\ (fs[i].kind = "response" => fs[i].turn < o)

TraceTells(fs, p, sum, s, o, rest) ==
  /\ TraceOf(fs) /\ p \in Profile /\ s \in Nat /\ o \in Nat /\ s <= o
  /\ TurnsUpTo(fs, s, o)
  /\ OneReplyEach(fs)
  /\ Told(fs, p)
  /\ (~CutShort(fs) => CallsTold(fs, p, s, rest))
  /\ RowsTold(TimelineIn(fs), ToolOnlyIn(fs), p, o)
  /\ SummariesTold(fs, sum, s)

\* An error or a compaction.
TroubleKinds == Trace!Errors \cup {"compaction"}

\* TraceWriter::write.
FileFor(fs, t, kind, data) ==
  [turn |-> t, kind |-> kind, n |-> Cardinality(SameName(fs, t, kind)) + 1, data |-> data]

LEMMA FileIsWritten ==
  ASSUME NEW fs, TraceOf(fs), NEW t \in Nat, NEW kind \in FileKinds, NEW data \in TraceData,
         kind = "response" => data \in Reply, kind = "tool-result" => data \in Outcome,
         NEW f, f = FileFor(fs, t, kind, data)
  PROVE  /\ Trace!Written(fs, t, kind, data) = Append(fs, f)
         /\ Appended(fs, f)
         /\ f.turn = t /\ f.kind = kind /\ f.data = data
         /\ f.n = Cardinality(SameName(fs, t, kind)) + 1
         /\ (\A i \in 1..Len(fs) : fs[i].kind = kind => fs[i].turn # t) => f.n = 1
<1>. DEFINE c == Cardinality(SameName(fs, t, kind))
<1>1. DOMAIN fs = 1..Len(fs) /\ Len(fs) \in Nat
  BY DEF TraceOf
<1>2. SameName(fs, t, kind) \in SUBSET (1..Len(fs)) /\ IsFiniteSet(1..Len(fs))
  BY <1>1, FS_Interval DEF SameName
<1>3. c \in Nat
  BY <1>2, FS_Subset, FS_CardinalityType
<1>4. Trace!Written(fs, t, kind, data) = Append(fs, f)
  BY <1>1, FilesCountedTheSame DEF Trace!Written, FileFor, SameName
<1>5. /\ f.turn = t /\ f.kind = kind /\ f.data = data /\ f.n = c + 1
      /\ f = [turn |-> t, kind |-> kind, n |-> c + 1, data |-> data]
  BY DEF FileFor
<1>. HIDE DEF c
<1>6. f \in TraceFile
  BY <1>3, <1>5 DEF TraceFile
<1>7. HasItsData(f)
  BY <1>5 DEF HasItsData
<1>8. ASSUME \A i \in 1..Len(fs) : fs[i].kind = kind => fs[i].turn # t PROVE c = 0
  <2>1. SameName(fs, t, kind) = {}
    BY <1>8 DEF SameName
  <2>. QED
    BY <2>1, FS_EmptySet DEF c
<1>9. (\A i \in 1..Len(fs) : fs[i].kind = kind => fs[i].turn # t) => f.n = 1
  BY <1>5, <1>8
<1>. QED
  BY <1>4, <1>5, <1>6, <1>7, <1>9 DEF Appended, c

LEMMA PlainFileIsWritten ==
  ASSUME NEW fs, TraceOf(fs), NEW t \in Nat, NEW kind \in FileKinds \ {"response", "tool-result"},
         NEW data \in TraceData, NEW f, f = FileFor(fs, t, kind, data)
  PROVE  /\ Trace!Written(fs, t, kind, data) = Append(fs, f)
         /\ Appended(fs, f)
         /\ f.turn = t /\ f.kind = kind /\ f.data = data
         /\ f.n = Cardinality(SameName(fs, t, kind)) + 1
         /\ (\A i \in 1..Len(fs) : fs[i].kind = kind => fs[i].turn # t) => f.n = 1
  BY FileIsWritten

LEMMA ReplyIsWritten ==
  ASSUME NEW fs, TraceOf(fs), NEW t \in Nat, NEW data \in Reply, NEW f, f = FileFor(fs, t, "response", data),
         \A i \in 1..Len(fs) : fs[i].kind = "response" => fs[i].turn # t
  PROVE  /\ Trace!Written(fs, t, "response", data) = Append(fs, f)
         /\ Appended(fs, f) /\ f.turn = t /\ f.kind = "response" /\ f.data = data /\ f.n = 1
<1>1. "response" \in FileKinds /\ data \in TraceData
  BY DEF FileKinds, Trace!Told, TraceData
<1>2. "response" = "tool-result" => data \in Outcome
  OBVIOUS
<1>3. /\ Trace!Written(fs, t, "response", data) = Append(fs, f)
      /\ Appended(fs, f) /\ f.turn = t /\ f.kind = "response" /\ f.data = data
      /\ (\A i \in 1..Len(fs) : fs[i].kind = "response" => fs[i].turn # t) => f.n = 1
  BY <1>1, <1>2, FileIsWritten
<1>. QED
  BY <1>3

LEMMA OutcomeIsWritten ==
  ASSUME NEW fs, TraceOf(fs), NEW t \in Nat, NEW data \in Outcome, NEW f, f = FileFor(fs, t, "tool-result", data)
  PROVE  /\ Trace!Written(fs, t, "tool-result", data) = Append(fs, f)
         /\ Appended(fs, f) /\ f.turn = t /\ f.kind = "tool-result" /\ f.data = data
<1>1. "tool-result" \in FileKinds /\ data \in TraceData
  BY DEF FileKinds, Trace!Told, TraceData
<1>2. "tool-result" = "response" => data \in Reply
  OBVIOUS
<1>. QED
  BY <1>1, <1>2, FileIsWritten

LEMMA PlainKinds ==
  /\ {"compaction", "request-input", "profile-summary"} \subseteq FileKinds \ {"response", "tool-result"}
  /\ TroubleKinds \subseteq FileKinds \ {"response", "tool-result"}
  BY DEF FileKinds, TroubleKinds, Trace!Told, Trace!Errors

LEMMA TurnsGrow ==
  ASSUME NEW fs, TraceOf(fs), NEW f, Appended(fs, f), NEW s \in Nat, NEW o \in Nat, TurnsUpTo(fs, s, o),
         NEW r \in Nat, NEW u \in Nat, s <= r, o <= u, f.turn <= u, f.kind = "request-input" => f.turn <= r,
         f.kind = "response" => f.turn < u
  PROVE  TurnsUpTo(Append(fs, f), r, u)
<1>. DEFINE gs == Append(fs, f)
<1>1. /\ gs[Len(fs) + 1] = f /\ \A i \in 1..Len(fs) : gs[i] = fs[i] /\ fs[i].turn \in Nat
      /\ 1..Len(gs) = 1..Len(fs) \cup {Len(fs) + 1}
  BY FileIsAppended, FoundAre
<1>. HIDE DEF gs
<1>2. ASSUME NEW i \in 1..Len(fs)
      PROVE  /\ gs[i].turn <= u /\ (gs[i].kind = "request-input" => gs[i].turn <= r)
             /\ (gs[i].kind = "response" => gs[i].turn < u)
  BY <1>1 DEF TurnsUpTo
<1>3. \A i \in 1..Len(gs) : /\ gs[i].turn <= u /\ (gs[i].kind = "request-input" => gs[i].turn <= r)
                            /\ (gs[i].kind = "response" => gs[i].turn < u)
  BY <1>1, <1>2
<1>. QED
  BY <1>3 DEF TurnsUpTo, gs

LEMMA TurnsBelow ==
  ASSUME NEW fs, TraceOf(fs), NEW s \in Nat, NEW o \in Nat, TurnsUpTo(fs, s, o)
  PROVE  /\ o \notin ToolOnlyIn(fs)
         /\ \A t \in TimelineIn(fs) : t <= o
         /\ \A i \in FoundIn(fs, {"response"}) : fs[i].turn < o
         /\ \A r \in Nat, u \in Nat : s <= r /\ o <= u => TurnsUpTo(fs, r, u)
<1>1. \A i \in 1..Len(fs) : fs[i].turn \in Nat
  BY FoundAre
<1>2. \A i \in FoundIn(fs, {"response"}) : i \in 1..Len(fs) /\ fs[i].kind = "response"
  BY DEF FoundIn
<1>3. \A i \in FoundIn(fs, {"response"}) : fs[i].turn < o /\ fs[i].turn # o
  BY <1>1, <1>2 DEF TurnsUpTo
<1>4. o \notin ToolOnlyIn(fs)
  BY <1>3 DEF ToolOnlyIn
<1>5. \A t \in TimelineIn(fs) : t <= o
  BY DEF TimelineIn, FoundIn, TurnsUpTo
<1>6. ASSUME NEW r \in Nat, NEW u \in Nat, s <= r, o <= u PROVE TurnsUpTo(fs, r, u)
  BY <1>1, <1>6 DEF TurnsUpTo
<1>. QED
  BY <1>3, <1>4, <1>5, <1>6

LEMMA CallsStayTold ==
  ASSUME NEW fs, TraceOf(fs), NEW p, NEW q, NEW s, NEW r,
         q.calls = p.calls, q.seen = p.seen, q.repeated = p.repeated, q.duplicates = p.duplicates, q.last = p.last
  PROVE  /\ \A rest : CallsTold(fs, p, s, rest) => CallsTold(fs, q, s, rest)
         /\ CallsTold(fs, p, s, <<>>) => CallsTold(fs, q, r, <<>>)
<1>1. \A rest : CallsTold(fs, p, s, rest) => CallsTold(fs, q, s, rest)
  BY DEF CallsTold
<1>2. RanIn(fs, r, <<>>) = RanIn(fs, s, <<>>)
  BY WhenAllRan
<1>3. \A c : IsLast(fs, r, <<>>, c) <=> IsLast(fs, s, <<>>, c)
  BY <1>2 DEF IsLast
<1>4. CallsTold(fs, q, s, <<>>) => CallsTold(fs, q, r, <<>>)
  BY <1>2, <1>3 DEF CallsTold
<1>. QED
  BY <1>1, <1>4

LEMMA TroubleIsTold ==
  ASSUME NEW fs, NEW p, NEW sum, NEW s, NEW o, NEW rest, TraceTells(fs, p, sum, s, o, rest),
         NEW f, Appended(fs, f), f.kind \in TroubleKinds, f.turn <= o,
         NEW q \in Profile, SameTold(p, q),
         NEW left, left = rest \/ f.kind = "before_tool-error"
  PROVE  TraceTells(Append(fs, f), q, sum, s, o, left)
<1>. DEFINE gs == Append(fs, f)
<1>1. /\ TraceOf(fs) /\ p \in Profile /\ s \in Nat /\ o \in Nat /\ s <= o /\ TurnsUpTo(fs, s, o)
      /\ OneReplyEach(fs) /\ Told(fs, p) /\ (~CutShort(fs) => CallsTold(fs, p, s, rest))
      /\ RowsTold(TimelineIn(fs), ToolOnlyIn(fs), p, o) /\ SummariesTold(fs, sum, s)
  BY DEF TraceTells
<1>2. /\ f.kind \notin {"request-input", "response", "tool-result", "profile-summary"}
      /\ f.turn \in Nat
  BY DEF TroubleKinds, Trace!Errors, Appended, TraceFile
<1>3. TraceOf(gs)
  BY <1>1, FileIsAppended
<1>4. TurnsUpTo(gs, s, o)
  BY <1>1, <1>2, TurnsGrow
<1>5. OneReplyEach(gs) /\ \A c : CallsTold(fs, c, s, rest) => CallsTold(gs, c, s, rest)
  BY <1>1, <1>2, OtherFilesTellNoCalls
<1>6. Told(gs, q)
  <2>1. Told(gs, p)
    BY <1>1, <1>2, OtherFilesTellNoCounts
  <2>. QED
    BY <2>1 DEF Told, SameTold
<1>7. ~CutShort(gs) => CallsTold(gs, q, s, left)
  <2>1. /\ \A i \in 1..Len(fs) : gs[i] = fs[i]
        /\ 1..Len(gs) = 1..Len(fs) \cup {Len(fs) + 1} /\ gs[Len(fs) + 1] = f
    BY <1>1, FileIsAppended
  <2>. HIDE DEF gs
  <2>2. ~CutShort(gs) => ~CutShort(fs) /\ f.kind # "before_tool-error"
    BY <2>1 DEF CutShort
  <2>3. CallsTold(fs, p, s, rest) => CallsTold(fs, q, s, rest)
    BY <1>1, CallsStayTold DEF SameTold
  <2>. QED
    BY <1>1, <1>5, <2>2, <2>3
<1>8. RowsTold(TimelineIn(gs), ToolOnlyIn(gs), q, o)
  <2>1. /\ TimelineIn(gs) = IF f.kind \in Trace!Told /\ Trace!Known(f) THEN TimelineIn(fs) \cup {f.turn}
                            ELSE TimelineIn(fs)
        /\ ToolOnlyIn(gs) = ToolOnlyIn(fs)
    BY <1>1, <1>2, TimelineGrows
  <2>2. RowsTold(TimelineIn(fs) \cup {f.turn}, ToolOnlyIn(fs), p, o)
    BY <1>1, <1>2, FilesBreakRows
  <2>3. RowsTold(TimelineIn(gs), ToolOnlyIn(gs), p, o)
    BY <2>1, <2>2, <1>1
  <2>. HIDE DEF gs
  <2>. QED
    BY <2>3 DEF RowsTold, SameTold
<1>9. SummariesTold(gs, sum, s)
  BY <1>1, <1>2, OtherFilesAreNoSummaries
<1>. QED
  BY <1>1, <1>3, <1>4, <1>5, <1>6, <1>7, <1>8, <1>9 DEF TraceTells

LEMMA SummaryIsTold ==
  ASSUME NEW fs, NEW p, NEW sum, NEW s, NEW o, NEW rest, TraceTells(fs, p, sum, s, o, rest),
         NEW f, Appended(fs, f), f.kind = "profile-summary", f.turn = s,
         f.n = Cardinality(SameName(fs, f.turn, "profile-summary")) + 1
  PROVE  TraceTells(Append(fs, f), p, f.data, s, o, rest)
<1>. DEFINE gs == Append(fs, f)
<1>1. /\ TraceOf(fs) /\ p \in Profile /\ s \in Nat /\ o \in Nat /\ s <= o /\ TurnsUpTo(fs, s, o)
      /\ OneReplyEach(fs) /\ Told(fs, p) /\ (~CutShort(fs) => CallsTold(fs, p, s, rest))
      /\ RowsTold(TimelineIn(fs), ToolOnlyIn(fs), p, o) /\ SummariesTold(fs, sum, s)
  BY DEF TraceTells
<1>3. TraceOf(gs)
  BY <1>1, FileIsAppended
<1>4. TurnsUpTo(gs, s, o)
  BY <1>1, TurnsGrow
<1>5. OneReplyEach(gs) /\ (CallsTold(fs, p, s, rest) => CallsTold(gs, p, s, rest))
  BY <1>1, OtherFilesTellNoCalls
<1>6. Told(gs, p)
  BY <1>1, OtherFilesTellNoCounts
<1>7. ~CutShort(gs) => CallsTold(gs, p, s, rest)
  <2>1. /\ \A i \in 1..Len(fs) : gs[i] = fs[i]
        /\ 1..Len(gs) = 1..Len(fs) \cup {Len(fs) + 1}
    BY <1>1, FileIsAppended
  <2>. HIDE DEF gs
  <2>2. ~CutShort(gs) => ~CutShort(fs)
    BY <2>1 DEF CutShort
  <2>. QED
    BY <1>1, <1>5, <2>2
<1>8. RowsTold(TimelineIn(gs), ToolOnlyIn(gs), p, o)
  <2>1. "profile-summary" \notin Trace!Told
    BY DEF Trace!Told, Trace!Errors
  <2>2. TimelineIn(gs) = TimelineIn(fs) /\ ToolOnlyIn(gs) = ToolOnlyIn(fs)
    BY <1>1, <2>1, TimelineGrows
  <2>. QED
    BY <1>1, <2>2
<1>9. SummariesTold(gs, f.data, s)
  BY <1>1, SummaryIsWritten
<1>. QED
  BY <1>1, <1>3, <1>4, <1>5, <1>6, <1>7, <1>8, <1>9 DEF TraceTells

\* The number of requests grows, or the turn is over without an answer.
LEMMA TurnsGoOn ==
  ASSUME NEW fs, NEW p, NEW sum, NEW s, NEW o, TraceTells(fs, p, sum, s, o, <<>>)
  PROVE  /\ TraceTells(fs, p, sum, o, o, <<>>)
         /\ TraceTells(fs, p, sum, s, o + 1, <<>>)
<1>1. /\ TraceOf(fs) /\ p \in Profile /\ s \in Nat /\ o \in Nat /\ s <= o /\ TurnsUpTo(fs, s, o)
      /\ OneReplyEach(fs) /\ Told(fs, p) /\ (~CutShort(fs) => CallsTold(fs, p, s, <<>>))
      /\ RowsTold(TimelineIn(fs), ToolOnlyIn(fs), p, o) /\ SummariesTold(fs, sum, s)
  BY DEF TraceTells
<1>2. TurnsUpTo(fs, o, o) /\ TurnsUpTo(fs, s, o + 1)
  BY <1>1, TurnsBelow
<1>3. CallsTold(fs, p, s, <<>>) => CallsTold(fs, p, o, <<>>)
  BY <1>1, CallsStayTold
<1>4. SummariesTold(fs, sum, o)
  <2>1. \A i \in Summaries(fs) : fs[i].turn \in Nat
    BY <1>1, FoundAre DEF Summaries
  <2>. QED
    BY <1>1, <2>1 DEF SummariesTold
<1>5. RowsTold(TimelineIn(fs), ToolOnlyIn(fs), p, o + 1)
  <2>1. o \notin ToolOnlyIn(fs) /\ p.streak \in Nat
    BY <1>1, TurnsBelow DEF Profile
  <2>. QED
    BY <1>1, <2>1, OtherTurnsEndRows
<1>. QED
  BY <1>1, <1>2, <1>3, <1>4, <1>5 DEF TraceTells

LEMMA RequestIsTold ==
  ASSUME NEW fs, NEW p, NEW sum, NEW s, NEW o, TraceTells(fs, p, sum, s, o, <<>>), s < o,
         NEW f, Appended(fs, f), f.kind = "request-input", f.turn = o, f.n = 1
  PROVE  TraceTells(Append(fs, f), Trace!Count(p, "requests"), sum, o, o, <<>>)
<1>. DEFINE gs == Append(fs, f)
            q == Trace!Count(p, "requests")
<1>1. /\ TraceOf(fs) /\ p \in Profile /\ s \in Nat /\ o \in Nat /\ s <= o /\ TurnsUpTo(fs, s, o)
      /\ OneReplyEach(fs) /\ Told(fs, p) /\ (~CutShort(fs) => CallsTold(fs, p, s, <<>>))
      /\ RowsTold(TimelineIn(fs), ToolOnlyIn(fs), p, o) /\ SummariesTold(fs, sum, s)
  BY DEF TraceTells
<1>2. /\ q \in Profile /\ q.requests = p.requests + 1 /\ q.results = p.results /\ q.failures = p.failures
      /\ q.hits = p.hits /\ q.calls = p.calls /\ q.seen = p.seen /\ q.repeated = p.repeated
      /\ q.duplicates = p.duplicates /\ q.last = p.last /\ q.toolOnly = p.toolOnly
      /\ q.streak = p.streak /\ q.longest = p.longest
  BY <1>1, RequestIsCounted
<1>. HIDE DEF q
<1>3. TraceOf(gs)
  BY <1>1, FileIsAppended
<1>4. TurnsUpTo(gs, o, o)
  BY <1>1, TurnsGrow
<1>5. OneReplyEach(gs) /\ \A c : CallsTold(fs, c, o, <<>>) => CallsTold(gs, c, o, <<>>)
  BY <1>1, OtherFilesTellNoCalls
<1>6. Told(gs, q)
  BY <1>1, <1>2, RequestsAreTold
<1>7. ~CutShort(gs) => CallsTold(gs, q, o, <<>>)
  <2>1. /\ \A i \in 1..Len(fs) : gs[i] = fs[i]
        /\ 1..Len(gs) = 1..Len(fs) \cup {Len(fs) + 1}
    BY <1>1, FileIsAppended
  <2>. HIDE DEF gs
  <2>2. ~CutShort(gs) => ~CutShort(fs)
    BY <2>1 DEF CutShort
  <2>3. CallsTold(fs, p, s, <<>>) => CallsTold(fs, q, o, <<>>)
    BY <1>1, <1>2, CallsStayTold
  <2>. QED
    BY <1>1, <1>5, <2>2, <2>3
<1>8. RowsTold(TimelineIn(gs), ToolOnlyIn(gs), q, o)
  <2>1. /\ TimelineIn(gs) = IF f.kind \in Trace!Told /\ Trace!Known(f) THEN TimelineIn(fs) \cup {f.turn}
                            ELSE TimelineIn(fs)
        /\ ToolOnlyIn(gs) = ToolOnlyIn(fs)
    BY <1>1, TimelineGrows
  <2>2. RowsTold(TimelineIn(fs) \cup {f.turn}, ToolOnlyIn(fs), p, o)
    BY <1>1, FilesBreakRows
  <2>3. RowsTold(TimelineIn(gs), ToolOnlyIn(gs), p, o)
    BY <2>1, <2>2, <1>1
  <2>. HIDE DEF gs
  <2>. QED
    BY <2>3, <1>2 DEF RowsTold
<1>9. SummariesTold(gs, sum, o)
  BY <1>1, OtherFilesAreNoSummaries
<1>. QED
  BY <1>1, <1>2, <1>3, <1>4, <1>5, <1>6, <1>7, <1>8, <1>9 DEF TraceTells, q

LEMMA ResponseIsTold ==
  ASSUME NEW fs, NEW p, NEW sum, NEW s, TraceTells(fs, p, sum, s, s, <<>>),
         NEW f, Appended(fs, f), f.kind = "response", f.turn = s, f.n = 1
  PROVE  /\ TraceTells(Append(fs, f), Trace!RecordTurnActivity(p, f.data.calls, f.data.text), sum,
                       s, s + 1, f.data.calls)
         /\ RestIsOf(Append(fs, f), s, f.data.calls, Len(fs) + 1)
<1>. DEFINE gs == Append(fs, f)
            q == Trace!RecordTurnActivity(p, f.data.calls, f.data.text)
            O == ToolOnlyIn(fs)
            T == TimelineIn(fs)
<1>1. /\ TraceOf(fs) /\ p \in Profile /\ s \in Nat /\ TurnsUpTo(fs, s, s)
      /\ OneReplyEach(fs) /\ Told(fs, p) /\ (~CutShort(fs) => CallsTold(fs, p, s, <<>>))
      /\ RowsTold(T, O, p, s) /\ SummariesTold(fs, sum, s)
  BY DEF TraceTells
<1>2. /\ q \in Profile /\ q.requests = p.requests /\ q.results = p.results /\ q.failures = p.failures
      /\ q.hits = p.hits /\ q.calls = p.calls /\ q.seen = p.seen /\ q.repeated = p.repeated
      /\ q.duplicates = p.duplicates /\ q.last = p.last
      /\ IF ToolOnly(f)
         THEN /\ q.toolOnly = p.toolOnly + 1 /\ q.streak = p.streak + 1
              /\ q.longest = IF p.streak + 1 > p.longest THEN p.streak + 1 ELSE p.longest
         ELSE q.toolOnly = p.toolOnly /\ q.streak = 0 /\ q.longest = p.longest
  BY <1>1, TurnIsCounted DEF ToolOnly
<1>. HIDE DEF q
<1>10. /\ \A t \in T : t <= s
       /\ \A i \in FoundIn(fs, {"response"}) : fs[i].turn < f.turn
       /\ s \notin O
  BY <1>1, TurnsBelow
<1>3. TraceOf(gs)
  BY <1>1, FileIsAppended
<1>4. TurnsUpTo(gs, s, s + 1)
  BY <1>1, TurnsGrow
<1>5. /\ OneReplyEach(gs) /\ RestIsOf(gs, s, f.data.calls, Len(fs) + 1)
      /\ \A c : CallsTold(fs, c, s, <<>>) => CallsTold(gs, c, s, f.data.calls)
  BY <1>1, <1>10, ReplyIsAdded
<1>6. Told(gs, q)
  <2>1. Told(gs, p)
    BY <1>1, OtherFilesTellNoCounts
  <2>. QED
    BY <2>1, <1>2 DEF Told
<1>7. ~CutShort(gs) => CallsTold(gs, q, s, f.data.calls)
  <2>1. /\ \A i \in 1..Len(fs) : gs[i] = fs[i]
        /\ 1..Len(gs) = 1..Len(fs) \cup {Len(fs) + 1}
    BY <1>1, FileIsAppended
  <2>. HIDE DEF gs
  <2>2. ~CutShort(gs) => ~CutShort(fs)
    BY <2>1 DEF CutShort
  <2>3. CallsTold(fs, p, s, <<>>) => CallsTold(fs, q, s, <<>>)
    BY <1>1, <1>2, CallsStayTold
  <2>. QED
    BY <1>1, <1>5, <2>2, <2>3
<1>8. RowsTold(TimelineIn(gs), ToolOnlyIn(gs), q, s + 1)
  <2>0. f.kind \in Trace!Told /\ Trace!Known(f)
    BY DEF Trace!Told, Trace!Known
  <2>1. /\ TimelineIn(gs) = T \cup {s}
        /\ ToolOnlyIn(gs) = IF ToolOnly(f) THEN O \cup {s} ELSE O
    BY <1>1, <2>0, TimelineGrows
  <2>. HIDE DEF gs, O, T
  <2>2. RowsTold(T \cup {s}, O, p, s)
    BY <1>1, FilesBreakRows
  <2>3. p.streak \in Nat /\ p.longest \in Nat /\ p.toolOnly \in Nat
    BY <1>1 DEF Profile
  <2>4. s \in T \cup {s} /\ \A t \in T \cup {s} : t <= s
    BY <1>1, <1>10
  <2>5. CASE ToolOnly(f)
    <3>1. /\ q.toolOnly = p.toolOnly + 1 /\ q.streak = p.streak + 1
          /\ q.longest = IF p.streak + 1 > p.longest THEN p.streak + 1 ELSE p.longest
      BY <2>5, <1>2
    <3>2. RowsTold(T \cup {s}, O \cup {s}, q, s + 1)
      BY <3>1, <1>1, <1>10, <2>2, <2>3, <2>4, TurnsOfCallsMakeRows
    <3>. QED
      BY <2>1, <2>5, <3>2
  <2>6. CASE ~ToolOnly(f)
    <3>1. q.toolOnly = p.toolOnly /\ q.streak = 0 /\ q.longest = p.longest
      BY <2>6, <1>2
    <3>2. RowsTold(T \cup {s}, O, q, s + 1)
      BY <3>1, <1>1, <1>10, <2>2, <2>3, <2>4, OtherTurnsEndRows
    <3>. QED
      BY <2>1, <2>6, <3>2
  <2>. QED
    BY <2>5, <2>6
<1>9. SummariesTold(gs, sum, s)
  BY <1>1, OtherFilesAreNoSummaries
<1>. QED
  BY <1>1, <1>2, <1>3, <1>4, <1>5, <1>6, <1>7, <1>8, <1>9 DEF TraceTells, q

LEMMA ResultIsTold ==
  ASSUME NEW fs, NEW p, NEW sum, NEW s, NEW o, NEW rest \in Made, rest # <<>>,
         TraceTells(fs, p, sum, s, o, rest), NEW i, RestIsOf(fs, s, rest, i),
         NEW f, Appended(fs, f), f.kind = "tool-result", f.turn = s
  PROVE  /\ TraceTells(Append(fs, f), Trace!RecordResult(Trace!RecordCall(p, Head(rest)), f.data), sum,
                       s, o, Tail(rest))
         /\ RestIsOf(Append(fs, f), s, Tail(rest), i)
<1>. DEFINE gs == Append(fs, f)
            c == Trace!RecordCall(p, Head(rest))
            q == Trace!RecordResult(c, f.data)
<1>1. /\ TraceOf(fs) /\ p \in Profile /\ s \in Nat /\ o \in Nat /\ s <= o /\ TurnsUpTo(fs, s, o)
      /\ OneReplyEach(fs) /\ Told(fs, p) /\ (~CutShort(fs) => CallsTold(fs, p, s, rest))
      /\ RowsTold(TimelineIn(fs), ToolOnlyIn(fs), p, o) /\ SummariesTold(fs, sum, s)
  BY DEF TraceTells
<1>11. Head(rest) \in {1, 2} /\ f.data \in Outcome
  BY DEF Made, Appended, HasItsData
<1>12. /\ c \in Profile /\ c.requests = p.requests /\ c.results = p.results /\ c.failures = p.failures
       /\ c.hits = p.hits /\ c.calls = p.calls + 1 /\ c.seen = p.seen \cup {Head(rest)}
       /\ c.repeated = IF Head(rest) \in p.seen THEN p.repeated + 1 ELSE p.repeated
       /\ c.duplicates = IF Head(rest) = p.last THEN p.duplicates + 1 ELSE p.duplicates
       /\ c.last = Head(rest) /\ c.toolOnly = p.toolOnly
       /\ c.streak = p.streak /\ c.longest = p.longest
  BY <1>1, <1>11, CallIsCounted
<1>. HIDE DEF c
<1>2. /\ q \in Profile /\ q.requests = p.requests /\ q.results = p.results + 1
      /\ q.failures = IF f.data.ok THEN p.failures ELSE p.failures + 1
      /\ q.hits = IF f.data.cached THEN p.hits + 1 ELSE p.hits
      /\ q.calls = c.calls /\ q.seen = c.seen
      /\ q.repeated = c.repeated /\ q.duplicates = c.duplicates
      /\ q.last = c.last /\ q.toolOnly = p.toolOnly
      /\ q.streak = p.streak /\ q.longest = p.longest
  BY <1>12, <1>11, ResultIsCounted
<1>. HIDE DEF q
<1>3. TraceOf(gs)
  BY <1>1, FileIsAppended
<1>4. TurnsUpTo(gs, s, o)
  BY <1>1, TurnsGrow
<1>13. RestIsOf(fs, s, Tail(rest), i) /\ (CallsTold(fs, p, s, rest) => CallsTold(fs, q, s, Tail(rest)))
  <2>1. RestIsOf(fs, s, Tail(rest), i)
    BY <1>1, RestGoesOn
  <2>2. ASSUME CallsTold(fs, p, s, rest) PROVE CallsTold(fs, q, s, Tail(rest))
    BY <1>1, <1>2, <1>12, <2>2, CallRuns
  <2>. QED
    BY <2>1, <2>2
<1>5. /\ OneReplyEach(gs) /\ RestIsOf(gs, s, Tail(rest), i)
      /\ \A r : CallsTold(fs, r, s, Tail(rest)) => CallsTold(gs, r, s, Tail(rest))
  BY <1>1, <1>13, OtherFilesTellNoCalls
<1>6. Told(gs, q)
  BY <1>1, <1>2, ResultsAreTold
<1>7. ~CutShort(gs) => CallsTold(gs, q, s, Tail(rest))
  <2>1. /\ \A j \in 1..Len(fs) : gs[j] = fs[j]
        /\ 1..Len(gs) = 1..Len(fs) \cup {Len(fs) + 1}
    BY <1>1, FileIsAppended
  <2>. HIDE DEF gs
  <2>2. ~CutShort(gs) => ~CutShort(fs)
    BY <2>1 DEF CutShort
  <2>. QED
    BY <1>1, <1>5, <1>13, <2>2
<1>8. RowsTold(TimelineIn(gs), ToolOnlyIn(gs), q, o)
  <2>1. /\ TimelineIn(gs) = IF f.kind \in Trace!Told /\ Trace!Known(f) THEN TimelineIn(fs) \cup {f.turn}
                            ELSE TimelineIn(fs)
        /\ ToolOnlyIn(gs) = ToolOnlyIn(fs)
    BY <1>1, TimelineGrows
  <2>2. RowsTold(TimelineIn(fs) \cup {f.turn}, ToolOnlyIn(fs), p, o)
    BY <1>1, FilesBreakRows
  <2>3. RowsTold(TimelineIn(gs), ToolOnlyIn(gs), p, o)
    BY <2>1, <2>2, <1>1
  <2>. HIDE DEF gs
  <2>. QED
    BY <2>3, <1>2 DEF RowsTold
<1>9. SummariesTold(gs, sum, s)
  BY <1>1, OtherFilesAreNoSummaries
<1>. QED
  BY <1>1, <1>2, <1>3, <1>4, <1>5, <1>6, <1>7, <1>8, <1>9 DEF TraceTells, q, c

-----------------------------------------------------------------------------
\* The loop.  own is what the profile counted since the conversation began or was loaded.
TraceOwn(own) ==
  /\ stage \in {"idle", "turn", "compacted", "asked", "calls"}
  /\ seq \in Nat /\ loop \in Nat /\ pending \in Made
  /\ (stage # "idle" => loop <= IF stage \in {"asked", "calls"} THEN seq ELSE seq + 1)
  /\ (stage # "calls" => pending = <<>>)
  /\ (stage = "calls" => pending # <<>> /\ \E i : RestIsOf(written, seq, pending, i))
  /\ TraceTells(written, own, summary, seq, IF stage = "asked" THEN seq ELSE seq + 1, pending)

\* The profile p counted own above what b had.  A call that b had seen is repeated in p and not
\* in own.
Grown(own, b, p) ==
  /\ p.requests = own.requests + b.requests /\ p.results = own.results + b.results
  /\ p.failures = own.failures + b.failures /\ p.hits = own.hits + b.hits
  /\ p.calls = own.calls + b.calls /\ p.toolOnly = own.toolOnly + b.toolOnly
  /\ own.repeated + b.repeated <= p.repeated /\ own.duplicates + b.duplicates <= p.duplicates
  /\ own.streak <= p.streak /\ own.longest <= p.longest
  /\ own.seen \subseteq p.seen /\ own.last \in {0, p.last}
  /\ b = Trace!Fresh => p = own

TraceInv ==
  /\ live \in Profile /\ base \in Profile
  /\ \E own \in Profile : TraceOwn(own) /\ Grown(own, base, live)

LEMMA NothingCounted ==
  /\ Trace!Fresh \in Profile
  /\ Trace!Fresh.requests = 0 /\ Trace!Fresh.results = 0 /\ Trace!Fresh.failures = 0 /\ Trace!Fresh.hits = 0
  /\ Trace!Fresh.calls = 0 /\ Trace!Fresh.seen = {} /\ Trace!Fresh.repeated = 0 /\ Trace!Fresh.duplicates = 0
  /\ Trace!Fresh.last = 0 /\ Trace!Fresh.toolOnly = 0 /\ Trace!Fresh.longest = 0 /\ Trace!Fresh.streak = 0
<1>1. Trace!Fresh \in Profile
  BY DEF Trace!Fresh, Profile
<1>. QED
  BY <1>1 DEF Trace!Fresh

LEMMA NoFileYet ==
  ASSUME NEW sum, NEW n \in Nat
  PROVE  TraceTells(<<>>, Trace!Fresh, sum, n, n + 1, <<>>)
<1>2. TraceOf(<<>>) /\ Len(<<>>) = 0 /\ 1..0 = {}
  BY DEF TraceOf
<1>5. \A kinds : FoundIn(<<>>, kinds) = {}
  BY <1>2 DEF FoundIn
<1>6. Cardinality({}) = 0 /\ IsFiniteSet({})
  BY FS_EmptySet
<1>7. Told(<<>>, Trace!Fresh)
  <2>1. /\ {i \in FoundIn(<<>>, {"tool-result"}) : ~(<<>>)[i].data.ok} = {}
        /\ {i \in FoundIn(<<>>, {"tool-result"}) : (<<>>)[i].data.cached} = {}
    BY <1>5
  <2>. QED
    BY NothingCounted, <1>5, <1>6, <2>1 DEF Told
<1>8. CallsTold(<<>>, Trace!Fresh, n, <<>>)
  <2>1. CallsIn(<<>>) = {}
    BY <1>5 DEF CallsIn
  <2>2. RanIn(<<>>, n, <<>>) = {}
    BY <2>1 DEF RanIn
  <2>3. {CallIn(<<>>, c) : c \in RanIn(<<>>, n, <<>>)} = {}
    BY <2>2
  <2>4. /\ RepeatedIn(<<>>) \cap RanIn(<<>>, n, <<>>) = {}
        /\ DuplicatesIn(<<>>) \cap RanIn(<<>>, n, <<>>) = {}
    BY <2>2
  <2>. QED
    BY NothingCounted, <1>6, <2>2, <2>3, <2>4 DEF CallsTold
<1>9. RowsTold(TimelineIn(<<>>), ToolOnlyIn(<<>>), Trace!Fresh, n + 1)
  <2>1. TimelineIn(<<>>) = {} /\ ToolOnlyIn(<<>>) = {}
    BY <1>5 DEF TimelineIn, ToolOnlyIn
  <2>2. \A t, u : RowIn({}, t, u) = {} /\ RowBefore({}, t, u) = {}
    BY DEF RowIn, RowBefore
  <2>3. RowsTold({}, {}, Trace!Fresh, n + 1)
    BY NothingCounted, <1>6, <2>2 DEF RowsTold
  <2>. QED
    BY <2>1, <2>3
<1>10. SummariesTold(<<>>, sum, n)
  BY <1>5 DEF SummariesTold, Summaries
<1>11. OneReplyEach(<<>>) /\ TurnsUpTo(<<>>, n, n + 1)
  BY <1>2, <1>5 DEF OneReplyEach, TurnsUpTo
<1>. QED
  BY <1>2, <1>7, <1>8, <1>9, <1>10, <1>11, NothingCounted DEF TraceTells

LEMMA NothingGrew ==
  ASSUME NEW p \in Profile
  PROVE  Grown(Trace!Fresh, p, p)
<1>1. /\ p.requests \in Nat /\ p.results \in Nat /\ p.failures \in Nat /\ p.hits \in Nat
      /\ p.calls \in Nat /\ p.toolOnly \in Nat /\ p.repeated \in Nat /\ p.duplicates \in Nat
      /\ p.streak \in Nat /\ p.longest \in Nat
  BY ProfileFields
<1>. QED
  BY <1>1, NothingCounted DEF Grown

LEMMA TraceBegins == Trace!Init => TraceInv
<1>. SUFFICES ASSUME Trace!Init PROVE TraceInv
  OBVIOUS
<1>1. /\ seq = 0 /\ loop = 0 /\ stage = "idle" /\ pending = <<>> /\ live = Trace!Fresh
      /\ base = Trace!Fresh /\ written = <<>> /\ summary = Trace!Fresh
  BY DEF Trace!Init
<1>2. <<>> \in Made
  BY DEF Made
<1>3. TraceOwn(Trace!Fresh)
  <2>1. TraceTells(<<>>, Trace!Fresh, Trace!Fresh, 0, 0 + 1, <<>>)
    BY NoFileYet
  <2>. QED
    BY <1>1, <1>2, <2>1 DEF TraceOwn
<1>. QED
  BY <1>1, <1>3, NothingCounted, NothingGrew DEF TraceInv

\* What is counted in own is counted in the profile.
LEMMA TroubleGrows ==
  ASSUME NEW own \in Profile, NEW b \in Profile, NEW p \in Profile, Grown(own, b, p)
  PROVE  /\ Grown(Trace!Count(own, "errors"), b, Trace!Count(p, "errors"))
         /\ Grown(Trace!Count(own, "compactions"), b, Trace!Count(p, "compactions"))
<1>1. ASSUME NEW q, NEW r, SameTold(own, q), SameTold(p, r), p = own => r = q PROVE Grown(q, b, r)
  BY <1>1 DEF Grown, SameTold
<1>2. /\ SameTold(own, Trace!Count(own, "errors")) /\ SameTold(p, Trace!Count(p, "errors"))
      /\ SameTold(own, Trace!Count(own, "compactions")) /\ SameTold(p, Trace!Count(p, "compactions"))
  BY TroubleIsCounted
<1>. QED
  BY <1>1, <1>2

LEMMA RequestGrows ==
  ASSUME NEW own \in Profile, NEW b \in Profile, NEW p \in Profile, Grown(own, b, p),
         NEW q, q = Trace!Count(own, "requests"), NEW r, r = Trace!Count(p, "requests")
  PROVE  q \in Profile /\ r \in Profile /\ Grown(q, b, r)
<1>1. /\ q \in Profile /\ q.requests = own.requests + 1 /\ q.results = own.results
      /\ q.failures = own.failures /\ q.hits = own.hits /\ q.calls = own.calls /\ q.seen = own.seen
      /\ q.repeated = own.repeated /\ q.duplicates = own.duplicates /\ q.last = own.last
      /\ q.toolOnly = own.toolOnly /\ q.streak = own.streak /\ q.longest = own.longest
  BY RequestIsCounted
<1>2. /\ r \in Profile /\ r.requests = p.requests + 1 /\ r.results = p.results
      /\ r.failures = p.failures /\ r.hits = p.hits /\ r.calls = p.calls /\ r.seen = p.seen
      /\ r.repeated = p.repeated /\ r.duplicates = p.duplicates /\ r.last = p.last
      /\ r.toolOnly = p.toolOnly /\ r.streak = p.streak /\ r.longest = p.longest
  BY RequestIsCounted
<1>3. own.requests \in Nat /\ b.requests \in Nat
  BY ProfileFields
<1>4. p = own => r = q
  OBVIOUS
<1>5. r.requests = q.requests + b.requests
  BY <1>1, <1>2, <1>3 DEF Grown
<1>. QED
  BY <1>1, <1>2, <1>4, <1>5 DEF Grown

LEMMA TurnGrows ==
  ASSUME NEW own \in Profile, NEW b \in Profile, NEW p \in Profile, Grown(own, b, p),
         NEW calls, NEW text, NEW q, q = Trace!RecordTurnActivity(own, calls, text),
         NEW r, r = Trace!RecordTurnActivity(p, calls, text)
  PROVE  q \in Profile /\ r \in Profile /\ Grown(q, b, r)
<1>1. /\ q \in Profile /\ q.requests = own.requests /\ q.results = own.results
      /\ q.failures = own.failures /\ q.hits = own.hits /\ q.calls = own.calls /\ q.seen = own.seen
      /\ q.repeated = own.repeated /\ q.duplicates = own.duplicates /\ q.last = own.last
      /\ IF calls # <<>> /\ ~text
         THEN /\ q.toolOnly = own.toolOnly + 1 /\ q.streak = own.streak + 1
              /\ q.longest = IF own.streak + 1 > own.longest THEN own.streak + 1 ELSE own.longest
         ELSE q.toolOnly = own.toolOnly /\ q.streak = 0 /\ q.longest = own.longest
  BY TurnIsCounted
<1>2. /\ r \in Profile /\ r.requests = p.requests /\ r.results = p.results
      /\ r.failures = p.failures /\ r.hits = p.hits /\ r.calls = p.calls /\ r.seen = p.seen
      /\ r.repeated = p.repeated /\ r.duplicates = p.duplicates /\ r.last = p.last
      /\ IF calls # <<>> /\ ~text
         THEN /\ r.toolOnly = p.toolOnly + 1 /\ r.streak = p.streak + 1
              /\ r.longest = IF p.streak + 1 > p.longest THEN p.streak + 1 ELSE p.longest
         ELSE r.toolOnly = p.toolOnly /\ r.streak = 0 /\ r.longest = p.longest
  BY TurnIsCounted
<1>3. /\ own.toolOnly \in Nat /\ b.toolOnly \in Nat /\ own.streak \in Nat /\ own.longest \in Nat
      /\ p.streak \in Nat /\ p.longest \in Nat /\ p.toolOnly \in Nat
  BY ProfileFields
<1>4. p = own => r = q
  OBVIOUS
<1>5. r.toolOnly = q.toolOnly + b.toolOnly /\ q.streak <= r.streak /\ q.longest <= r.longest
  <2>1. own.streak <= p.streak /\ own.longest <= p.longest /\ p.toolOnly = own.toolOnly + b.toolOnly
    BY DEF Grown
  <2>2. CASE calls # <<>> /\ ~text
    <3>1. /\ q.toolOnly = own.toolOnly + 1 /\ q.streak = own.streak + 1
          /\ q.longest = IF own.streak + 1 > own.longest THEN own.streak + 1 ELSE own.longest
          /\ r.toolOnly = p.toolOnly + 1 /\ r.streak = p.streak + 1
          /\ r.longest = IF p.streak + 1 > p.longest THEN p.streak + 1 ELSE p.longest
      BY <2>2, <1>1, <1>2, Zenon
    <3>. QED
      BY <3>1, <2>1, <1>3
  <2>3. CASE ~(calls # <<>> /\ ~text)
    <3>1. /\ q.toolOnly = own.toolOnly /\ q.streak = 0 /\ q.longest = own.longest
          /\ r.toolOnly = p.toolOnly /\ r.streak = 0 /\ r.longest = p.longest
      BY <2>3, <1>1, <1>2, Zenon
    <3>. QED
      BY <3>1, <2>1, <1>3
  <2>. QED
    BY <2>2, <2>3
<1>6. /\ q.requests = own.requests /\ q.results = own.results
      /\ q.failures = own.failures /\ q.hits = own.hits /\ q.calls = own.calls /\ q.seen = own.seen
      /\ q.repeated = own.repeated /\ q.duplicates = own.duplicates /\ q.last = own.last
      /\ r.requests = p.requests /\ r.results = p.results
      /\ r.failures = p.failures /\ r.hits = p.hits /\ r.calls = p.calls /\ r.seen = p.seen
      /\ r.repeated = p.repeated /\ r.duplicates = p.duplicates /\ r.last = p.last
  BY <1>1, <1>2
<1>7. Grown(q, b, r)
  BY <1>4, <1>5, <1>6 DEF Grown
<1>. QED
  BY <1>1, <1>2, <1>7

LEMMA CallGrows ==
  ASSUME NEW own \in Profile, NEW b \in Profile, NEW p \in Profile, Grown(own, b, p),
         NEW call \in {1, 2}, NEW q, q = Trace!RecordCall(own, call), NEW r, r = Trace!RecordCall(p, call)
  PROVE  q \in Profile /\ r \in Profile /\ Grown(q, b, r)
<1>1. /\ q \in Profile /\ q.requests = own.requests /\ q.results = own.results
      /\ q.failures = own.failures /\ q.hits = own.hits
      /\ q.calls = own.calls + 1 /\ q.seen = own.seen \cup {call}
      /\ q.repeated = IF call \in own.seen THEN own.repeated + 1 ELSE own.repeated
      /\ q.duplicates = IF call = own.last THEN own.duplicates + 1 ELSE own.duplicates
      /\ q.last = call /\ q.toolOnly = own.toolOnly
      /\ q.streak = own.streak /\ q.longest = own.longest
  BY CallIsCounted
<1>2. /\ r \in Profile /\ r.requests = p.requests /\ r.results = p.results
      /\ r.failures = p.failures /\ r.hits = p.hits
      /\ r.calls = p.calls + 1 /\ r.seen = p.seen \cup {call}
      /\ r.repeated = IF call \in p.seen THEN p.repeated + 1 ELSE p.repeated
      /\ r.duplicates = IF call = p.last THEN p.duplicates + 1 ELSE p.duplicates
      /\ r.last = call /\ r.toolOnly = p.toolOnly
      /\ r.streak = p.streak /\ r.longest = p.longest
  BY CallIsCounted
<1>3. /\ own.calls \in Nat /\ b.calls \in Nat /\ own.repeated \in Nat /\ b.repeated \in Nat
      /\ own.duplicates \in Nat /\ b.duplicates \in Nat /\ p.repeated \in Nat /\ p.duplicates \in Nat
  BY ProfileFields
<1>4. p = own => r = q
  OBVIOUS
<1>5. /\ own.seen \subseteq p.seen /\ own.last \in {0, p.last} /\ p.calls = own.calls + b.calls
      /\ own.repeated + b.repeated <= p.repeated /\ own.duplicates + b.duplicates <= p.duplicates
  BY DEF Grown
<1>6. r.calls = q.calls + b.calls
  BY <1>1, <1>2, <1>3, <1>5
<1>7. q.repeated + b.repeated <= r.repeated
  <2>1. call \in own.seen => call \in p.seen
    BY <1>5
  <2>. QED
    BY <1>1, <1>2, <1>3, <1>5, <2>1
<1>8. q.duplicates + b.duplicates <= r.duplicates
  <2>1. call = own.last => call = p.last
    BY <1>5
  <2>. QED
    BY <1>1, <1>2, <1>3, <1>5, <2>1
<1>9. q.seen \subseteq r.seen /\ q.last \in {0, r.last}
  BY <1>1, <1>2, <1>5
<1>10. /\ q.requests = own.requests /\ q.results = own.results
       /\ q.failures = own.failures /\ q.hits = own.hits /\ q.toolOnly = own.toolOnly
       /\ q.streak = own.streak /\ q.longest = own.longest
       /\ r.requests = p.requests /\ r.results = p.results
       /\ r.failures = p.failures /\ r.hits = p.hits /\ r.toolOnly = p.toolOnly
       /\ r.streak = p.streak /\ r.longest = p.longest
  BY <1>1, <1>2
<1>11. Grown(q, b, r)
  BY <1>4, <1>6, <1>7, <1>8, <1>9, <1>10 DEF Grown
<1>. QED
  BY <1>1, <1>2, <1>11

LEMMA ResultGrows ==
  ASSUME NEW own \in Profile, NEW b \in Profile, NEW p \in Profile, Grown(own, b, p),
         NEW a \in Outcome, NEW q, q = Trace!RecordResult(own, a), NEW r, r = Trace!RecordResult(p, a)
  PROVE  q \in Profile /\ r \in Profile /\ Grown(q, b, r)
<1>1. /\ q \in Profile /\ q.requests = own.requests /\ q.results = own.results + 1
      /\ q.failures = IF a.ok THEN own.failures ELSE own.failures + 1
      /\ q.hits = IF a.cached THEN own.hits + 1 ELSE own.hits
      /\ q.calls = own.calls /\ q.seen = own.seen
      /\ q.repeated = own.repeated /\ q.duplicates = own.duplicates
      /\ q.last = own.last /\ q.toolOnly = own.toolOnly
      /\ q.streak = own.streak /\ q.longest = own.longest
  BY ResultIsCounted
<1>2. /\ r \in Profile /\ r.requests = p.requests /\ r.results = p.results + 1
      /\ r.failures = IF a.ok THEN p.failures ELSE p.failures + 1
      /\ r.hits = IF a.cached THEN p.hits + 1 ELSE p.hits
      /\ r.calls = p.calls /\ r.seen = p.seen
      /\ r.repeated = p.repeated /\ r.duplicates = p.duplicates
      /\ r.last = p.last /\ r.toolOnly = p.toolOnly
      /\ r.streak = p.streak /\ r.longest = p.longest
  BY ResultIsCounted
<1>3. /\ own.results \in Nat /\ b.results \in Nat /\ own.failures \in Nat /\ b.failures \in Nat
      /\ own.hits \in Nat /\ b.hits \in Nat
  BY ProfileFields
<1>4. p = own => r = q
  OBVIOUS
<1>5. /\ p.results = own.results + b.results /\ p.failures = own.failures + b.failures
      /\ p.hits = own.hits + b.hits
  BY DEF Grown
<1>6. r.results = q.results + b.results
  BY <1>1, <1>2, <1>3, <1>5
<1>7. r.failures = q.failures + b.failures
  BY <1>1, <1>2, <1>3, <1>5
<1>8. r.hits = q.hits + b.hits
  BY <1>1, <1>2, <1>3, <1>5
<1>9. /\ q.requests = own.requests /\ q.calls = own.calls /\ q.seen = own.seen
      /\ q.repeated = own.repeated /\ q.duplicates = own.duplicates
      /\ q.last = own.last /\ q.toolOnly = own.toolOnly
      /\ q.streak = own.streak /\ q.longest = own.longest
      /\ r.requests = p.requests /\ r.calls = p.calls /\ r.seen = p.seen
      /\ r.repeated = p.repeated /\ r.duplicates = p.duplicates
      /\ r.last = p.last /\ r.toolOnly = p.toolOnly
      /\ r.streak = p.streak /\ r.longest = p.longest
  BY <1>1, <1>2
<1>10. Grown(q, b, r)
  BY <1>4, <1>6, <1>7, <1>8, <1>9 DEF Grown
<1>. QED
  BY <1>1, <1>2, <1>10

\* record_terminal_error: the summary is d.
LEMMA ErrorEnds ==
  ASSUME NEW fs, NEW p, NEW sum, NEW s, NEW o, NEW rest, TraceTells(fs, p, sum, s, o, rest),
         NEW t \in Nat, t <= o, NEW kind \in TroubleKinds, rest = <<>> \/ kind = "before_tool-error",
         NEW q \in Profile, SameTold(p, q), NEW d \in Profile
  PROVE  TraceTells(Trace!Written(Trace!Written(fs, t, kind, Trace!Nothing), s, "profile-summary", d),
                    q, d, s, o, <<>>)
<1>. DEFINE f == FileFor(fs, t, kind, Trace!Nothing)
            gs == Append(fs, f)
            g == FileFor(gs, s, "profile-summary", d)
<1>1. TraceOf(fs) /\ s \in Nat
  BY DEF TraceTells
<1>2. /\ kind \in FileKinds \ {"response", "tool-result"}
      /\ "profile-summary" \in FileKinds \ {"response", "tool-result"}
      /\ Trace!Nothing \in TraceData /\ d \in TraceData
  BY PlainKinds DEF TraceData
<1>3. /\ Trace!Written(fs, t, kind, Trace!Nothing) = gs
      /\ Appended(fs, f) /\ f.turn = t /\ f.kind = kind
  BY <1>1, <1>2, PlainFileIsWritten
<1>. HIDE DEF f
<1>4. TraceTells(gs, q, sum, s, o, <<>>)
  BY <1>3, TroubleIsTold
<1>. HIDE DEF gs
<1>5. TraceOf(gs)
  BY <1>4 DEF TraceTells
<1>8. g = FileFor(gs, s, "profile-summary", d) /\ s \in Nat
      /\ "profile-summary" \in FileKinds \ {"response", "tool-result"} /\ d \in TraceData
  BY <1>1, <1>2
<1>. HIDE DEF g
<1>6. /\ Trace!Written(gs, s, "profile-summary", d) = Append(gs, g)
      /\ Appended(gs, g) /\ g.turn = s /\ g.kind = "profile-summary" /\ g.data = d
      /\ g.n = Cardinality(SameName(gs, s, "profile-summary")) + 1
  BY <1>5, <1>8, PlainFileIsWritten
<1>7. TraceTells(Append(gs, g), q, d, s, o, <<>>)
  <2>1. g.n = Cardinality(SameName(gs, g.turn, "profile-summary")) + 1
    BY <1>6
  <2>2. TraceTells(Append(gs, g), q, g.data, s, o, <<>>)
    BY <1>4, <1>6, <2>1, SummaryIsTold
  <2>. QED
    BY <1>6, <2>2
<1>. QED
  BY <1>3, <1>6, <1>7

\* The loop is idle again.
LEMMA IdleAgain ==
  ASSUME NEW q \in Profile, TraceTells(written', q, summary', seq', seq' + 1, <<>>),
         stage' = "idle", pending' = <<>>, loop' = loop, loop \in Nat, seq' \in Nat
  PROVE  TraceOwn(q)'
<1>1. <<>> \in Made
  BY DEF Made
<1>. QED
  BY <1>1 DEF TraceOwn

LEMMA ErrorsAreTold ==
  ASSUME NEW own \in Profile, TraceOwn(own), live \in Profile, NEW q, q = Trace!Count(own, "errors"),
         \/ Trace!CancelledAtTurnStart \/ Trace!CancelledBeforeTool \/ Trace!InputGuard
         \/ Trace!CancelledBeforeRequest \/ Trace!ResponseFails
  PROVE  q \in Profile /\ TraceOwn(q)' /\ live' = Trace!Count(live, "errors")
<1>. DEFINE o == IF stage = "asked" THEN seq ELSE seq + 1
<1>1. /\ stage \in {"idle", "turn", "compacted", "asked", "calls"} /\ seq \in Nat /\ loop \in Nat
      /\ (stage # "idle" => loop <= IF stage \in {"asked", "calls"} THEN seq ELSE seq + 1)
      /\ (stage # "calls" => pending = <<>>)
      /\ TraceTells(written, own, summary, seq, o, pending)
  BY DEF TraceOwn
<1>2. q \in Profile /\ SameTold(own, q) /\ Trace!Count(live, "errors") \in Profile
  BY TroubleIsCounted
<1>3. /\ "turn_start-error" \in TroubleKinds /\ "before_tool-error" \in TroubleKinds
      /\ "input_guard-error" \in TroubleKinds /\ "before_request-error" \in TroubleKinds
      /\ "response-error" \in TroubleKinds
  BY DEF TroubleKinds, Trace!Errors
<1>4. ASSUME NEW t \in Nat, NEW kind \in TroubleKinds, NEW s, NEW u,
             TraceTells(written, own, summary, s, u, pending), t <= u,
             pending = <<>> \/ kind = "before_tool-error", Trace!TerminalError(t, kind, s)
      PROVE  /\ TraceTells(written', q, summary', s, u, <<>>) /\ stage' = "idle" /\ pending' = <<>>
             /\ live' = Trace!Count(live, "errors")
  <2>1. /\ live' = Trace!Count(live, "errors") /\ summary' = live' /\ stage' = "idle" /\ pending' = <<>>
        /\ written' = Trace!Written(Trace!Written(written, t, kind, Trace!Nothing), s, "profile-summary", live')
    BY <1>4 DEF Trace!TerminalError
  <2>2. TraceTells(Trace!Written(Trace!Written(written, t, kind, Trace!Nothing), s, "profile-summary",
                                 Trace!Count(live, "errors")),
                   q, Trace!Count(live, "errors"), s, u, <<>>)
    BY <1>2, <1>4, ErrorEnds
  <2>. QED
    BY <2>1, <2>2
<1>5. CASE Trace!CancelledAtTurnStart
  <2>1. stage = "turn" /\ Trace!TerminalError(loop, "turn_start-error", seq) /\ seq' = seq /\ loop' = loop
    BY <1>5 DEF Trace!CancelledAtTurnStart, Trace!Cancelled
  <2>2. TraceTells(written', q, summary', seq, seq + 1, <<>>) /\ stage' = "idle" /\ pending' = <<>>
        /\ live' = Trace!Count(live, "errors")
    BY <1>1, <1>3, <1>4, <2>1
  <2>. QED
    BY <1>1, <1>2, <2>1, <2>2, IdleAgain
<1>6. CASE Trace!CancelledBeforeTool
  <2>1. stage = "calls" /\ Trace!TerminalError(seq, "before_tool-error", seq) /\ seq' = seq /\ loop' = loop
    BY <1>6 DEF Trace!CancelledBeforeTool, Trace!Cancelled
  <2>2. TraceTells(written', q, summary', seq, seq + 1, <<>>) /\ stage' = "idle" /\ pending' = <<>>
        /\ live' = Trace!Count(live, "errors")
    BY <1>1, <1>3, <1>4, <2>1
  <2>. QED
    BY <1>1, <1>2, <2>1, <2>2, IdleAgain
<1>7. CASE Trace!InputGuard
  <2>1. stage \in {"turn", "compacted"} /\ seq' = seq /\ loop' = loop
        /\ Trace!TerminalError(seq + 1, "input_guard-error", seq)
    BY <1>7 DEF Trace!InputGuard, Trace!Cancelled
  <2>2. TraceTells(written', q, summary', seq, seq + 1, <<>>) /\ stage' = "idle" /\ pending' = <<>>
        /\ live' = Trace!Count(live, "errors")
    BY <1>1, <1>3, <1>4, <2>1
  <2>. QED
    BY <1>1, <1>2, <2>1, <2>2, IdleAgain
<1>8. CASE Trace!CancelledBeforeRequest
  <2>1. stage \in {"turn", "compacted"} /\ seq' = seq + 1 /\ loop' = loop
        /\ Trace!TerminalError(seq + 1, "before_request-error", seq + 1)
    BY <1>8 DEF Trace!CancelledBeforeRequest
  <2>2. TraceTells(written, own, summary, seq + 1, seq + 1, pending) /\ pending = <<>>
    BY <1>1, <2>1, TurnsGoOn
  <2>3. TraceTells(written', q, summary', seq + 1, seq + 1, <<>>) /\ stage' = "idle" /\ pending' = <<>>
        /\ live' = Trace!Count(live, "errors")
    BY <1>1, <1>3, <1>4, <2>1, <2>2
  <2>4. TraceTells(written', q, summary', seq + 1, seq + 1 + 1, <<>>)
    BY <2>3, TurnsGoOn
  <2>. QED
    BY <1>1, <1>2, <2>1, <2>3, <2>4, IdleAgain
<1>9. CASE Trace!ResponseFails
  <2>1. stage = "asked" /\ Trace!TerminalError(seq, "response-error", seq) /\ seq' = seq /\ loop' = loop
    BY <1>9 DEF Trace!ResponseFails, Trace!Cancelled
  <2>2. TraceTells(written', q, summary', seq, seq, <<>>) /\ stage' = "idle" /\ pending' = <<>>
        /\ live' = Trace!Count(live, "errors")
    BY <1>1, <1>3, <1>4, <2>1
  <2>3. TraceTells(written', q, summary', seq, seq + 1, <<>>)
    BY <2>2, TurnsGoOn
  <2>. QED
    BY <1>1, <1>2, <2>1, <2>2, <2>3, IdleAgain
<1>. QED
  BY <1>5, <1>6, <1>7, <1>8, <1>9

LEMMA RequestsGoOn ==
  ASSUME NEW own \in Profile, TraceOwn(own), live \in Profile, base \in Profile, Grown(own, base, live),
         Trace!Prompt \/ Trace!CompactInLoop \/ Trace!CompactNow \/ Trace!Request
  PROVE  live' \in Profile /\ \E q \in Profile : TraceOwn(q)' /\ Grown(q, base, live')
<1>. DEFINE o == IF stage = "asked" THEN seq ELSE seq + 1
            q == Trace!Count(own, "compactions")
            d == Trace!Count(live, "compactions")
            f == FileFor(written, seq + 1, "compaction", Trace!Nothing)
<1>1. /\ stage \in {"idle", "turn", "compacted", "asked", "calls"} /\ seq \in Nat /\ loop \in Nat
      /\ (stage # "idle" => loop <= IF stage \in {"asked", "calls"} THEN seq ELSE seq + 1)
      /\ (stage # "calls" => pending = <<>>)
      /\ TraceTells(written, own, summary, seq, o, pending)
  BY DEF TraceOwn
<1>2. /\ q \in Profile /\ SameTold(own, q) /\ d \in Profile /\ Grown(q, base, d)
      /\ TraceOf(written)
  BY <1>1, TroubleIsCounted, TroubleGrows DEF TraceTells
<1>3. /\ "compaction" \in TroubleKinds
      /\ "compaction" \in FileKinds \ {"response", "tool-result"}
      /\ "request-input" \in FileKinds \ {"response", "tool-result"}
      /\ Trace!Nothing \in TraceData /\ <<>> \in Made
  BY PlainKinds DEF TroubleKinds, TraceData, Made
<1>4. /\ Trace!Written(written, seq + 1, "compaction", Trace!Nothing) = Append(written, f)
      /\ Appended(written, f) /\ f.turn = seq + 1 /\ f.kind = "compaction"
  BY <1>1, <1>2, <1>3, PlainFileIsWritten
<1>. HIDE DEF q, d, f
<1>5. CASE Trace!Prompt
  <2>1. stage = "idle" /\ stage' = "turn" /\ loop' = 1
        /\ UNCHANGED <<seq, pending, live, written, summary>>
    BY <1>5 DEF Trace!Prompt
  <2>2. TraceOwn(own)'
    BY <1>1, <1>3, <2>1 DEF TraceOwn
  <2>. QED
    BY <2>1, <2>2
<1>6. CASE Trace!CompactInLoop
  <2>1. /\ stage = "turn" /\ live' = d /\ written' = Append(written, f) /\ stage' = "compacted"
        /\ UNCHANGED <<seq, loop, pending, summary>>
    BY <1>6, <1>4 DEF Trace!CompactInLoop, Trace!Write, d
  <2>2. TraceTells(written', q, summary', seq, seq + 1, <<>>)
    BY <1>1, <1>2, <1>3, <1>4, <2>1, TroubleIsTold
  <2>3. TraceOwn(q)'
    BY <1>1, <1>3, <2>1, <2>2 DEF TraceOwn
  <2>. QED
    BY <1>2, <2>1, <2>3
<1>7. CASE Trace!CompactNow
  <2>1. /\ stage = "idle" /\ live' = d /\ summary' = d /\ UNCHANGED <<seq, loop, stage, pending>>
        /\ written' = Trace!Written(Trace!Written(written, seq + 1, "compaction", Trace!Nothing),
                                    seq, "profile-summary", d)
    BY <1>7 DEF Trace!CompactNow, d
  <2>2. TraceTells(written', q, d, seq, seq + 1, <<>>)
    BY <1>1, <1>2, <1>3, <2>1, ErrorEnds
  <2>3. TraceOwn(q)'
    BY <1>1, <1>2, <2>1, <2>2, IdleAgain
  <2>. QED
    BY <1>2, <2>1, <2>3
<1>8. CASE Trace!Request
  <2>. DEFINE g == FileFor(written, seq + 1, "request-input", Trace!Nothing)
  <2>1. /\ stage \in {"turn", "compacted"} /\ seq' = seq + 1 /\ stage' = "asked"
        /\ live' = Trace!Count(live, "requests") /\ UNCHANGED <<loop, pending, summary>>
        /\ written' = Trace!Written(written, seq + 1, "request-input", Trace!Nothing)
    BY <1>8 DEF Trace!Request, Trace!Write
  <2>2. /\ Trace!Written(written, seq + 1, "request-input", Trace!Nothing) = Append(written, g)
        /\ Appended(written, g) /\ g.turn = seq + 1 /\ g.kind = "request-input"
        /\ (\A i \in 1..Len(written) : written[i].kind = "request-input" => written[i].turn # seq + 1) => g.n = 1
    <3>1. TraceOf(written) /\ seq + 1 \in Nat /\ g = FileFor(written, seq + 1, "request-input", Trace!Nothing)
      BY <1>1, <1>2
    <3>2. "request-input" \in FileKinds \ {"response", "tool-result"} /\ Trace!Nothing \in TraceData
      BY <1>3
    <3>. HIDE DEF g
    <3>. QED
      BY <3>1, <3>2, PlainFileIsWritten
  <2>. HIDE DEF g
  <2>3. \A i \in 1..Len(written) : written[i].kind = "request-input" => written[i].turn # seq + 1
    <3>1. TurnsUpTo(written, seq, o) /\ \A i \in 1..Len(written) : written[i].turn \in Nat
      BY <1>1, FoundAre DEF TraceTells
    <3>. QED
      BY <1>1, <3>1 DEF TurnsUpTo
  <2>4. TraceTells(Append(written, g), Trace!Count(own, "requests"), summary, seq + 1, seq + 1, <<>>)
    <3>1. TraceTells(written, own, summary, seq, seq + 1, <<>>) /\ seq < seq + 1
      BY <1>1, <2>1
    <3>. QED
      BY <2>2, <2>3, <3>1, RequestIsTold
  <2>5. PICK r : r = Trace!Count(own, "requests")
    OBVIOUS
  <2>6. r \in Profile /\ live' \in Profile /\ Grown(r, base, live')
    BY <2>1, <2>5, RequestGrows
  <2>7. TraceTells(written', r, summary', seq', seq', pending') /\ pending' = <<>>
    BY <1>1, <2>1, <2>2, <2>4, <2>5
  <2>8. TraceOwn(r)'
    BY <1>1, <1>3, <2>1, <2>7 DEF TraceOwn
  <2>. QED
    BY <2>6, <2>8
<1>. QED
  BY <1>5, <1>6, <1>7, <1>8

LEMMA ResponseGoesOn ==
  ASSUME NEW own \in Profile, TraceOwn(own), live \in Profile, base \in Profile, Grown(own, base, live),
         Trace!Response
  PROVE  live' \in Profile /\ \E q \in Profile : TraceOwn(q)' /\ Grown(q, base, live')
<1>1. PICK calls \in {<<>>, <<1>>, <<1, 1>>, <<2, 1>>}, text \in BOOLEAN :
        LET p == Trace!RecordTurnActivity(live, calls, text)
            fs == Trace!Written(written, seq, "response", [calls |-> calls, text |-> text])
        IN /\ live' = p /\ pending' = calls
           /\ IF calls = <<>>
              THEN /\ written' = Trace!Written(fs, seq, "profile-summary", p)
                   /\ summary' = p /\ stage' = "idle"
              ELSE written' = fs /\ stage' = "calls" /\ UNCHANGED summary
  BY DEF Trace!Response
<1>. DEFINE d == [calls |-> calls, text |-> text]
            p == Trace!RecordTurnActivity(live, calls, text)
            q == Trace!RecordTurnActivity(own, calls, text)
            f == FileFor(written, seq, "response", d)
            fs == Append(written, f)
            g == FileFor(fs, seq, "profile-summary", p)
<1>2. /\ stage = "asked" /\ seq \in Nat /\ loop \in Nat /\ loop <= seq
      /\ pending = <<>> /\ TraceTells(written, own, summary, seq, seq, <<>>)
      /\ UNCHANGED <<seq, loop>>
  BY DEF TraceOwn, Trace!Response
<1>3. /\ d \in Reply /\ d \in TraceData /\ d.calls = calls /\ d.text = text /\ calls \in Made
      /\ "response" \in FileKinds
      /\ "profile-summary" \in FileKinds \ {"response", "tool-result"}
  <2>1. calls \in Seq({1, 2})
    <3>1. /\ <<>> \in Seq({1, 2}) /\ <<1>> \in Seq({1, 2}) /\ <<1, 1>> \in Seq({1, 2})
          /\ <<2, 1>> \in Seq({1, 2})
      OBVIOUS
    <3>. QED
      BY <3>1
  <2>2. d \in Reply
    BY <2>1 DEF Reply, Made
  <2>3. "response" \in FileKinds
    BY DEF FileKinds, Trace!Told
  <2>. QED
    BY <2>1, <2>2, <2>3, PlainKinds DEF TraceData, Made
<1>4. TraceOf(written) /\ \A i \in 1..Len(written) : written[i].kind = "response" => written[i].turn # seq
  <2>1. TraceOf(written) /\ TurnsUpTo(written, seq, seq) /\ \A i \in 1..Len(written) : written[i].turn \in Nat
    BY <1>2, FoundAre DEF TraceTells
  <2>. QED
    BY <1>2, <2>1 DEF TurnsUpTo
<1>. HIDE DEF d
<1>5. /\ Trace!Written(written, seq, "response", d) = fs
      /\ Appended(written, f) /\ f.turn = seq /\ f.kind = "response" /\ f.data = d /\ f.n = 1
  <2>1. f = FileFor(written, seq, "response", d)
    OBVIOUS
  <2>. HIDE DEF f
  <2>. QED
    BY <1>2, <1>3, <1>4, <2>1, ReplyIsWritten
<1>. HIDE DEF f
<1>6. /\ TraceTells(fs, q, summary, seq, seq + 1, calls)
      /\ RestIsOf(fs, seq, calls, Len(written) + 1)
  <2>1. f.data.calls = calls /\ f.data.text = text
    BY <1>3, <1>5
  <2>2. /\ TraceTells(fs, Trace!RecordTurnActivity(own, f.data.calls, f.data.text), summary,
                       seq, seq + 1, f.data.calls)
        /\ RestIsOf(fs, seq, f.data.calls, Len(written) + 1)
    BY <1>2, <1>5, ResponseIsTold
  <2>. QED
    BY <2>1, <2>2
<1>7. /\ live' = p /\ pending' = calls
      /\ calls = <<>> => written' = Trace!Written(fs, seq, "profile-summary", p) /\ summary' = p /\ stage' = "idle"
      /\ calls # <<>> => written' = fs /\ stage' = "calls" /\ summary' = summary
  BY <1>1, <1>5 DEF d
<1>10. p \in Profile /\ q \in Profile /\ Grown(q, base, p)
  BY TurnGrows
<1>. HIDE DEF fs, p, q
<1>8. CASE calls = <<>>
  <2>1. TraceOf(fs) /\ p \in TraceData
    BY <1>6, <1>10 DEF TraceTells, TraceData
  <2>2. /\ Trace!Written(fs, seq, "profile-summary", p) = Append(fs, g)
        /\ Appended(fs, g) /\ g.turn = seq /\ g.kind = "profile-summary" /\ g.data = p
        /\ g.n = Cardinality(SameName(fs, seq, "profile-summary")) + 1
    BY <1>2, <1>3, <2>1, PlainFileIsWritten
  <2>. HIDE DEF g
  <2>3. TraceTells(Append(fs, g), q, p, seq, seq + 1, <<>>)
    <3>1. g.n = Cardinality(SameName(fs, g.turn, "profile-summary")) + 1
      BY <2>2
    <3>2. TraceTells(Append(fs, g), q, g.data, seq, seq + 1, <<>>)
      BY <1>6, <1>8, <2>2, <3>1, SummaryIsTold
    <3>. QED
      BY <2>2, <3>2
  <2>4. /\ written' = Append(fs, g) /\ live' = p /\ summary' = p /\ stage' = "idle" /\ pending' = <<>>
        /\ seq' = seq /\ loop' = loop
    BY <1>2, <1>7, <1>8, <2>2
  <2>5. TraceTells(written', q, summary', seq', seq' + 1, <<>>)
    BY <2>3, <2>4
  <2>6. TraceOwn(q)'
    BY <1>2, <1>10, <2>4, <2>5, IdleAgain
  <2>. QED
    BY <1>10, <2>4, <2>6
<1>9. CASE calls # <<>>
  <2>1. TraceOwn(q)'
    BY <1>2, <1>3, <1>6, <1>7, <1>9 DEF TraceOwn
  <2>. QED
    BY <1>7, <1>10, <2>1
<1>. QED
  BY <1>8, <1>9

LEMMA ResultsGoOn ==
  ASSUME NEW own \in Profile, TraceOwn(own), live \in Profile, base \in Profile, Grown(own, base, live),
         Trace!ToolResult
  PROVE  live' \in Profile /\ \E q \in Profile : TraceOwn(q)' /\ Grown(q, base, live')
<1>1. PICK r \in [ok : BOOLEAN, cached : BOOLEAN] :
        /\ live' = Trace!RecordResult(Trace!RecordCall(live, Head(pending)), r)
        /\ Trace!Write(seq, "tool-result", r)
  BY DEF Trace!ToolResult
<1>. DEFINE f == FileFor(written, seq, "tool-result", r)
            gs == Append(written, f)
<1>0. PICK q : q = Trace!RecordResult(Trace!RecordCall(own, Head(pending)), r)
  OBVIOUS
<1>2. /\ stage = "calls" /\ seq \in Nat /\ loop \in Nat /\ loop <= seq /\ pending \in Made /\ pending # <<>>
      /\ TraceTells(written, own, summary, seq, seq + 1, pending)
      /\ UNCHANGED <<seq, summary>> /\ pending' = Tail(pending)
      /\ (pending' = <<>> => stage' = "turn" /\ loop' = loop + 1)
      /\ (pending' # <<>> => stage' = "calls" /\ loop' = loop)
  BY DEF TraceOwn, Trace!ToolResult
<1>3. PICK i : RestIsOf(written, seq, pending, i)
  BY <1>2 DEF TraceOwn
<1>4. /\ r \in Outcome /\ r \in TraceData /\ "tool-result" \in FileKinds /\ TraceOf(written)
      /\ Tail(pending) \in Made
  BY <1>2 DEF Outcome, TraceData, FileKinds, Trace!Told, TraceTells, Made
<1>5. /\ Trace!Written(written, seq, "tool-result", r) = gs
      /\ Appended(written, f) /\ f.turn = seq /\ f.kind = "tool-result" /\ f.data = r
  BY <1>2, <1>4, OutcomeIsWritten
<1>. HIDE DEF f
<1>6. /\ TraceTells(gs, q, summary, seq, seq + 1, Tail(pending))
      /\ RestIsOf(gs, seq, Tail(pending), i)
  <2>1. /\ TraceTells(gs, Trace!RecordResult(Trace!RecordCall(own, Head(pending)), f.data), summary,
                       seq, seq + 1, Tail(pending))
        /\ RestIsOf(gs, seq, Tail(pending), i)
    BY <1>2, <1>3, <1>5, ResultIsTold
  <2>. QED
    BY <2>1, <1>0, <1>5
<1>7. written' = gs
  BY <1>1, <1>5 DEF Trace!Write
<1>10. live' \in Profile /\ q \in Profile /\ Grown(q, base, live')
  <2>1. Head(pending) \in {1, 2}
    BY <1>2 DEF Made
  <2>2. PICK c, d : c = Trace!RecordCall(own, Head(pending)) /\ d = Trace!RecordCall(live, Head(pending))
    OBVIOUS
  <2>3. c \in Profile /\ d \in Profile /\ Grown(c, base, d)
    BY <2>1, <2>2, CallGrows
  <2>4. q = Trace!RecordResult(c, r) /\ live' = Trace!RecordResult(d, r)
    BY <1>0, <1>1, <2>2
  <2>. QED
    BY <1>4, <2>3, <2>4, ResultGrows
<1>. HIDE DEF gs
<1>8. CASE pending' = <<>>
  <2>1. TraceOwn(q)'
    BY <1>2, <1>4, <1>6, <1>7, <1>8 DEF TraceOwn
  <2>. QED
    BY <1>10, <2>1
<1>9. CASE pending' # <<>>
  <2>1. TraceOwn(q)'
    BY <1>2, <1>4, <1>6, <1>7, <1>9 DEF TraceOwn
  <2>. QED
    BY <1>10, <2>1
<1>. QED
  BY <1>8, <1>9

\* Another conversation begins: before there is a file, with what it had; or else what the
\* files tell is not of it.
LEMMA AnotherBegins ==
  ASSUME restarts \in Nat, restarts = 0 => TraceInv, NEW p \in Profile, NEW n \in Nat, Trace!BeginWith(p, n)
  PROVE  restarts' \in Nat /\ (restarts' = 0 => TraceInv')
<1>1. CASE written # <<>>
  <2>1. restarts' = restarts + 1
    BY <1>1 DEF Trace!BeginWith
  <2>. QED
    BY <2>1
<1>2. CASE written = <<>>
  <2>1. /\ stage = "idle" /\ seq' = n /\ live' = p /\ base' = p /\ restarts' = restarts
        /\ UNCHANGED <<loop, stage, pending, written, summary>>
    BY <1>2 DEF Trace!BeginWith
  <2>. SUFFICES ASSUME restarts = 0 PROVE TraceInv'
    BY <2>1
  <2>2. loop \in Nat /\ pending = <<>> /\ <<>> \in Made
    BY <2>1 DEF TraceInv, TraceOwn, Made
  <2>3. TraceTells(<<>>, Trace!Fresh, summary, n, n + 1, <<>>)
    BY NoFileYet
  <2>4. TraceOwn(Trace!Fresh)'
    <3>1. PICK q : q = Trace!Fresh
      OBVIOUS
    <3>2. q \in Profile /\ TraceTells(written', q, summary', seq', seq' + 1, <<>>)
      BY <1>2, <2>1, <2>3, <3>1, NothingCounted
    <3>3. TraceOwn(q)'
      BY <2>1, <2>2, <3>2, IdleAgain
    <3>4. Trace!Fresh' = Trace!Fresh
      BY DEF Trace!Fresh
    <3>. QED
      BY <3>1, <3>3, <3>4
  <2>. QED
    BY <2>1, <2>4, NothingCounted, NothingGrew DEF TraceInv
<1>. QED
  BY <1>1, <1>2

LEMMA TraceStep ==
  ASSUME restarts \in Nat, restarts = 0 => TraceInv, [Trace!Next]_(Trace!vars)
  PROVE  restarts' \in Nat /\ (restarts' = 0 => TraceInv')
<1>1. CASE Trace!Clear \/ Trace!LoadSession
  <2>1. PICK p \in Profile, n \in Nat : Trace!BeginWith(p, n)
    <3>1. CASE Trace!Clear
      BY <3>1, NothingCounted DEF Trace!Clear
    <3>2. CASE Trace!LoadSession
      <4>1. PICK s \in Stored : Trace!BeginWith(s.profile, s.seq)
        BY <3>2 DEF Trace!LoadSession
      <4>2. s.profile \in Profile /\ s.seq \in Nat
        BY StoredAssumption DEF Trace!Sessions, Trace!Profiles, Profile
      <4>. QED
        BY <4>1, <4>2
    <3>. QED
      BY <1>1, <3>1, <3>2
  <2>. QED
    BY <2>1, AnotherBegins
<1>2. CASE UNCHANGED Trace!vars
  <2>1. UNCHANGED <<seq, loop, stage, pending, live, base, written, summary, restarts>>
    BY <1>2 DEF Trace!vars
  <2>2. \A own \in Profile : TraceOwn(own) => TraceOwn(own)'
    BY <2>1 DEF TraceOwn
  <2>. QED
    BY <2>1, <2>2 DEF TraceInv
<1>3. ASSUME restarts' = restarts, base' = base,
             TraceInv => /\ live' \in Profile
                         /\ \E q \in Profile : TraceOwn(q)' /\ Grown(q, base, live')
      PROVE  restarts' \in Nat /\ (restarts' = 0 => TraceInv')
  BY <1>3 DEF TraceInv
<1>4. CASE \/ Trace!CancelledAtTurnStart \/ Trace!CancelledBeforeTool \/ Trace!InputGuard
           \/ Trace!CancelledBeforeRequest \/ Trace!ResponseFails
  <2>1. restarts' = restarts /\ base' = base
    BY <1>4 DEF Trace!CancelledAtTurnStart, Trace!CancelledBeforeTool, Trace!InputGuard,
                Trace!CancelledBeforeRequest, Trace!ResponseFails, Trace!Cancelled
  <2>2. ASSUME TraceInv
        PROVE  live' \in Profile /\ \E q \in Profile : TraceOwn(q)' /\ Grown(q, base, live')
    <3>1. PICK own \in Profile : TraceOwn(own) /\ Grown(own, base, live)
      BY <2>2 DEF TraceInv
    <3>2. live \in Profile /\ base \in Profile
      BY <2>2 DEF TraceInv
    <3>3. PICK q : q = Trace!Count(own, "errors")
      OBVIOUS
    <3>4. q \in Profile /\ TraceOwn(q)' /\ live' = Trace!Count(live, "errors")
      BY <1>4, <3>1, <3>2, <3>3, ErrorsAreTold
    <3>5. live' \in Profile /\ Grown(q, base, live')
      BY <3>1, <3>2, <3>3, <3>4, TroubleIsCounted, TroubleGrows
    <3>. QED
      BY <3>4, <3>5
  <2>. QED
    BY <1>3, <2>1, <2>2
<1>5. CASE Trace!Prompt \/ Trace!CompactInLoop \/ Trace!CompactNow \/ Trace!Request
  <2>1. restarts' = restarts /\ base' = base
    BY <1>5 DEF Trace!Prompt, Trace!CompactInLoop, Trace!CompactNow, Trace!Request
  <2>. QED
    BY <1>3, <1>5, <2>1, RequestsGoOn DEF TraceInv
<1>6. CASE Trace!Response
  <2>1. restarts' = restarts /\ base' = base
    BY <1>6 DEF Trace!Response
  <2>. QED
    BY <1>3, <1>6, <2>1, ResponseGoesOn DEF TraceInv
<1>7. CASE Trace!ToolResult
  <2>1. restarts' = restarts /\ base' = base
    BY <1>7 DEF Trace!ToolResult
  <2>. QED
    BY <1>3, <1>7, <2>1, ResultsGoOn DEF TraceInv
<1>. QED
  BY <1>1, <1>2, <1>4, <1>5, <1>6, <1>7 DEF Trace!Next

-----------------------------------------------------------------------------
\* What the analysis finds is what the files hold.
LEMMA FilesAreFound ==
  ASSUME TraceOf(written)
  PROVE  /\ \A kinds : Trace!Found(kinds) = FoundIn(written, kinds)
         /\ Trace!Calls = CallsIn(written)
         /\ Trace!Repeated = RepeatedIn(written) /\ Trace!Duplicates = DuplicatesIn(written)
         /\ Trace!Timeline = TimelineIn(written) /\ Trace!ToolOnlyTurns = ToolOnlyIn(written)
<1>1. DOMAIN written = 1..Len(written)
  BY DEF TraceOf
<1>2. \A kinds : Trace!Found(kinds) = FoundIn(written, kinds)
  BY <1>1 DEF Trace!Found, FoundIn
<1>3. \A i \in FoundIn(written, {"response"}) : DOMAIN written[i].data.calls = 1..Len(written[i].data.calls)
  BY CallsAre
<1>4. Trace!Calls = CallsIn(written)
  BY <1>2, <1>3 DEF Trace!Calls, CallsIn
<1>5. /\ \A c : Trace!Call(c) = CallIn(written, c)
      /\ \A b, c : Trace!Sooner(b, c) <=> SoonerIn(written, b, c)
  BY DEF Trace!Call, CallIn, Trace!Sooner, SoonerIn
<1>6. Trace!Repeated = RepeatedIn(written) /\ Trace!Duplicates = DuplicatesIn(written)
  BY <1>4, <1>5 DEF Trace!Repeated, RepeatedIn, Trace!Duplicates, DuplicatesIn
<1>7. Trace!Timeline = TimelineIn(written)
  BY <1>2 DEF Trace!Timeline, TimelineIn
<1>8. Trace!ToolOnlyTurns = ToolOnlyIn(written)
  BY <1>2 DEF Trace!ToolOnlyTurns, ToolOnlyIn, ToolOnly
<1>. QED
  BY <1>2, <1>4, <1>6, <1>7, <1>8

LEMMA LargestOf ==
  ASSUME NEW S \in SUBSET Nat, S # {}, NEW m \in Nat, \A k \in S : k <= m
  PROVE  \E n \in S : \A k \in S : k <= n
<1>. DEFINE B == {b \in Nat : \A k \in S : k <= b}
<1>1. B \in SUBSET Nat /\ B # {}
  OBVIOUS
<1>2. PICK b \in B : \A k \in B : b <= k
  BY <1>1, Smallest
<1>3. b \in Nat /\ \A k \in S : k <= b
  BY <1>2
<1>4. ASSUME b \notin S PROVE FALSE
  <2>1. \A k \in S : k <= b - 1 /\ b - 1 \in Nat
    BY <1>3, <1>4
  <2>2. b - 1 \in B
    BY <2>1
  <2>. QED
    BY <1>2, <1>3, <2>2
<1>. QED
  BY <1>3, <1>4

LEMMA StreaksAreCounted ==
  ASSUME TraceOf(written), NEW p \in Profile, NEW o, RowsTold(TimelineIn(written), ToolOnlyIn(written), p, o)
  PROVE  Trace!LongestStreak \in Nat /\ Trace!LongestStreak <= p.longest
<1>. DEFINE T == TimelineIn(written)
            C == {Cardinality(row) : row \in Trace!Rows}
<1>1. p.longest \in Nat /\ T \in SUBSET Nat /\ IsFiniteSet(ToolOnlyIn(written))
  BY ProfileFields DEF RowsTold
<1>2. Trace!Rows = {row \in {RowIn(T, t, u) : t, u \in T} : row \subseteq ToolOnlyIn(written)}
  BY FilesAreFound DEF Trace!Rows, RowIn
<1>3. ASSUME NEW row \in Trace!Rows PROVE Cardinality(row) <= p.longest /\ Cardinality(row) \in Nat
  <2>1. row \subseteq ToolOnlyIn(written) /\ \E t, u \in T : row = RowIn(T, t, u)
    BY <1>2
  <2>2. Cardinality(row) \in Nat
    BY <1>1, <2>1, FS_Subset, FS_CardinalityType
  <2>3. Cardinality(row) <= p.longest
    BY <1>1, <2>1 DEF RowsTold
  <2>. QED
    BY <2>2, <2>3
<1>4. CASE Trace!Rows = {}
  BY <1>1, <1>4 DEF Trace!LongestStreak
<1>5. CASE Trace!Rows # {}
  <2>1. C \in SUBSET Nat /\ C # {} /\ \A k \in C : k <= p.longest
    BY <1>3, <1>5
  <2>2. \E n \in C : \A k \in C : k <= n
    BY <1>1, <2>1, LargestOf
  <2>3. Trace!LongestStreak = CHOOSE n \in C : \A row \in Trace!Rows : Cardinality(row) <= n
    BY <1>5, FilesCountedTheSame DEF Trace!LongestStreak
  <2>4. \E n \in C : \A row \in Trace!Rows : Cardinality(row) <= n
    BY <2>2
  <2>. HIDE DEF C
  <2>5. Trace!LongestStreak \in C
    BY <2>3, <2>4
  <2>. QED
    BY <2>1, <2>5
<1>. QED
  BY <1>4, <1>5

LEMMA SummaryIsEmbedded ==
  ASSUME TraceOf(written), NEW sum, NEW s, SummariesTold(written, sum, s), Trace!Embedded # Trace!Nothing
  PROVE  Trace!Embedded.data = sum
<1>. DEFINE Sums == {written[i] : i \in Trace!Found({"profile-summary"})}
<1>0. Trace!Found({"profile-summary"}) = Summaries(written)
  BY FilesAreFound DEF Summaries
<1>1. Trace!Embedded = IF Sums = {} THEN Trace!Nothing
                       ELSE CHOOSE f \in Sums : \A g \in Sums : ~Trace!Outranks(g, f)
  BY DEF Trace!Embedded
<1>2. Summaries(written) # {}
  BY <1>0, <1>1
<1>3. PICK i \in Summaries(written) :
        written[i].data = sum /\ \A j \in Summaries(written) : j = i \/ Trace!Outranks(written[i], written[j])
  BY <1>2 DEF SummariesTold
<1>4. \A j \in Summaries(written) : written[j].turn \in Nat /\ written[j].n \in Nat
  BY FoundAre DEF Summaries
<1>5. \A j \in Summaries(written) : ~Trace!Outranks(written[j], written[i])
  BY <1>3, <1>4 DEF Trace!Outranks
<1>. DEFINE Top(f) == f \in Sums /\ \A g \in Sums : ~Trace!Outranks(g, f)
<1>6. \E f \in Sums : Top(f)
  BY <1>0, <1>3, <1>5
<1>7. Top(Trace!Embedded)
  <2>1. Trace!Embedded = CHOOSE f \in Sums : Top(f)
    BY <1>1, <1>6
  <2>. HIDE DEF Top, Sums
  <2>. QED
    BY <2>1, <1>6
<1>8. PICK j \in Summaries(written) : Trace!Embedded = written[j]
  BY <1>0, <1>7
<1>9. ~Trace!Outranks(written[i], written[j])
  BY <1>0, <1>3, <1>7, <1>8
<1>. QED
  BY <1>3, <1>8, <1>9

LEMMA AnalysisFollows == restarts = 0 /\ TraceInv => Trace!AnalysisTellsTheRun
<1>. SUFFICES ASSUME TraceInv PROVE Trace!AnalysisTellsTheRun
  BY DEF Trace!AnalysisTellsTheRun
<1>0. PICK own \in Profile : TraceOwn(own) /\ Grown(own, base, live)
  BY DEF TraceInv
<1>. DEFINE o == IF stage = "asked" THEN seq ELSE seq + 1
<1>1. /\ TraceOf(written) /\ Told(written, own)
      /\ RowsTold(TimelineIn(written), ToolOnlyIn(written), own, o) /\ SummariesTold(written, summary, seq)
      /\ (~CutShort(written) => CallsTold(written, own, seq, pending))
      /\ (stage # "calls" => pending = <<>>)
  BY <1>0 DEF TraceOwn, TraceTells
<1>. HIDE DEF o
<1>2. \A c \in {"requests", "results", "failures", "hits"} : Trace!Analyzed[c] = own[c]
  <2>1. /\ Trace!Analyzed["requests"] = Cardinality(FoundIn(written, {"request-input"}))
        /\ Trace!Analyzed["results"] = Cardinality(FoundIn(written, {"tool-result"}))
        /\ Trace!Analyzed["failures"] = Cardinality({i \in FoundIn(written, {"tool-result"}) : ~written[i].data.ok})
        /\ Trace!Analyzed["hits"] = Cardinality({i \in FoundIn(written, {"tool-result"}) : written[i].data.cached})
    BY <1>1, FilesAreFound, FilesCountedTheSame DEF Trace!Analyzed
  <2>. QED
    BY <1>1, <2>1 DEF Told
<1>3. Trace!AllCallsRan => \A c \in {"calls", "repeated", "duplicates"} : Trace!Analyzed[c] = own[c]
  <2>. SUFFICES ASSUME Trace!AllCallsRan
                PROVE  \A c \in {"calls", "repeated", "duplicates"} : Trace!Analyzed[c] = own[c]
    OBVIOUS
  <2>1. CallsTold(written, own, seq, <<>>)
    <3>1. DOMAIN written = 1..Len(written)
      BY <1>1 DEF TraceOf
    <3>2. stage # "calls" /\ ~CutShort(written)
      BY <3>1 DEF Trace!AllCallsRan, CutShort
    <3>. QED
      BY <1>1, <3>2
  <2>2. RanIn(written, seq, <<>>) = CallsIn(written)
    BY <1>1, WhenAllRan
  <2>3. /\ RepeatedIn(written) \cap CallsIn(written) = RepeatedIn(written)
        /\ DuplicatesIn(written) \cap CallsIn(written) = DuplicatesIn(written)
    BY DEF RepeatedIn, DuplicatesIn
  <2>4. /\ own.calls = Cardinality(CallsIn(written)) /\ own.repeated = Cardinality(RepeatedIn(written))
        /\ own.duplicates = Cardinality(DuplicatesIn(written))
    BY <2>1, <2>2, <2>3 DEF CallsTold
  <2>5. /\ Trace!Analyzed["calls"] = Cardinality(CallsIn(written))
        /\ Trace!Analyzed["repeated"] = Cardinality(RepeatedIn(written))
        /\ Trace!Analyzed["duplicates"] = Cardinality(DuplicatesIn(written))
    BY <1>1, FilesAreFound, FilesCountedTheSame DEF Trace!Analyzed
  <2>. QED
    BY <2>4, <2>5
<1>4. Trace!Cardinality(Trace!ToolOnlyTurns) = own.toolOnly
  BY <1>1, FilesAreFound, FilesCountedTheSame DEF RowsTold
<1>5. Trace!LongestStreak \in Nat /\ Trace!LongestStreak <= own.longest
  BY <1>1, StreaksAreCounted
<1>6. Trace!Embedded # Trace!Nothing => Trace!Embedded.data = summary
  BY <1>1, SummaryIsEmbedded
<1>7. \A c \in {"requests", "results", "failures", "hits"} : Trace!Analyzed[c] + base[c] = live[c]
  BY <1>0, <1>2 DEF Grown
<1>8. Trace!AllCallsRan =>
        /\ Trace!Analyzed.calls + base.calls = live.calls
        /\ \A c \in {"repeated", "duplicates"} :
              IF base = Trace!Fresh THEN Trace!Analyzed[c] = live[c] ELSE Trace!Analyzed[c] + base[c] <= live[c]
  <2>. SUFFICES ASSUME Trace!AllCallsRan
                PROVE  /\ Trace!Analyzed.calls + base.calls = live.calls
                       /\ \A c \in {"repeated", "duplicates"} :
                             IF base = Trace!Fresh THEN Trace!Analyzed[c] = live[c]
                             ELSE Trace!Analyzed[c] + base[c] <= live[c]
    OBVIOUS
  <2>1. /\ Trace!Analyzed.calls = own.calls /\ Trace!Analyzed.repeated = own.repeated
        /\ Trace!Analyzed.duplicates = own.duplicates
    BY <1>3
  <2>2. /\ Trace!Analyzed.calls + base.calls = live.calls
        /\ Trace!Analyzed.repeated + base.repeated <= live.repeated
        /\ Trace!Analyzed.duplicates + base.duplicates <= live.duplicates
        /\ base = Trace!Fresh => live = own
    BY <1>0, <2>1 DEF Grown
  <2>. QED
    BY <2>1, <2>2
<1>9. Trace!Cardinality(Trace!ToolOnlyTurns) + base.toolOnly = live.toolOnly
  BY <1>0, <1>4 DEF Grown
<1>10. Trace!LongestStreak <= live.longest
  <2>1. own.longest \in Nat /\ live.longest \in Nat /\ own.longest <= live.longest
    BY <1>0, ProfileFields DEF TraceInv, Grown
  <2>. QED
    BY <1>5, <2>1
<1>. QED
  BY <1>6, <1>7, <1>8, <1>9, <1>10 DEF Trace!AnalysisTellsTheRun

-----------------------------------------------------------------------------
(* The parts together.                                                     *)

\* A behaviour stays in its part and takes the steps of it.
LEMMA PartsDoNotMeet ==
  ASSUME [Next]_vars
  PROVE  /\ part' = part
         /\ part = "client" => [Client!Next]_(Client!vars)
         /\ part = "server" => [Server!Next]_(Server!vars)
         /\ part = "host" => [Host!Next]_(Host!vars)
         /\ part = "login" => [Login!Next]_(Login!vars)
         /\ part = "setup" => [Setup!Next]_(Setup!vars)
         /\ part = "usage" => [Usage!Next]_(Usage!vars)
         /\ part = "trace" => [Trace!Next]_(Trace!vars)
         /\ part = "traces" => [Traces!Next]_(Traces!vars)
<1>1. CASE UNCHANGED vars
  <2>1. UNCHANGED <<part, clientVars, serverVars, hostVars, loginVars, setupVars, usageVars,
                 traceVars, tracesVars>>
    BY <1>1 DEF vars
  <2>2. UNCHANGED Client!vars
    BY <2>1 DEF clientVars, Client!vars
  <2>3. UNCHANGED Server!vars
    BY <2>1 DEF serverVars, Server!vars
  <2>4. UNCHANGED Host!vars
    BY <2>1 DEF hostVars, Host!vars
  <2>5. UNCHANGED Login!vars
    BY <2>1 DEF loginVars, Login!vars, Login!tokenVars
  <2>6. UNCHANGED Setup!vars
    BY <2>1 DEF setupVars, Setup!vars
  <2>7. UNCHANGED Traces!vars
    BY <2>1 DEF tracesVars, Traces!vars
  <2>8. UNCHANGED Usage!vars
    BY <2>1 DEF usageVars, Usage!vars
  <2>9. UNCHANGED Trace!vars
    BY <2>1 DEF traceVars, Trace!vars
  <2>. QED
    BY <2>1, <2>2, <2>3, <2>4, <2>5, <2>6, <2>7, <2>8, <2>9
<1>2. CASE Next
  BY <1>2, Zenon DEF Next
<1>. QED
  BY <1>1, <1>2

\* The answer a runner takes for that of a tool is to the call it made, of the server and the
\* tool its name stands for (discover_server, invoke and call_tool in mcp.rs): over stdio the line
\* has the id of the request, whatever else the server writes; over HTTP, where no id is compared,
\* it came with the response to the post of that request.
THEOREM AnswersAreToTheCalls == Spec => []AnswersAreToTheCall
<1>. DEFINE J == part = "client" => ClientInv
<1>1. Init => J
  BY ClientBegins DEF Init
<1>2. J /\ [Next]_vars => J'
  BY PartsDoNotMeet, ClientKeepsInv
<1>3. J => AnswersAreToTheCall
  BY AnswersFollow DEF AnswersAreToTheCall
<1>. QED
  BY <1>1, <1>2, <1>3, PTL DEF Spec

\* A call that runs after its cancellation was read, or after the end of stdin, has its token
\* cancelled, and a server that ended answered each call once (run, dispatch and
\* handle_tool_call in mcp_server/), for any number of calls and lines.
THEOREM CancelledCallsAreAnswered == Spec => []CancelledCallsAreToldAndAnswered
<1>. DEFINE J == part = "server" => ServerInv
<1>1. Init => J
  BY ServerBegins DEF Init
<1>2. J /\ [Next]_vars => J'
  BY PartsDoNotMeet, ServerKeepsInv
<1>3. J => CancelledCallsAreToldAndAnswered
  BY CallsFollow DEF CancelledCallsAreToldAndAnswered
<1>. QED
  BY <1>1, <1>2, <1>3, PTL DEF Spec

\* A host that ended has written one envelope that tells how its run went, with an exit code
\* that agrees (run_standalone, run_request), whatever checks the request fails.
THEOREM ReportsTellTheRun == Spec => []ReportTellsTheRun
<1>. DEFINE J == part = "host" => HostInv
<1>1. Init => J
  BY HostBegins DEF Init
<1>2. J /\ [Next]_vars => J'
  BY PartsDoNotMeet, HostKeepsInv
<1>3. J => ReportTellsTheRun
  BY DEF HostInv, ReportTellsTheRun
<1>. QED
  BY <1>1, <1>2, <1>3, PTL DEF Spec

\* However many logins and refreshes overlap, each in its own program, what one of them writes to
\* auth.json is a token nobody has refreshed, so that the file can be used again (login, refresh
\* and save_auth in auth.rs).
THEOREM SavedTokensAreUnspent == Spec => UnspentIsSaved
<1>. DEFINE J == part = "login" => LoginInv
<1>1. Init => J
  BY LoginBegins DEF Init
<1>2. J /\ [Next]_vars => J'
  BY PartsDoNotMeet, LoginKeepsInv
<1>3. J /\ [Next]_vars => [part = "login" => Login!SavesUnspent]_vars
  BY PartsDoNotMeet, LoginKeepsInv
<1>. QED
  BY <1>1, <1>2, <1>3, PTL DEF Spec, UnspentIsSaved

\* A purge removes runs it listed and no others, none of them within the days the user
\* keeps; none when one of them is refused, and all of them when it says so
\* (resolve_trace_run_for_delete, handle_trace_retention in trace/).
THEOREM PurgeIsSafe == Spec => []PurgeKeepsTheRest
<1>. DEFINE J == part = "traces" => TracesInv
<1>0. Days
  BY DaysAssumption DEF Days
<1>1. Init => J
  BY <1>0, TracesBegin DEF Init
<1>2. J /\ [Next]_vars => J'
  BY <1>0, PartsDoNotMeet, PurgeKeepsInv
<1>3. J => PurgeKeepsTheRest
  BY PurgeFollows DEF PurgeKeepsTheRest
<1>. QED
  BY <1>1, <1>2, <1>3, PTL DEF Spec

\* When all counts have totals and no fork in the middle of a lineage is left out, each turn the
\* files tell of is added once (parse_session, select_unique_sessions, lineage_roots and
\* scan_history in usage_history.rs), for any number of files, forks of forks and copies.
THEOREM EachTurnIsCounted == Spec => []EachTurnCountsOnce
<1>. DEFINE J == part = "usage" => UsageInv
<1>1. Init => J
  <2>1. MaxHistory \in Nat /\ Len(<<>>) = 0
    BY HistoryAssumption
  <2>. QED
    BY <2>1, NoFilesYet DEF Init, Usage!Init, UsageInv
<1>2. J /\ [Next]_vars => J'
  BY PartsDoNotMeet, UsageStep
<1>3. J => EachTurnCountsOnce
  BY TurnsCountOnce DEF EachTurnCountsOnce
<1>. QED
  BY <1>1, <1>2, <1>3, PTL DEF Spec

\* While no conversation takes the place of one that has files, the analysis of a trace finds what
\* the run counted above what the session it resumed had, the turns of calls only and the last
\* summary, with however many files, errors and compactions between them (TraceWriter::write,
\* record_terminal_error, restore_snapshot, analyze_trace).
THEOREM AnalysisIsOfTheRun == Spec => []AnalysisTellsTheRun
<1>. DEFINE J == part = "trace" => restarts \in Nat /\ (restarts = 0 => TraceInv)
<1>1. Init => J
  BY TraceBegins DEF Init, Trace!Init
<1>2. J /\ [Next]_vars => J'
  BY PartsDoNotMeet, TraceStep
<1>3. J => AnalysisTellsTheRun
  <2>1. restarts # 0 => Trace!AnalysisTellsTheRun
    BY DEF Trace!AnalysisTellsTheRun
  <2>. QED
    BY <2>1, AnalysisFollows DEF AnalysisTellsTheRun
<1>. QED
  BY <1>1, <1>2, <1>3, PTL DEF Spec

\* No run of setup takes a skill of the user's, or the user's explorer agent without a copy of
\* it, whatever steps failed before (plan_skill_migration in setup.rs, install_explorer_agent in
\* codex_integration.rs).
THEOREM UsersFilesStay == Spec => UsersFilesAreKept
<1>. DEFINE J == part = "setup" => SetupInv
<1>1. Init => J
  BY SetupBegins DEF Init
<1>2. J /\ [Next]_vars => J'
  BY PartsDoNotMeet, SetupKeepsInv
<1>3. J /\ [Next]_vars => [part = "setup" => Setup!KeepsUsersFiles]_vars
  BY PartsDoNotMeet, SetupKeepsInv
<1>. QED
  BY <1>1, <1>2, <1>3, PTL DEF Spec, UsersFilesAreKept
=============================================================================
