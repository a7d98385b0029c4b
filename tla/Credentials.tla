----------------------------- MODULE Credentials ----------------------------
(***************************************************************************)
(* Logging in (src/auth.rs), auth.json (src/config.rs) and the refresh of  *)
(* an expired token when a runner starts (src/agent/mod.rs), by several    *)
(* programs of one user at a time.  The browser, the user and the issuer   *)
(* are external: an approval is a redirect to the port of the login's URL  *)
(* that carries its state, and may come late, twice or never.  The code it *)
(* carries has no part here: the program compares the state only, and the  *)
(* issuer answers with a token.  A refresh token is good for one refresh.  *)
(***************************************************************************)
EXTENDS Naturals, FiniteSets

CONSTANTS Logins,      \* programs, each of which logs in once
          Runners,     \* programs that start an agent
          MaxTokens    \* bound: tokens issued

Ports == {1455, 1457}  \* DEFAULT_CALLBACK_PORT, FALLBACK_CALLBACK_PORT
None == 0
Other == 98            \* a program that has nothing to do with Spark
Torn == 99             \* opened and truncated, not yet written

VARIABLES port,        \* who listens on a port, or None
          at,          \* where each program is
          url,         \* the port in its redirect_uri
          redirects,   \* what browsers are about to request
          issued,      \* the last token issued
          spent,       \* refresh tokens that were used
          expired,     \* tokens past their time
          file,        \* auth.json: a token, None or Torn
          codex,       \* Codex's auth.json, read if there is no other
          held,        \* the token each program has in memory
          limits       \* where the input limits of each runner come from

tokenVars == <<issued, spent, expired, file, codex, held, limits>>
vars == <<port, at, url, redirects, issued, spent, expired, file, codex, held, limits>>

Programs == Logins \cup Runners

Init == /\ port \in [Ports -> {None, Other}]
        /\ at = [p \in Programs |-> "none"] /\ url = [l \in Logins |-> None]
        /\ redirects = {}
        /\ issued = 1 /\ spent = {} /\ expired = {}
        /\ file = None /\ codex \in {None, 1}
        /\ held = [p \in Programs |-> None]
        /\ limits = [r \in Runners |-> "none"]

NewToken(p) == /\ issued < MaxTokens /\ issued' = issued + 1
               /\ held' = [held EXCEPT ![p] = issued + 1]

-----------------------------------------------------------------------------
(* login and login_device_code.                                            *)

\* bind_callback_listener: the registered port, the other one if it is in use.
BeginLogin(l) ==
    /\ at[l] = "none"
    /\ LET p == IF port[1455] = None THEN 1455 ELSE 1457 IN
       IF port[p] = None
       THEN /\ port' = [port EXCEPT ![p] = l] /\ url' = [url EXCEPT ![l] = p]
            /\ at' = [at EXCEPT ![l] = "waiting"]
       ELSE at' = [at EXCEPT ![l] = "failed"] /\ UNCHANGED <<port, url>>
    /\ UNCHANGED <<redirects, tokenVars>>

\* authorize_url
RedirectOf(l) == [to |-> url[l], state |-> l]

\* The user approves the page of a login, at any time after its URL was shown.
Approve(l) ==
    /\ url[l] # None
    /\ redirects' = redirects \cup {RedirectOf(l)}
    /\ UNCHANGED <<port, at, url, tokenVars>>

StateMatches(l, r) == r.state = l

\* wait_for_callback: the one connection that is accepted decides; the
\* listener is gone with it.
Callback(l, r) ==
    /\ r \in redirects /\ port[r.to] = l
    /\ redirects' = redirects \ {r}
    /\ port' = [port EXCEPT ![r.to] = None]
    /\ IF StateMatches(l, r)
       THEN at' = [at EXCEPT ![l] = "exchanging"]
       ELSE at' = [at EXCEPT ![l] = "failed"]
    /\ UNCHANGED <<url, tokenVars>>

\* Another program connects, the request has no code, or the user gives up.
GiveUp(l) ==
    /\ at[l] \in {"waiting", "exchanging", "polling"}
    /\ port' = [p \in Ports |-> IF port[p] = l THEN None ELSE port[p]]
    /\ at' = [at EXCEPT ![l] = "failed"]
    /\ UNCHANGED <<url, redirects, tokenVars>>

\* request_device_code, then poll_device_code until the user entered the code
\* or 15 minutes have passed (GiveUp).
BeginDeviceLogin(l) ==
    /\ at[l] = "none"
    /\ at' = [at EXCEPT ![l] = "polling"]
    /\ UNCHANGED <<port, url, redirects, tokenVars>>

\* exchange_code and tokens_from_response.
Exchange(l) ==
    /\ at[l] \in {"exchanging", "polling"}
    /\ NewToken(l)
    /\ at' = [at EXCEPT ![l] = "saving"]
    /\ UNCHANGED <<port, url, redirects, spent, expired, file, codex, limits>>

-----------------------------------------------------------------------------
(* save_auth, load_auth and refresh.                                       *)

\* save_auth: open with truncation, then write_all.
OpenForSave(p) ==
    /\ at[p] = "saving"
    /\ at' = [at EXCEPT ![p] = "writing"] /\ file' = Torn
    /\ UNCHANGED <<port, url, redirects, issued, spent, expired, codex, held, limits>>

WriteSaved(p) ==
    /\ at[p] = "writing"
    /\ at' = [at EXCEPT ![p] = "ready"] /\ file' = held[p]
    /\ UNCHANGED <<port, url, redirects, issued, spent, expired, codex, held, limits>>

\* load_auth: Codex's tokens if there is no file; half a file does not parse.
Load(p) ==
    /\ at[p] = "none"
    /\ LET found == IF file = None THEN codex ELSE file IN
       /\ at' = [at EXCEPT ![p] = IF found \in {None, Torn} THEN "failed" ELSE "loaded"]
       /\ held' = [held EXCEPT ![p] = IF found = Torn THEN None ELSE found]
    /\ UNCHANGED <<port, url, redirects, issued, spent, expired, file, codex, limits>>

IsExpired(t) == t \in expired

\* The service's models are asked for with the token as it is.
LimitsOf(t) == IF IsExpired(t) THEN "default" ELSE "model"

\* resolve_input_limits, before the runner exists: without an answer the limits
\* are those of the default window.
ResolveLimits(p) ==
    /\ at[p] = "loaded"
    /\ at' = [at EXCEPT ![p] = "limited"]
    /\ limits' = [limits EXCEPT ![p] = LimitsOf(held[p])]
    /\ UNCHANGED <<port, url, redirects, issued, spent, expired, file, codex, held>>

\* spark usage: the token is not refreshed either; 401 says to log in.
FetchUsage(p) ==
    /\ at[p] = "loaded"
    /\ at' = [at EXCEPT ![p] = IF IsExpired(held[p]) THEN "failed" ELSE "ready"]
    /\ UNCHANGED <<port, url, redirects, tokenVars>>

\* (Fault: what is saved is the token that was refreshed.)
OldIsSaved(p) == /\ spent' = spent \cup {held[p]} /\ UNCHANGED held
                 /\ issued < MaxTokens /\ issued' = issued + 1

\* refresh
Refreshed(p) == spent' = spent \cup {held[p]} /\ NewToken(p)

\* new_with_reasoning_effort.  The issuer refuses a token that was used.
StartRunner(p) ==
    /\ at[p] = "limited"
    /\ IF ~IsExpired(held[p])
       THEN at' = [at EXCEPT ![p] = "ready"] /\ UNCHANGED <<issued, spent, held>>
       ELSE IF held[p] \in spent
       THEN at' = [at EXCEPT ![p] = "failed"] /\ UNCHANGED <<issued, spent, held>>
       ELSE /\ at' = [at EXCEPT ![p] = "saving"]
            /\ Refreshed(p)
    /\ UNCHANGED <<port, url, redirects, expired, file, codex, limits>>

\* The program is killed, or its request or write fails; whatever it was
\* saving stays half written.
Die(p) ==
    /\ at[p] \in {"loaded", "limited", "saving", "writing"}
    /\ at' = [at EXCEPT ![p] = "failed"]
    /\ UNCHANGED <<port, url, redirects, tokenVars>>

TimePasses ==
    /\ \E t \in 1 .. issued : t \notin expired /\ expired' = expired \cup {t}
    /\ UNCHANGED <<port, at, url, redirects, issued, spent, file, codex, held, limits>>

Next ==
    \/ \E l \in Logins : BeginLogin(l) \/ Approve(l) \/ BeginDeviceLogin(l) \/ GiveUp(l) \/ Exchange(l)
    \/ \E l \in Logins : \E r \in redirects : Callback(l, r)
    \/ \E p \in Programs : OpenForSave(p) \/ WriteSaved(p) \/ Die(p)
    \/ \E p \in Runners : Load(p) \/ ResolveLimits(p) \/ FetchUsage(p) \/ StartRunner(p)
    \/ TimePasses

Spec == Init /\ [][Next]_vars

-----------------------------------------------------------------------------
(* Properties.                                                             *)

\* What is written to auth.json was refreshed by nobody, however many logins and
\* refreshes of the same token go on at once and in whatever order they are saved: the
\* next program that finds it expired can refresh it.
SavesUnspent ==
    file' # file /\ file' \notin {None, Torn} => file' \notin spent'

\* (violated) The token that replaced a spent one can be loaded, or is about to
\* be saved: a kill between refresh and save_auth, or in it, ends the login.
RefreshedIsKept ==
    \A t \in spent : \/ file \notin {t, Torn, None}
                     \/ \E p \in Programs : at[p] \in {"saving", "writing"}

\* (violated) A runner whose tokens the service accepts has the limits of its
\* model (cli.rs: the default threshold is 90% of the model context window).
LimitsAreTheModels ==
    \A p \in Runners : at[p] \in {"saving", "writing", "ready"} => limits[p] # "default"
=============================================================================
