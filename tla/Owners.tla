------------------------------- MODULE Owners -------------------------------
(***************************************************************************)
(* Who a chart belongs to, before and after its reader has an account.     *)
(* app/main.py: api_create_chart, api_synastry_charts, _chart_tokens,      *)
(* _owns_chart, claim_anonymous_charts; app/routes/auth.py:                *)
(* auth_otp_verify, auth_logout.                                           *)
(*                                                                         *)
(* A guest's chart is held by the cookie chart_access of the browser, a    *)
(* map from charts to tokens.  A handler reads it from its request and     *)
(* writes all of it in its response, so two tabs of one browser can        *)
(* overwrite what the other one has added.                                 *)
(***************************************************************************)
EXTENDS Naturals, FiniteSets

CONSTANTS
    Browsers, Tabs,     \* Tabs: requests that can run at a time
    Accounts,
    Sheets,             \* charts
    JarSize             \* entries of the cookie that fit into the 4096 bytes of a browser

Absent == "absent"
Nobody == "nobody"

ASSUME OwnersAssumption ==
    JarSize \in Nat \ {0} /\ {Absent, Nobody} \intersect Accounts = {}

VARIABLES
    keeper,     \* BirthProfile.user_id of a chart, Nobody (NULL) or Absent
    jar,        \* jar[b]: the charts in the cookie chart_access
    login,      \* login[b]: the account of the cookie chart_user, or Nobody
    tab,        \* tab[t]: the request a tab waits for, with the cookies it was sent with
    answered,   \* the charts whose response reached browser b alone: nothing else of the
                \* browser ran meanwhile
    contested   \* charts that two claims had both read as unowned

ownersVars == <<keeper, jar, login, tab, answered, contested>>

NoRequest == [pc |-> "idle", from |-> "none", jar |-> {}, who |-> Nobody, sheet |-> "none",
              alone |-> TRUE]

OwnersTypeOK ==
    /\ keeper \in [Sheets -> Accounts \union {Nobody, Absent}]
    /\ jar \in [Browsers -> SUBSET Sheets]
    /\ login \in [Browsers -> Accounts \union {Nobody}]
    /\ tab \in [Tabs -> [pc : {"idle", "compute", "respond", "claim", "claiming"},
                         from : Browsers \union {"none"}, jar : SUBSET Sheets,
                         who : Accounts \union {Nobody}, sheet : Sheets \union {"none"},
                         alone : BOOLEAN]]
    /\ answered \in [Browsers -> SUBSET Sheets]
    /\ contested \subseteq Sheets

OwnersInit ==
    /\ keeper = [c \in Sheets |-> Absent]
    /\ jar = [b \in Browsers |-> {}]
    /\ login = [b \in Browsers |-> Nobody]
    /\ tab = [t \in Tabs |-> NoRequest]
    /\ answered = [b \in Browsers |-> {}]
    /\ contested = {}

\* The tabs of browser b that wait.
Waiting(b) == {t \in Tabs : tab[t].pc # "idle" /\ tab[t].from = b}

\* Tab t of browser b sends request r; nothing it runs with is alone any more.
Send(t, b, r) ==
    /\ tab[t].pc = "idle"
    /\ tab' = [u \in Tabs |->
                  IF u = t THEN [r EXCEPT !.from = b, !.jar = jar[b], !.alone = Waiting(b) = {}]
                  ELSE IF u \in Waiting(b) THEN [tab[u] EXCEPT !.alone = FALSE] ELSE tab[u]]

Closed(t) == tab' = [tab EXCEPT ![t] = NoRequest]

-----------------------------------------------------------------------------
(* api_create_chart, api_synastry_charts                                   *)

Create(t, b) ==
    /\ Send(t, b, [NoRequest EXCEPT !.pc = "compute", !.who = login[b]])
    /\ UNCHANGED <<keeper, jar, login, answered, contested>>

\* A city that is not found, coordinates without a time zone, an impossible date.
RefuseChart(t) ==
    /\ tab[t].pc = "compute"
    /\ Closed(t)
    /\ UNCHANGED <<keeper, jar, login, answered, contested>>

\* _compute_and_save_chart, and the commit of its caller.
SaveChart(t, c) ==
    /\ tab[t].pc = "compute" /\ keeper[c] = Absent
    /\ keeper' = [keeper EXCEPT ![c] = tab[t].who]
    /\ tab' = [tab EXCEPT ![t].pc = "respond", ![t].sheet = c]
    /\ UNCHANGED <<jar, login, answered, contested>>

\* Both charts of a comparison in one commit; the other person's belongs to nobody, and
\* neither enters the cookie.
SavePair(t, c, d) ==
    /\ tab[t].pc = "compute" /\ keeper[c] = Absent /\ keeper[d] = Absent /\ c # d
    /\ keeper' = [keeper EXCEPT ![c] = tab[t].who, ![d] = Nobody]
    /\ Closed(t)
    /\ UNCHANGED <<jar, login, answered, contested>>

\* A fault: the cookie is written without what it held.
FreshJar(t) == {tab[t].sheet}

\* A browser drops a cookie that is too large, and keeps the one it had.
NewJar(t) ==
    LET all == tab[t].jar \union {tab[t].sheet}
    IN  IF Cardinality(all) <= JarSize THEN all ELSE jar[tab[t].from]

ChartResponse(t) ==
    LET b == tab[t].from
    IN  /\ tab[t].pc = "respond"
        /\ jar' = [jar EXCEPT ![b] = NewJar(t)]
        /\ answered' = IF tab[t].alone THEN [answered EXCEPT ![b] = @ \union {tab[t].sheet}]
                       ELSE answered
        /\ Closed(t)
        /\ UNCHANGED <<keeper, login, contested>>

\* The process dies, or the reader leaves, before the response.
ResponseLost(t) ==
    /\ tab[t].pc # "idle"
    /\ Closed(t)
    /\ UNCHANGED <<keeper, jar, login, answered, contested>>

-----------------------------------------------------------------------------
(* auth_otp_verify, claim_anonymous_charts, auth_logout                    *)

\* The code was right: all charts of the cookie are claimed, one after the other.
Verify(t, b, u) ==
    /\ Send(t, b, [NoRequest EXCEPT !.pc = "claim", !.who = u])
    /\ UNCHANGED <<keeper, jar, login, answered, contested>>

\* A fault: the chart is taken whoever has it.
ClaimAny(t, c) ==
    /\ tab[t].pc = "claim" /\ c \in tab[t].jar
    /\ tab' = [tab EXCEPT ![t].jar = @ \ {c}, ![t].pc = "claiming", ![t].sheet = c]
    /\ UNCHANGED <<keeper, jar, login, answered, contested>>

\* "Already owned -> never claim (idempotent + no steal)"
ClaimLook(t, c) ==
    /\ tab[t].pc = "claim" /\ c \in tab[t].jar
    /\ tab' = [tab EXCEPT ![t].jar = @ \ {c},
                          ![t].pc = IF keeper[c] = Nobody THEN "claiming" ELSE "claim",
                          ![t].sheet = c]
    /\ contested' = IF \E s \in Tabs : tab[s].pc = "claiming" /\ tab[s].sheet = c
                    THEN contested \union {c} ELSE contested
    /\ UNCHANGED <<keeper, jar, login, answered>>

\* prof.user_id = uid, by the id of the row alone.
ClaimWrite(t) ==
    /\ tab[t].pc = "claiming"
    /\ keeper' = [keeper EXCEPT ![tab[t].sheet] = tab[t].who]
    /\ tab' = [tab EXCEPT ![t].pc = "claim"]
    /\ UNCHANGED <<jar, login, answered, contested>>

\* A fault: the first chart is enough.
LoginAfterOne(t) ==
    /\ tab[t].pc = "claim" /\ (tab[t].jar = {} \/ tab[t].sheet # "none")
    /\ login' = [login EXCEPT ![tab[t].from] = tab[t].who]
    /\ Closed(t)
    /\ UNCHANGED <<keeper, jar, answered, contested>>

\* set_user_cookie
LoginResponse(t) ==
    /\ tab[t].pc = "claim" /\ tab[t].jar = {}
    /\ login' = [login EXCEPT ![tab[t].from] = tab[t].who]
    /\ Closed(t)
    /\ UNCHANGED <<keeper, jar, answered, contested>>

\* The cookie of the charts stays.
Logout(b) ==
    /\ login[b] # Nobody
    /\ login' = [login EXCEPT ![b] = Nobody]
    /\ UNCHANGED <<keeper, jar, tab, answered, contested>>

OwnersNext ==
    \/ \E t \in Tabs :
          \/ \E b \in Browsers : Create(t, b) \/ \E u \in Accounts : Verify(t, b, u)
          \/ \E c \in Sheets : SaveChart(t, c) \/ ClaimLook(t, c) \/ \E d \in Sheets : SavePair(t, c, d)
          \/ RefuseChart(t) \/ ChartResponse(t) \/ ResponseLost(t)
          \/ ClaimWrite(t) \/ LoginResponse(t)
    \/ \E b \in Browsers : Logout(b)

OwnersSpec == OwnersInit /\ [][OwnersNext]_ownersVars

-----------------------------------------------------------------------------
(* Correctness.                                                            *)

\* _owns_chart: once somebody owns a chart, its token opens nothing.
MayOpen(b, c) ==
    IF keeper[c] \in Accounts THEN login[b] = keeper[c] ELSE c \in jar[b]

\* dashboard_page, chats_page, account_page
Listed(u) == {c \in Sheets : keeper[c] = u}

\* What a reader made stays theirs, whatever tabs, logins and logouts overlap:
\* 1. an entry of the cookie whose response met no other request of the browser is not
\*    overwritten;
\* 2. when an account logs in, every such chart is on a dashboard;
\* 3. "a different user's chart is never stolen": only claims that overlap can move a
\*    chart from one account to another.
ChartsFollowReader ==
    [][/\ \A b \in Browsers : \A c \in answered[b] \intersect jar[b] :
             /\ c \in jar'[b]
             /\ login'[b] \notin {login[b], Nobody} => \E u \in Accounts : c \in Listed(u)
       /\ \A c \in Sheets \ contested :
             keeper[c] \in Accounts => keeper'[c] = keeper[c]]_ownersVars
=============================================================================
