--------------------------------- MODULE Channels ---------------------------------
(***************************************************************************)
(* One mail channel of a tenant, src/lib/channels: members connect their   *)
(* mailboxes to it, by OAuth or with a password, and lose them again, and  *)
(* administrators have the mailboxes read.  The provider may hand out a    *)
(* new refresh token at every refresh, and the old one is then void.       *)
(*                                                                         *)
(* Every statement is a step of its own where another request could make   *)
(* a difference; a mailbox holds one message.                              *)
(***************************************************************************)
EXTENDS Naturals, Sequences, FiniteSets, FiniteSetsExt

CONSTANTS Staff,               \* memberships, each with a mailbox
          Tabs,                \* a member's browser tabs, in which one connects
          Ingests,             \* administrators' requests
          MaxAuths,            \* bound: rows of ChannelAuth
          MaxTokens,           \* bound: refresh tokens of a grant
          MaxFaults            \* bound: requests that die, errors of the provider

VARIABLES kind,                \* "OAUTH" or "IMAP"
          rotates,             \* the provider replaces refresh tokens
          auth,                \* table ChannelAuth
          status,              \* Channel.status
          grant,               \* at the provider, of each row: its refresh token, whether it
                               \* was given to the tenant's own OAuth app, and whether it was
                               \* cut there
          mail,                \* mailboxes in which the message has arrived
          copies,              \* rows of IngestedMessage for each mailbox's message
          tab, ingest, faults,
          excused              \* history: grants that two requests refreshed at once, or one
                               \* without storing the answer, or that met an error

vars == <<kind, rotates, auth, status, grant, mail, copies, tab, ingest, faults, excused>>

Nobody == "nobody"
NoTab == [pc |-> "idle", who |-> Nobody]
NoIngest == [pc |-> "idle", todo |-> {}, token |-> 0]
Rows == DOMAIN auth
Active == {a \in Rows : ~ auth[a].revoked}

Init == /\ kind \in {"OAUTH", "IMAP"}
        /\ rotates \in (IF kind = "OAUTH" THEN BOOLEAN ELSE {FALSE})
        /\ auth = <<>>
        /\ status = "INACTIVE"
        /\ grant = <<>>
        /\ mail = {}
        /\ copies = [s \in Staff |-> 0]
        /\ tab = [t \in Tabs |-> NoTab]
        /\ ingest = [i \in Ingests |-> NoIngest]
        /\ faults = 0
        /\ excused = {}

\* A pass takes the newest row first.
Pass(i) == Max(ingest[i].todo)
Owner(a) == auth[a].who
Goto(i, pc) == ingest' = [ingest EXCEPT ![i].pc = pc]
NextPass(i) == ingest' = [ingest EXCEPT ![i] = [NoIngest EXCEPT !.pc = "pass",
                                                 !.todo = ingest[i].todo \ {Pass(i)}]]
-----------------------------------------------------------------------------
\* The OAuth callback after the exchange of the code, and setPasswordCreds.
Connect(t, s) ==
    /\ tab[t].pc = "idle" /\ Len(auth) + Cardinality({u \in Tabs : tab[u].pc # "idle"}) < MaxAuths
    /\ tab' = [tab EXCEPT ![t] = [pc |-> "prior", who |-> s]]
    /\ UNCHANGED <<kind, rotates, auth, status, grant, mail, copies, ingest, faults, excused>>

revokePriorAuthsForMembership(t) ==
    /\ tab[t].pc = "prior"
    /\ auth' = [a \in Rows |-> IF Owner(a) = tab[t].who THEN [auth[a] EXCEPT !.revoked = TRUE]
                               ELSE auth[a]]
    /\ tab' = [tab EXCEPT ![t].pc = "create"]
    /\ UNCHANGED <<kind, rotates, status, grant, mail, copies, ingest, faults, excused>>

\* The code was exchanged with the tenant's own OAuth app if one was configured then, else
\* with the platform's.  A password does not touch the channel's status.
CreateAuth(t) ==
    /\ tab[t].pc = "create"
    /\ auth' = Append(auth, [who |-> tab[t].who, revoked |-> FALSE, token |-> 1,
                             expired |-> FALSE, failed |-> FALSE])
    /\ \E own \in (IF kind = "OAUTH" THEN BOOLEAN ELSE {FALSE}) :
           grant' = Append(grant, [token |-> 1, cut |-> FALSE, own |-> own])
    /\ status' = IF kind = "OAUTH" THEN "ACTIVE" ELSE status
    /\ tab' = [tab EXCEPT ![t] = NoTab]
    /\ UNCHANGED <<kind, rotates, mail, copies, ingest, faults, excused>>

\* By the member or an administrator; a row that is revoked stays so.
revokeChannelAuth(a) ==
    /\ a \in Active
    /\ auth' = [auth EXCEPT ![a].revoked = TRUE]
    /\ UNCHANGED <<kind, rotates, status, grant, mail, copies, tab, ingest, faults, excused>>

RevokeChannel ==
    /\ auth # <<>>
    /\ auth' = [a \in Rows |-> [auth[a] EXCEPT !.revoked = TRUE]]
    /\ status' = "REVOKED"
    /\ UNCHANGED <<kind, rotates, grant, mail, copies, tab, ingest, faults, excused>>
-----------------------------------------------------------------------------
\* One pass for each active row.  (Without any, the adapter is called once in vain.)
runIngest(i) ==
    /\ ingest[i].pc = "idle"
    /\ ingest' = [ingest EXCEPT ![i].pc = "pass", ![i].todo = Active]
    /\ UNCHANGED <<kind, rotates, auth, status, grant, mail, copies, tab, faults, excused>>

EndIngest(i) ==
    /\ ingest[i].pc = "pass" /\ ingest[i].todo = {}
    /\ ingest' = [ingest EXCEPT ![i] = NoIngest]
    /\ UNCHANGED <<kind, rotates, auth, status, grant, mail, copies, tab, faults, excused>>

Refreshing(i, a) == ingest[i].pc \in {"exchange", "store", "refused"} /\ Pass(i) = a

\* ensureFreshTokens, getPasswordCreds: a row revoked since the list was read has no tokens,
\* and the adapter fails on that.
ensureFreshTokens(i) ==
    /\ ingest[i].pc = "pass" /\ ingest[i].todo # {}
    /\ LET a == Pass(i)
           refreshes == kind = "OAUTH" /\ auth[a].expired
       IN  IF auth[a].revoked THEN NextPass(i) /\ UNCHANGED excused
           ELSE /\ ingest' = [ingest EXCEPT ![i].token = auth[a].token,
                                            ![i].pc = IF refreshes THEN "exchange" ELSE "fetch"]
                /\ excused' = IF refreshes /\ \E j \in Ingests \ {i} : Refreshing(j, a)
                              THEN excused \cup {a} ELSE excused
    /\ UNCHANGED <<kind, rotates, auth, status, grant, mail, copies, tab, faults>>

\* The token endpoint of the provider.  A refresh is always sent with the platform's client
\* id and secret, which the provider refuses for a grant that is another app's.
Exchange(i) ==
    /\ ingest[i].pc = "exchange"
    /\ LET a == Pass(i)
           new == IF rotates THEN grant[a].token + 1 ELSE grant[a].token
       IN  IF ingest[i].token = grant[a].token /\ ~ grant[a].cut /\ ~ grant[a].own
           THEN /\ new <= MaxTokens
                /\ grant' = [grant EXCEPT ![a].token = new]
                /\ ingest' = [ingest EXCEPT ![i].pc = "store", ![i].token = new]
           ELSE Goto(i, "refused") /\ UNCHANGED grant
    /\ UNCHANGED <<kind, rotates, auth, status, mail, copies, tab, faults, excused>>

\* Any answer that is not a success counts as a refusal.
ProviderErrs(i) ==
    /\ ingest[i].pc = "exchange" /\ faults < MaxFaults
    /\ faults' = faults + 1
    /\ Goto(i, "refused")
    /\ excused' = excused \cup {Pass(i)}
    /\ UNCHANGED <<kind, rotates, auth, status, grant, mail, copies, tab>>

\* Mutation of Merged: the refresh token that was there is kept.
MergedOld(row, i) == [row EXCEPT !.expired = FALSE]

\* The new refresh token if the provider sent one, else the one that was there.
Merged(row, i) == [row EXCEPT !.token = ingest[i].token, !.expired = FALSE]

StoreTokens(i) ==
    /\ ingest[i].pc = "store"
    /\ auth' = [auth EXCEPT ![Pass(i)] = Merged(@, i)]
    /\ Goto(i, "fetch")
    /\ UNCHANGED <<kind, rotates, status, grant, mail, copies, tab, faults, excused>>

RefreshFails(i) ==
    /\ ingest[i].pc = "refused"
    /\ auth' = [auth EXCEPT ![Pass(i)].revoked = TRUE]
    /\ status' = "REFRESH_FAILED"
    /\ NextPass(i)
    /\ UNCHANGED <<kind, rotates, grant, mail, copies, tab, faults, excused>>

\* A mailbox that refuses a password marks the row, unless it was revoked meanwhile; any
\* other error is reported.
Fetch(i) ==
    /\ ingest[i].pc = "fetch"
    /\ LET a == Pass(i) IN
       IF grant[a].cut
       THEN /\ auth' = [auth EXCEPT ![a].failed = @ \/ (kind = "IMAP" /\ ~ auth[a].revoked)]
            /\ NextPass(i)
       ELSE /\ IF Owner(a) \in mail THEN Goto(i, "find") ELSE NextPass(i)
            /\ UNCHANGED auth
    /\ UNCHANGED <<kind, rotates, status, grant, mail, copies, tab, faults, excused>>

\* Mutation of Known: a message is taken as it comes.
NeverKnown(s) == FALSE

\* A row of the same hash is there.
Known(s) == copies[s] > 0

FindMessage(i) ==
    /\ ingest[i].pc = "find"
    /\ IF Known(Owner(Pass(i))) THEN NextPass(i) ELSE Goto(i, "insert")
    /\ UNCHANGED <<kind, rotates, auth, status, grant, mail, copies, tab, faults, excused>>

InsertMessage(i) ==
    /\ ingest[i].pc = "insert"
    /\ copies' = [copies EXCEPT ![Owner(Pass(i))] = @ + 1]
    /\ NextPass(i)
    /\ UNCHANGED <<kind, rotates, auth, status, grant, mail, tab, faults, excused>>

Dies(i) ==
    /\ ingest[i].pc # "idle" /\ faults < MaxFaults
    /\ faults' = faults + 1
    /\ excused' = IF ingest[i].pc = "store" THEN excused \cup {Pass(i)} ELSE excused
    /\ ingest' = [ingest EXCEPT ![i] = NoIngest]
    /\ UNCHANGED <<kind, rotates, auth, status, grant, mail, copies, tab>>
-----------------------------------------------------------------------------
MailArrives(s) ==
    /\ s \notin mail /\ mail' = mail \cup {s}
    /\ UNCHANGED <<kind, rotates, auth, status, grant, copies, tab, ingest, faults, excused>>

TokensExpire(a) ==
    /\ kind = "OAUTH" /\ ~ auth[a].expired
    /\ auth' = [auth EXCEPT ![a].expired = TRUE]
    /\ UNCHANGED <<kind, rotates, status, grant, mail, copies, tab, ingest, faults, excused>>

\* The member withdraws the grant at the provider, or changes the password.
GrantCut(a) ==
    /\ ~ grant[a].cut
    /\ grant' = [grant EXCEPT ![a].cut = TRUE]
    /\ UNCHANGED <<kind, rotates, auth, status, mail, copies, tab, ingest, faults, excused>>

Next == \/ \E t \in Tabs : \/ \E s \in Staff : Connect(t, s)
                           \/ revokePriorAuthsForMembership(t) \/ CreateAuth(t)
        \/ \E a \in Rows : revokeChannelAuth(a) \/ TokensExpire(a) \/ GrantCut(a)
        \/ \E i \in Ingests : \/ runIngest(i) \/ EndIngest(i) \/ ensureFreshTokens(i)
                              \/ Exchange(i) \/ ProviderErrs(i) \/ StoreTokens(i) \/ RefreshFails(i)
                              \/ Fetch(i) \/ FindMessage(i) \/ InsertMessage(i) \/ Dies(i)
        \/ \E s \in Staff : MailArrives(s)
        \/ RevokeChannel

Spec == Init /\ [][Next]_vars
-----------------------------------------------------------------------------
TypeOK ==
    /\ kind \in {"OAUTH", "IMAP"} /\ rotates \in BOOLEAN /\ faults \in 0 .. MaxFaults
    /\ status \in {"INACTIVE", "ACTIVE", "REVOKED", "REFRESH_FAILED"}
    /\ Len(auth) <= MaxAuths /\ DOMAIN grant = Rows /\ excused \subseteq Rows
    /\ \A a \in Rows :
          /\ auth[a] \in [who : Staff, revoked : BOOLEAN, token : 1 .. MaxTokens,
                          expired : BOOLEAN, failed : BOOLEAN]
          /\ grant[a] \in [token : 1 .. MaxTokens, cut : BOOLEAN, own : BOOLEAN]
    /\ \A i \in Ingests : ingest[i].todo \subseteq Rows /\ ingest[i].token \in 0 .. MaxTokens

\* A message is stored once for each request that can have looked for it before another
\* stored it, and no more often, however often the mailbox is read or connected anew.
StoredOncePerIngest == \A s \in Staff : copies[s] <= Cardinality(Ingests)

MailInv == TypeOK /\ StoredOncePerIngest

\* "Hard refresh failure (refresh_token revoked, account suspended, scope changed)": a refresh
\* takes a member's connection away only when the grant was withdrawn, or was given to the
\* tenant's own OAuth app, or after an error of the provider, two refreshes at once, or one
\* whose answer was never stored.
HealthyAuthKept ==
    [][\A i \in Ingests : ingest[i].pc = "refused" /\ ingest'[i].pc = "pass"
          => grant[Pass(i)].cut \/ grant[Pass(i)].own \/ Pass(i) \in excused]_vars
=============================================================================
