--------------------------- MODULE SearchConsole ---------------------------
(***************************************************************************)
(* `zipf gsc auth` and `zipf gsc import`: a token file that is read,       *)
(* refreshed and rewritten in place (sources/google_oauth.py), and an      *)
(* import that pages through single fetches, each cached by itself         *)
(* (services/gsc.py).  Commands of several processes run side by side.     *)
(***************************************************************************)
EXTENDS Integers, Sequences, FiniteSets, FiniteSetsExt

CONSTANTS
  Importers,    \* processes
  Extent,       \* how many full pages Search Console has for the window of a day
  MaxPages,     \* MAX_PAGES
  DayLength,    \* ticks of the clock in a day
  PageTTL,      \* the capability's TTL: one day
  Lifetime, Margin,  \* expires_in and EXPIRY_MARGIN, in ticks
  MaxClock, MaxPulls, MaxConsents, MaxTroubles  \* bounds of the model

ASSUME SearchConsoleAssumption ==
  /\ MaxPages \in Nat \ {0} /\ DayLength \in Nat \ {0} /\ MaxClock \in Nat
  /\ PageTTL \in Nat /\ PageTTL >= DayLength
  /\ Margin \in Nat /\ Lifetime \in Nat /\ Margin < Lifetime
  /\ Extent \in [0 .. MaxClock \div DayLength -> Nat]

VARIABLES
  clock,
  tokenFile,  \* google_token.json
  granted,    \* refresh tokens that Google has given out, numbered from 1
  call,       \* per process, the command it runs
  store,      \* the pages in raw_response
  harm,       \* history: what befell the token file since one last opened it alone
  troubles

consoleVars == <<clock, tokenFile, granted, call, store, harm, troubles>>

NoToken == [refresh |-> 0, at |-> 0]
Idle == [pc |-> "idle", errand |-> "none", day |-> 0, force |-> FALSE, read |-> <<>>,
         seen |-> 0, onDay |-> FALSE, token |-> NoToken]

Today == clock \div DayLength

\* The exception ends the command.  What it stored stays.
FailCall(p) == call' = [call EXCEPT ![p] = Idle]

-----------------------------------------------------------------------------
(* The token *)

\* `zipf gsc auth` asks for consent whatever is stored.
StartAuth(p) ==
  /\ call[p].pc \in {"idle", "done"} /\ granted < MaxConsents
  /\ call' = [call EXCEPT ![p] = [Idle EXCEPT !.pc = "consenting", !.errand = "auth"]]
  /\ UNCHANGED <<clock, tokenFile, granted, store, harm, troubles>>

\* access_token: none is asked for, an expired one refreshed.  Of an empty or a
\* torn file json.loads makes an error that nothing handles.
TakeToken(p, caller) ==
  call' = [call EXCEPT ![p] =
    CASE tokenFile.state = "none" -> [caller EXCEPT !.pc = "consenting"]
      [] tokenFile.state \in {"empty", "torn"} -> Idle
      [] OTHER ->
           IF clock < tokenFile.token.at + Lifetime - Margin THEN [caller EXCEPT !.pc = "sending"]
           ELSE IF tokenFile.token.refresh = 0 THEN Idle
           ELSE [caller EXCEPT !.pc = "refreshing", !.token = tokenFile.token]]

Writers == {p \in Importers : call[p].pc = "writing"}

\* write_text opens the file, which empties it; nothing keeps another out ...
Save(p, token) ==
  /\ tokenFile' = [state |-> "empty", token |-> NoToken]
  /\ harm' = IF Writers = {} THEN {} ELSE harm \cup {"overlap"}
  /\ call' = [call EXCEPT ![p] = [@ EXCEPT !.pc = "writing", !.token = token]]
  /\ UNCHANGED <<clock, store, troubles>>

\* ... and writes from its start: over what another has written since, a shorter
\* token leaves the end of the longer one.
WriteToken(p) ==
  /\ call[p].pc = "writing"
  /\ \/ tokenFile' = [state |-> "whole", token |-> call[p].token]
     \/ tokenFile.state # "empty" /\ tokenFile' = [state |-> "torn", token |-> NoToken]
  /\ call' = [call EXCEPT ![p] = IF @.errand = "auth" THEN Idle
                                 ELSE [@ EXCEPT !.pc = "sending", !.token = NoToken]]
  /\ UNCHANGED <<clock, granted, store, harm, troubles>>

\* authorise: the person consents and the code is exchanged; prompt=consent makes
\* Google give a refresh token every time.
Consent(p) ==
  /\ call[p].pc = "consenting" /\ granted < MaxConsents
  /\ granted' = granted + 1
  /\ Save(p, [refresh |-> granted + 1, at |-> clock])

\* Mutant: the response is stored as it came, without a refresh token.
RefreshBare(p) ==
  /\ call[p].pc = "refreshing"
  /\ Save(p, [refresh |-> 0, at |-> clock])
  /\ UNCHANGED granted

\* _refresh: the response has none, and the one there was is carried forward.
Refresh(p) ==
  /\ call[p].pc = "refreshing"
  /\ Save(p, [call[p].token EXCEPT !.at = clock])
  /\ UNCHANGED granted

\* Consent is denied, times out after CONSENT_TIMEOUT_S or comes back with another
\* state; the token endpoint, or Search Console, refuses or does not answer.
Refused(p) ==
  /\ call[p].pc \in {"consenting", "refreshing", "sending"}
  /\ FailCall(p)
  /\ UNCHANGED <<clock, tokenFile, granted, store, harm, troubles>>

-----------------------------------------------------------------------------
(* The import *)

\* The window is a matter of the day the import starts on.
StartImport(p, force) ==
  /\ call[p].pc \in {"idle", "done"}
  /\ call' = [call EXCEPT ![p] = [Idle EXCEPT !.pc = "paging", !.errand = "import",
                                              !.day = Today, !.force = force]]
  /\ UNCHANGED <<clock, tokenFile, granted, store, harm, troubles>>

\* Mutant: date_range is asked for each page.
QuestionNow(p) == [day |-> Today, page |-> Len(call[p].read)]

\* The parameters of the next page.
Question(p) == [day |-> call[p].day, page |-> Len(call[p].read)]

\* Mutant: the TTL ends one tick early.
FreshEarly(i) == clock - store[i].at < PageTTL - 1

FreshPage(i) == clock - store[i].at < PageTTL

Stored(p) == {i \in DOMAIN store : store[i].question = Question(p)}

\* A full page has another after it; one of which fewer rows were parsed is the
\* last, and at MAX_PAGES the import stops.  A body that is no object, or not
\* JSON, ends the command; an object without rows is a page without rows.
Take(p, i, body) ==
  LET read == Append(call[p].read, i) IN
  IF body = "bad" THEN FailCall(p)
  ELSE call' = [call EXCEPT ![p] =
         [@ EXCEPT !.read = read, !.seen = 0, !.onDay = FALSE,
                   !.pc = IF body # "full" \/ Len(read) = MaxPages THEN "done" ELSE "paging"]]

\* fetch: the newest stored answer if it is fresh, else the network.
LookUp(p) ==
  /\ call[p].pc = "paging"
  /\ LET newest == Max(Stored(p)) IN
     IF ~call[p].force /\ Stored(p) # {} /\ FreshPage(newest)
     THEN Take(p, newest, store[newest].body)
     ELSE TakeToken(p, [call[p] EXCEPT !.seen = Len(store),
                                       !.onDay = Today = call[p].day])
  /\ UNCHANGED <<clock, tokenFile, granted, store, harm, troubles>>

\* What Search Console says of a window, which is final three days back.
Says(question) == IF question.page < Extent[question.day] THEN "full" ELSE "short"

\* What a 200 may hold: a page; what parse raises on ("bad"); or what it takes for
\* a page with fewer rows than there are, such as an error object ("hollow").
Bodies == {"full", "short", "bad", "hollow"}

\* The answer is stored before it is parsed, and there is no validate hook: whatever
\* the body is, it is stored, and served until its TTL is over.
Receive(p, body) ==
  /\ call[p].pc = "sending" /\ Len(store) < MaxPulls
  /\ \/ body = Says(Question(p)) /\ UNCHANGED troubles
     \/ /\ body \in {"bad", "hollow"} /\ troubles < MaxTroubles
        /\ troubles' = troubles + 1
  /\ store' = Append(store, [question |-> Question(p), body |-> body, at |-> clock,
                             forced |-> call[p].force, seen |-> call[p].seen,
                             onDay |-> call[p].onDay])
  /\ Take(p, Len(store) + 1, body)
  /\ UNCHANGED <<clock, tokenFile, granted, harm>>

-----------------------------------------------------------------------------

Killed(p) ==
  /\ call[p].pc \notin {"idle", "done"} /\ troubles < MaxTroubles
  /\ troubles' = troubles + 1
  /\ harm' = IF p \in Writers THEN harm \cup {"death"} ELSE harm
  /\ FailCall(p)
  /\ UNCHANGED <<clock, tokenFile, granted, store>>

PassTime ==
  /\ clock < MaxClock /\ clock' = clock + 1
  /\ UNCHANGED <<tokenFile, granted, call, store, harm, troubles>>

ConsoleInit ==
  /\ clock = 0 /\ granted = 0 /\ store = <<>> /\ harm = {} /\ troubles = 0
  /\ tokenFile = [state |-> "none", token |-> NoToken]
  /\ call = [p \in Importers |-> Idle]

ConsoleNext ==
  \/ \E p \in Importers :
       \/ StartAuth(p) \/ Consent(p) \/ Refresh(p) \/ Refused(p)
       \/ WriteToken(p)
       \/ \E force \in BOOLEAN : StartImport(p, force)
       \/ LookUp(p) \/ \E body \in Bodies : Receive(p, body)
       \/ Killed(p)
  \/ PassTime

ConsoleSpec == ConsoleInit /\ [][ConsoleNext]_consoleVars

-----------------------------------------------------------------------------

Tokens == [refresh : Nat, at : Nat]
Questions == [day : Nat, page : Nat]
Calls == [pc : {"idle", "consenting", "paging", "refreshing", "writing", "sending", "done"},
          errand : {"none", "auth", "import"}, day : Nat, force : BOOLEAN, read : Seq(Nat),
          seen : Nat, onDay : BOOLEAN, token : Tokens]
Pulls == [question : Questions, body : Bodies, at : Nat,
          forced : BOOLEAN, seen : Nat, onDay : BOOLEAN]

ConsoleTypeOK ==
  /\ clock \in Nat /\ granted \in Nat /\ troubles \in Nat
  /\ tokenFile \in [state : {"none", "empty", "torn", "whole"}, token : Tokens]
  /\ call \in [Importers -> Calls]
  /\ store \in Seq(Pulls)
  /\ harm \subseteq {"overlap", "death"}

\* "carry the existing one forward or the next refresh has nothing to present"
\* (google_oauth.py:202): a token that can be read can be refreshed, whatever
\* refreshes and authorisations overlapped.  It is lost in two ways only: two
\* writers were in the file at once, which nothing prevents, and left it torn; or
\* one died between emptying the file and writing it.
RefreshTokenLostOnlyByWriters ==
  /\ tokenFile.state = "whole" => tokenFile.token.refresh \in 1 .. granted
  /\ tokenFile.state = "torn" => "overlap" \in harm
  /\ tokenFile.state = "empty" => Writers # {} \/ "death" \in harm

\* An import that ends has read the pages of one window from the first on, each
\* once and, but for the last of them, full as Search Console has it; and the last
\* is the short one, or the MAX_PAGES-th.  Neither midnight nor a resume from other
\* imports' pages, nor a body that could not be parsed, leaves a hole.  What does is
\* a hollow body: the import takes it for the last page, which "is served for the
\* rest of the TTL" (fetch.py:289), and ends as if it were whole.
HolesOnlyFromHollowPages ==
  \A p \in Importers : call[p].pc = "done" =>
    LET read == call[p].read
        full == Extent[call[p].day]
        Body(n) == store[read[n]].body IN
    /\ read # <<>>
    /\ \A n \in DOMAIN read : store[read[n]].question = [day |-> call[p].day, page |-> n - 1]
    /\ \A n \in DOMAIN read : n < Len(read) => Body(n) = "full" /\ n <= full
    /\ \/ Body(Len(read)) = "short" /\ Len(read) = full + 1
       \/ Body(Len(read)) = "full" /\ Len(read) = MaxPages /\ full >= MaxPages
       \/ Body(Len(read)) = "hollow"

\* "an import interrupted at page 7 resumes without re-reading pages 1 to 6"
\* (services/gsc.py:4): on the day of its window no page is asked for that was
\* stored before, except with --force.  (On the next day the window is another
\* one, and everything is read again whatever the TTL says.)
ResumedNotReread ==
  \A j \in DOMAIN store :
    store[j].onDay /\ ~store[j].forced =>
      \A i \in 1 .. store[j].seen : store[i].question # store[j].question
=============================================================================
