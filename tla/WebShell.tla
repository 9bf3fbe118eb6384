------------------------------- MODULE WebShell -------------------------------
(***************************************************************************)
(* One browser tab of the web client: the session and the dealership it     *)
(* keeps in localStorage, the frame around every page (AppShell), the page   *)
(* inside it, and the notifications, with answers of the server that come    *)
(* in any order, late, or not at all.                                        *)
(*                                                                           *)
(* An event handler or the continuation of an answer runs to its end, then   *)
(* React renders and runs the effects: that is one step.                     *)
(***************************************************************************)
EXTENDS Integers, Sequences, FiniteSets, Bags, SequencesExt, FiniteSetsExt

CONSTANTS
  User, Dealership,
  NULL,
  Memberships,   \* the dealerships of a user, in the order the server lists them
  Role,          \* the role of a user in a dealership
  Platform,      \* the users with a platform role
  Filter,        \* the filters of the leads page; NULL is none
  Entity,        \* what notifications tell of
  Home, Kind,    \* its dealership; "lead", "appointment", "message" or "import"
  Time,          \* bounds the moments, in milliseconds
  Before,        \* what may exist when the tab is opened
  Visitors,      \* who may be logged in by then
  MaxNotes,      \* a hundred
  MaxActs        \* bounds what the user does and what happens at the dealership

ASSUME WebAssumption ==
  /\ NULL \notin User \cup Dealership
  /\ Memberships \in [User -> Seq(Dealership)]
  /\ Role \in [User -> [Dealership -> {"ADMIN", "MANAGER", "SALES", "BDC"}]]
  /\ Platform \subseteq User
  /\ Home \in [Entity -> Dealership]
  /\ Kind \in [Entity -> {"lead", "appointment", "message", "import"}]
  /\ Time \subseteq Nat
  /\ \A rows \in Before : /\ rows \subseteq [id : Entity, at : Time] /\ IsFiniteSet(rows)
                          /\ \A r, s \in rows : r.id = s.id => r = s
  /\ Visitors \subseteq User
  /\ MaxNotes \in Nat \ {0}

VARIABLES
  tab,       \* all that the tab keeps, in memory and in localStorage
  present,   \* what exists at the server, and since when
  acts,
  mixed,     \* history: a session met an answer or a list of another user's
  lateBell,  \* history: the bell was set for a dealership that was left
  strayed,   \* history: imports that ended after the dealership was switched
  read       \* history: the notes of each dealership that were read

vars == <<tab, present, acts, mixed, lateBell, strayed, read>>

Path == {"login", "accept-invite", "dashboard", "leads", "integrations"}

-----------------------------------------------------------------------------
(* The server, as far as the tab can tell *)

Mine(u) == ToSet(Memberships[u])

\* TenantGuard: members and platform staff.
May(u, d) == u # NULL /\ (d \in Mine(u) \/ u \in Platform)

\* The rows of a kind: created, or if appointments last updated, at what time.
Listed(kind, d) == {r \in present : Kind[r.id] = kind /\ Home[r.id] = d}

First(u) == IF Memberships[u] = <<>> THEN NULL ELSE Head(Memberships[u])

\* canAccess, with the dealerships and roles that fetchMe told last.
CanAccess(path, u, d) ==
  CASE path = "leads" -> u # NULL /\ d # NULL /\ d \in Mine(u)
    [] path = "integrations" ->
         /\ u # NULL
         /\ u \in Platform \/ (d # NULL /\ d \in Mine(u) /\ Role[u][d] = "ADMIN")
    [] OTHER -> TRUE

-----------------------------------------------------------------------------
(* What the tab keeps.  shown is what the page displays, by who asked for it, *)
(* for which dealership and with which filter, which need not be the page's   *)
(* own: an older request may be answered last. loads are those under way.     *)

NoPage == [on |-> FALSE, filter |-> NULL, sel |-> NULL, loads |-> <<>>, shown |-> NULL]

\* A document that has just been loaded, before its first effects.
Blank(t) == [t EXCEPT !.path = NULL, !.selected = NULL, !.me = NULL, !.bell = {},
                      !.page = NoPage, !.calls = EmptyBag]

Send(t, c) == [t EXCEPT !.calls = t.calls (+) SetToBag({c})]

Done(t, c) == [t EXCEPT !.calls = t.calls (-) SetToBag({c})]

Call(kind, user, d, of) == [kind |-> kind, user |-> user, d |-> d, of |-> of]

\* apiRequest: without a dealership nothing is sent, and the page shows an error.
Load(t) ==
  IF t.active = NULL THEN [t EXCEPT !.page.shown = NULL]
  ELSE [t EXCEPT !.page.loads = Append(t.page.loads,
          [user |-> t.token, of |-> t.active, filter |-> t.page.filter])]

\* A page that is gone does not hear its answers, but its code goes on: the
\* dashboard still selects a dealership, an import still gives notice.
Retired(c) == CASE c.kind = "dashboard" -> [c EXCEPT !.kind = "gone"]
                [] c.kind = "import" -> [c EXCEPT !.kind = "adrift"]
                [] OTHER -> c

Leave(t) == [t EXCEPT !.page = NoPage, !.calls = BagOfAll(Retired, t.calls)]

Mount(t) ==
  LET u == [t EXCEPT !.page = [NoPage EXCEPT !.on = TRUE]] IN
  CASE t.path = "dashboard" -> Send(u, Call("dashboard", t.token, NULL, NULL))
    [] t.path \in {"leads", "integrations"} -> Load(u)
    [] OTHER -> u

\* A slip: main has no key, so that a page survives a switch.
KeyOfPath(t) == [path |-> t.path, selected |-> NULL,
                 allowed |-> t.path \notin {NULL, "login"} /\ CanAccess(t.path, t.me, t.selected)]

\* The key of main, and whether the page may be seen in it.
Key(t) == [path |-> t.path, selected |-> t.selected,
           allowed |-> t.path \notin {NULL, "login"} /\ CanAccess(t.path, t.me, t.selected)]

\* What React does after a handler has taken the tab from old to t.
Render(old, t) ==
  LET left == IF Key(t) = Key(old) THEN t ELSE Leave(t)
      page == IF Key(t) # Key(old) /\ Key(t).allowed THEN Mount(left) ELSE left
      me == IF t.path # old.path /\ t.path # "login"
            THEN Send(page, Call("me", t.token, NULL, NULL)) ELSE page
  IN IF t.selected # old.selected /\ t.selected # NULL
     THEN Send([me EXCEPT !.bell = t.notes[t.selected]],
               Call("bell", t.token, t.selected, t.active))
     ELSE me

-----------------------------------------------------------------------------
(* dealership-store.ts and clearAuth *)

\* A slip: every change of the dealership asks who one is.
EmitAsks(t) ==
  LET u == [t EXCEPT !.selected = t.active]
      v == IF t.page.on /\ t.path = "leads" THEN Load(u) ELSE u
  IN Send(v, Call("me", t.token, NULL, NULL))

\* The listeners are the shell and the leads page.
Emit(t) ==
  LET u == [t EXCEPT !.selected = t.active]
  IN IF t.page.on /\ t.path = "leads" THEN Load(u) ELSE u

SetActive(t, d) == Emit([t EXCEPT !.active = d])

\* A slip: the tokens go, the dealership stays.
ClearTokens(t) == [t EXCEPT !.token = NULL]

ClearAuth(t) == Emit([t EXCEPT !.token = NULL, !.active = NULL])

\* getSelectedDealershipId() ?? me.dealerships[0], kept if it is one.
Choose(t, u) ==
  LET d == IF t.active # NULL THEN t.active ELSE First(u)
  IN IF d = NULL THEN [t EXCEPT !.selected = NULL] ELSE SetActive(t, d)

-----------------------------------------------------------------------------
(* notifications.ts *)

\* What is told and not in the list.
New(notes, told) ==
  {[id |-> r.id, at |-> r.at, read |-> FALSE] :
      r \in {s \in told : \A n \in notes : n.id # s.id}}

\* Sorted by time and cut. Of the same millisecond, what has been put in front
\* stays before what was there; which of the others go is left open.
Cuts(notes, new) ==
  LET all == notes \cup new IN
  IF Cardinality(all) <= MaxNotes THEN {all}
  ELSE {kept \in kSubset(MaxNotes, all) :
          \A n \in kept, m \in all \ kept :
            m.at < n.at \/ (m.at = n.at /\ ~(m \in new /\ n \in notes))}

\* A slip: what is told again is new again.
Renew(notes, told) ==
  Cuts({n \in notes : \A r \in told : n.id # r.id}, New({}, told))

Upsert(notes, told) == Cuts(notes, New(notes, told))

\* emitUpdate, to which the shell listens while a dealership is selected.
Announce(t) == IF t.selected = NULL THEN t ELSE [t EXCEPT !.bell = t.notes[t.selected]]

\* A slip: nobody is told.
IngestQuietly(t, d, told) ==
  {[t EXCEPT !.notes[d] = kept] : kept \in Upsert(t.notes[d], told)}

Ingest(t, d, told) ==
  {Announce([t EXCEPT !.notes[d] = kept]) : kept \in Upsert(t.notes[d], told)}

-----------------------------------------------------------------------------
\* A first visit, or a document that is loaded with what was left by an earlier
\* visit: the tokens of a user and his first dealership.
Opened(u, d, p) ==
  LET t == [token |-> u, active |-> d, path |-> NULL, selected |-> NULL, me |-> NULL,
            bell |-> {}, page |-> NoPage, notes |-> [e \in Dealership |-> {}],
            calls |-> EmptyBag]
  IN Render(t, [t EXCEPT !.path = p])

Init ==
  /\ \/ tab = Opened(NULL, NULL, "login") /\ acts = 0
     \/ \E u \in Visitors, p \in Path : tab = Opened(u, First(u), p) /\ acts = 1
  /\ present \in Before
  /\ mixed = FALSE /\ lateBell = FALSE /\ strayed = {}
  /\ read = [d \in Dealership |-> {}]

\* The bell is right again when it is set for the dealership that is selected.
Step(t) ==
  /\ tab' = Render(tab, t)
  /\ lateBell' = (lateBell /\ tab'.selected = tab.selected)

\* An announcement sets it right too.
Announced(t) == tab' = Render(tab, t) /\ lateBell' = FALSE

Act == acts < MaxActs /\ acts' = acts + 1

NoHistory == UNCHANGED <<mixed, strayed, read>>

\* The server's clock, which is not the browser's.
Past(at) == \A r \in present : Kind[r.id] # "import" => r.at <= at

\* Something is new at a dealership.
Arrive ==
  /\ Act
  /\ \E e \in Entity, at \in Time :
       /\ Kind[e] # "import" /\ Past(at) /\ \A r \in present : r.id # e
       /\ present' = present \cup {[id |-> e, at |-> at]}
  /\ UNCHANGED <<tab, mixed, lateBell, strayed, read>>

\* An appointment is updated, and its updatedAt is now.
Reschedule ==
  /\ Act
  /\ \E r \in present, at \in Time :
       /\ Kind[r.id] = "appointment" /\ Past(at)
       /\ present' = (present \ {r}) \cup {[r EXCEPT !.at = at]}
  /\ UNCHANGED <<tab, mixed, lateBell, strayed, read>>

\* LoginPage, onSubmit.
SubmitLogin ==
  /\ Act /\ tab.path = "login"
  /\ \E u \in User : Step(Send(tab, Call("login", u, NULL, NULL)))
  /\ NoHistory /\ UNCHANGED present

\* AcceptInvitePage, onSubmit.
SubmitInvitation ==
  /\ Act /\ tab.path = "accept-invite" /\ tab.page.on
  /\ \E u \in User : Step(Send(tab, Call("accept", u, NULL, NULL)))
  /\ NoHistory /\ UNCHANGED present

\* Logout in the menu of the account.
Logout ==
  /\ Act /\ tab.path # "login"
  /\ Step([ClearAuth(tab) EXCEPT !.path = "login"])
  /\ NoHistory /\ UNCHANGED present

\* The select of the shell, and that of the dashboard.
Switch ==
  /\ Act /\ tab.path # "login"
  /\ \E d \in {NULL} \cup (IF tab.me = NULL THEN {} ELSE Mine(tab.me)) :
       d # tab.selected /\ Step(SetActive(tab, d))
  /\ mixed' = (mixed \/ tab.me # tab.token)
  /\ UNCHANGED <<present, strayed, read>>

\* A link or a command.
Go ==
  /\ Act /\ tab.path # "login"
  /\ \E p \in {"dashboard", "leads", "integrations"} :
       /\ p # tab.path /\ CanAccess(p, tab.me, tab.selected)
       /\ Step([tab EXCEPT !.path = p])
  /\ NoHistory /\ UNCHANGED present

\* An address, or the same again: the document is loaded, and only localStorage
\* is left.
Visit ==
  /\ Act
  /\ \E p \in Path : tab' = Render(Blank(tab), [Blank(tab) EXCEPT !.path = p])
  /\ lateBell' = FALSE
  /\ NoHistory /\ UNCHANGED present

\* LeadsPage, where loadLeads depends on the filters.
Filtered(t, f) == Load([t EXCEPT !.page.filter = f])

ChangeFilter ==
  /\ Act /\ tab.path = "leads" /\ tab.page.on
  /\ \E f \in Filter \cup {NULL} : f # tab.page.filter /\ Step(Filtered(tab, f))
  /\ NoHistory /\ UNCHANGED present

\* SettingsIntegrationsPage, onImportCsv.
SubmitImport ==
  /\ Act /\ tab.path = "integrations" /\ tab.page.on /\ tab.active # NULL
  /\ Step(Send(tab, Call("import", tab.token, NULL, tab.active)))
  /\ NoHistory /\ UNCHANGED present

\* The notes as they were told.
Rows(notes) == {[id |-> n.id, at |-> n.at] : n \in notes}

Marked(notes, ids) == {[n EXCEPT !.read = @ \/ n.id \in ids] : n \in notes}

\* markAllNotificationsRead, or markNotificationRead and a visit to the leads.
MarkRead ==
  /\ Act /\ tab.path # "login" /\ tab.selected # NULL /\ tab.bell # {}
  /\ \E i \in {n.id : n \in tab.bell}, all \in BOOLEAN :
       LET d == tab.selected
           ids == IF all THEN {n.id : n \in tab.notes[d]} ELSE {i}
           t == Announce([tab EXCEPT !.notes[d] = Marked(tab.notes[d], ids)])
       IN /\ Announced(IF all THEN t ELSE [t EXCEPT !.path = "leads"])
          /\ read' = [read EXCEPT ![d] = @ \cup Rows({n \in tab.notes[d] : n.id \in ids})]
  /\ UNCHANGED <<present, mixed, strayed>>

-----------------------------------------------------------------------------
(* Answers.  Any of them may be a failure. *)

Answered(kind) == {c \in BagToSet(tab.calls) : c.kind = kind}

\* AppShell: who one is, or back to the login.
MeAnswered ==
  \E c \in Answered("me"), ok \in BOOLEAN :
    LET t == Done(tab, c) IN
    /\ ok => c.user # NULL
    /\ Step(IF ok THEN Choose([t EXCEPT !.me = c.user], c.user)
            ELSE [ClearAuth(t) EXCEPT !.path = "login"])
    /\ mixed' = (mixed \/ c.user # tab.token)
    /\ UNCHANGED <<present, acts, strayed, read>>

\* DashboardPage: its own dealership, and then its leads; the page may be gone.
DashboardAnswered ==
  \E c \in Answered("dashboard") \cup Answered("gone"), ok \in BOOLEAN :
    LET t == Choose(Done(tab, c), c.user)
        loaded == IF t.active # NULL /\ t.page.sel # t.active
                  THEN Load([t EXCEPT !.page.sel = t.active]) ELSE t
    IN
    /\ ok => c.user # NULL
    /\ Step(IF ~ok THEN Done(tab, c) ELSE IF c.kind = "gone" THEN t ELSE loaded)
    /\ mixed' = (mixed \/ (ok /\ c.user # tab.token))
    /\ UNCHANGED <<present, acts, strayed, read>>

\* login: the tokens, and then the first dealership.
LoginAnswered ==
  \E c \in Answered("login"), ok \in BOOLEAN :
    LET t == [Done(tab, c) EXCEPT !.token = c.user] IN
    /\ Step(IF ok THEN Send(t, Call("first", c.user, NULL, NULL)) ELSE Done(tab, c))
    /\ mixed' = (mixed \/ (ok /\ tab.token \notin {NULL, c.user}))
    /\ UNCHANGED <<present, acts, strayed, read>>

FirstAnswered ==
  \E c \in Answered("first"), ok \in BOOLEAN :
    LET t == Done(tab, c) IN
    /\ Step(IF ok THEN [Choose(t, c.user) EXCEPT !.path = "dashboard"] ELSE t)
    /\ mixed' = (mixed \/ (ok /\ c.user # tab.token))
    /\ UNCHANGED <<present, acts, strayed, read>>

\* acceptInvitation: the tokens, and the dashboard.
InvitationAnswered ==
  \E c \in Answered("accept"), ok \in BOOLEAN :
    LET t == Done(tab, c) IN
    /\ Step(IF ok THEN [t EXCEPT !.token = c.user, !.path = "dashboard"] ELSE t)
    /\ mixed' = (mixed \/ (ok /\ tab.token \notin {NULL, c.user}))
    /\ UNCHANGED <<present, acts, strayed, read>>

\* The bell of the dealership that was selected when it was asked for.
Rung(t, d) ==
  /\ tab' = Render(tab, [t EXCEPT !.bell = t.notes[d]])
  /\ lateBell' = (d # tab.selected)

\* A slip: what was asked for is filed under what is selected now.
FiledNow(c) == IF tab.selected = NULL THEN c.d ELSE tab.selected

\* The dealership of the effect's closure.
Filed(c) == c.d

\* Of the last 24 hours.
Recent(rows, since) == {r \in rows : r.at >= since}

\* AppShell: leads and appointments, and then the messages of the leads, which
\* are asked for under the dealership that is selected by then.
BellAnswered ==
  \E c \in Answered("bell"), ok \in BOOLEAN :
    LET t == Done(tab, c)
        ask == Call("messages", tab.token, c.d, tab.active)
    IN
    /\ ok => May(c.user, c.of)
    /\ IF ok THEN \E since \in Time :
         \E u \in Ingest(t, Filed(c), Recent(Listed("lead", c.of), since)) :
           \E v \in Ingest(u, Filed(c), Recent(Listed("appointment", c.of), since)) :
             Announced(Send(v, ask))
       ELSE Rung(t, c.d)
    /\ NoHistory /\ UNCHANGED <<present, acts>>

\* The messages of each lead are asked for on their own, and a failure is none.
MessagesAnswered ==
  \E c \in Answered("messages") :
    LET sent == IF c.of = c.d /\ May(c.user, c.of) THEN Listed("message", c.d) ELSE {} IN
    /\ \E told \in SUBSET sent :
         \E t \in Ingest(Done(tab, c), Filed(c), told) : Rung(t, c.d)
    /\ NoHistory /\ UNCHANGED <<present, acts>>

\* onImportCsv, after the import: its notice, by the browser's clock, goes to
\* what is selected by then, and the page loads again if it is still there.
ImportAnswered ==
  \E c \in Answered("import") \cup Answered("adrift"), ok \in BOOLEAN :
    LET t == Done(tab, c)
        Reloaded(u) == IF c.kind = "import" THEN Load(u) ELSE u
    IN
    IF ok THEN
      \E e \in Entity, at \in Time :
        /\ Kind[e] = "import" /\ Home[e] = c.of /\ \A r \in present : r.id # e
        /\ May(c.user, c.of)
        /\ present' = present \cup {[id |-> e, at |-> at]}
        /\ IF tab.active = NULL THEN Step(Reloaded(t))
           ELSE \E u \in Ingest(t, tab.active, {[id |-> e, at |-> at]}) : Announced(Reloaded(u))
        /\ strayed' = IF tab.active = c.of THEN strayed ELSE strayed \cup {e}
        /\ UNCHANGED <<acts, mixed, read>>
    ELSE Step(t) /\ NoHistory /\ UNCHANGED <<present, acts>>

\* loadLeads and its like, after the answer.
PageAnswered ==
  \E i \in DOMAIN tab.page.loads, ok \in BOOLEAN :
    LET load == tab.page.loads[i] IN
    /\ ok => May(load.user, load.of)
    /\ Step([tab EXCEPT !.page = [tab.page EXCEPT
         !.loads = RemoveAt(tab.page.loads, i),
         !.shown = IF ok THEN [user |-> load.user, of |-> load.of, filter |-> load.filter]
                   ELSE NULL]])
    /\ NoHistory /\ UNCHANGED <<present, acts>>

Answer ==
  \/ MeAnswered \/ DashboardAnswered \/ LoginAnswered \/ FirstAnswered \/ InvitationAnswered
  \/ BellAnswered \/ MessagesAnswered \/ ImportAnswered \/ PageAnswered

Next ==
  \/ Arrive \/ Reschedule \/ SubmitLogin \/ SubmitInvitation \/ Logout \/ Switch \/ Go \/ Visit
  \/ ChangeFilter \/ SubmitImport \/ MarkRead \/ Answer

Spec == Init /\ [][Next]_vars

\* A promise is settled sooner or later, and its continuation runs.
FairSpec == Spec /\ WF_vars(Answer)

-----------------------------------------------------------------------------
\* app-shell.tsx:265 and dealership-store.ts: whatever comes late, a page shows
\* what was asked for the dealership in the select (which is empty until fetchMe
\* is answered) and, unless sessions have met, for the user who is logged in.
ShownIsSelected ==
  tab.page.shown # NULL =>
    /\ tab.selected \in {NULL, tab.page.shown.of}
    /\ mixed \/ tab.page.shown.user = tab.token

\* clearAuth and setSelectedDealershipId: nobody works in a dealership of which
\* another user has left the name, unless an answer for that user comes late or
\* one logs in over him.
SelectedIsMineUnlessMixed ==
  ~mixed /\ tab.token # NULL /\ tab.active # NULL => tab.active \in Mine(tab.token)

\* ingest...Notifications: what is kept for a dealership is its own, though the
\* answers come after a switch; only the notice of an import goes astray.
NotesAreOwn ==
  \A d \in Dealership : \A n \in tab.notes[d] : Home[n.id] = d \/ n.id \in strayed

\* emitUpdate and the effect of the shell: the bell shows what is kept for the
\* dealership that is selected, unless the last to set it was an answer for a
\* dealership that was left.
BellIsSelected ==
  tab.selected # NULL /\ ~lateBell => tab.bell = tab.notes[tab.selected]

\* upsertNotifications: what was read comes back as new only when the list is
\* full, and either with a later date than it was read with (an appointment is
\* told by its updatedAt) or with the oldest date in the list: it was cut off,
\* and told again.
ReadUnlessRedated ==
  \A d \in Dealership : \A n \in tab.notes[d], r \in read[d] :
    n.id = r.id /\ ~n.read =>
      /\ Cardinality(tab.notes[d]) = MaxNotes
      /\ r.at < n.at \/ \A m \in tab.notes[d] : n.at <= m.at

\* The effects of the shell and of the pages: answers do not ask for more for
\* ever; once the user rests, the tab comes to rest.
ComesToRest == <>[](tab.calls = EmptyBag /\ tab.page.loads = <<>>)
=============================================================================
