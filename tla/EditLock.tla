------------------------------- MODULE EditLock -------------------------------
(***************************************************************************)
(* The single-writer edit lock of one project: the edit_lock row, the      *)
(* three lock endpoints (backend/app/routes/edit_lock.py), the guard every *)
(* board-writing endpoint takes (require_edit_lock in                      *)
(* backend/app/middleware/deps.py) and its clients: browser tabs           *)
(* (useEditLock.ts, EditLockButton.tsx), MCP tools (mcp_server/lock.py)    *)
(* and scripts that write without ever acquiring.                          *)
(*                                                                         *)
(* A handler reads the row, decides, and commits later.  The server is one *)
(* asyncio process, and its SQLite reads take no lock and hold no          *)
(* snapshot, so any other request may run between a read and its commit.   *)
(* Each request is therefore sent, decided (row read) and committed in     *)
(* separate steps, and its answer reaches the client in a fourth.          *)
(*                                                                         *)
(* Time is what is left of the lease: ttl = max(0, expires_at - now),      *)
(* counted down by Tick.  The commit itself takes less than a tick.        *)
(***************************************************************************)
EXTENDS Integers, FiniteSets

CONSTANTS
  Users,        \* usernames
  NoUser,       \* no edit_lock row
  WebClients,   \* browser tabs
  McpClients,   \* MCP tool calls wrapped in edit_lock()
  ApiClients,   \* scripts that write without acquiring
  UserOf,       \* the account each client acts for
  Timeout,      \* edit_lock_timeout_minutes, in ticks
  MaxInFlight   \* bound: requests under way at once, for all clients together

Clients == WebClients \cup McpClients \cup ApiClients

ASSUME ClientsAssumption ==
  /\ NoUser \notin Users
  /\ UserOf \in [Clients -> Users]
  /\ WebClients \cap McpClients = {}
  /\ WebClients \cap ApiClients = {}
  /\ McpClients \cap ApiClients = {}

ASSUME TimeoutAssumption == Timeout \in Nat \ {0}

Ops == {"acquire", "release", "keepalive", "write"}

\* A client has at most one request of each kind under way: the buttons are
\* disabled while their mutation is pending, and the heartbeat's interval is
\* far longer than a call.
Requests == [client : Clients, op : Ops]

Phases == {"idle", "sent", "decided", "answered"}

VARIABLES
  holder,     \* edit_lock.locked_by_username, NoUser while there is no row
  ttl,        \* what is left until edit_lock.expires_at
  role,       \* users.role, as far as the lock cares
  page,       \* the client: running and logged in, logged out, or gone
  editing,    \* isEditing of a tab; the acquired flag of an MCP tool
  at,         \* progress of each request
  saw,        \* the holder each decided request read
  overtaken   \* history: decided requests whose row changed under them

rowVars == <<holder, ttl>>
clientVars == <<role, page, editing>>
requestVars == <<at, saw, overtaken>>
lockVars == <<holder, ttl, role, page, editing, at, saw, overtaken>>

User(r) == UserOf[r.client]
Slot(c, op) == [client |-> c, op |-> op]

\* _lock_response: a row past its expiry, or none, is an unlocked project.
IsLocked == ttl > 0
HeldBy(u) == IsLocked /\ holder = u
HeldByOther(u) == IsLocked /\ holder # u

LockTypeOK ==
  /\ holder \in Users \cup {NoUser}
  /\ ttl \in 0 .. Timeout
  /\ role \in [Users -> {"editor", "reader"}]
  /\ page \in [Clients -> {"in", "out", "closed"}]
  /\ editing \in [Clients -> BOOLEAN]
  /\ at \in [Requests -> Phases]
  /\ saw \in [Requests -> Users \cup {NoUser}]
  /\ overtaken \subseteq Requests

LockInit ==
  /\ holder = NoUser
  /\ ttl = 0
  /\ role = [u \in Users |-> "editor"]
  /\ page = [c \in Clients |-> "in"]
  /\ editing = [c \in Clients |-> FALSE]
  /\ at = [r \in Requests |-> "idle"]
  /\ saw = [r \in Requests |-> NoUser]
  /\ overtaken = {}

-----------------------------------------------------------------------------
(* Clients *)

NothingInFlight(c) == \A op \in Ops : at[Slot(c, op)] = "idle"

\* EditLockButton: Request Edit Mode is offered to a non-reader that is not
\* editing; Release, the heartbeat and the board's controls exist while it is.
TabMaySend(r) ==
  /\ r.client \in WebClients
  /\ IF r.op = "acquire"
     THEN ~editing[r.client] /\ role[User(r)] # "reader"
     ELSE editing[r.client]

\* edit_lock(): acquire, then the tool's body, then release in the finally
\* block when the acquire succeeded; strictly one call at a time.
ToolMaySend(r) ==
  /\ r.client \in McpClients
  /\ NothingInFlight(r.client)
  /\ r.op \in (IF editing[r.client] THEN {"write", "release"} ELSE {"acquire"})

ScriptMaySend(r) == r.client \in ApiClients /\ r.op = "write"

\* Mutant: the heartbeat's interval is not cleared when the page goes.
SendFromAnyPage(r) ==
  /\ at[r] = "idle"
  /\ Cardinality({q \in Requests : at[q] # "idle"}) < MaxInFlight
  /\ TabMaySend(r) \/ ToolMaySend(r) \/ ScriptMaySend(r)
  /\ at' = [at EXCEPT ![r] = "sent"]
  /\ UNCHANGED <<rowVars, clientVars, saw, overtaken>>

Send(r) ==
  /\ at[r] = "idle"
  /\ page[r.client] = "in"
  /\ Cardinality({q \in Requests : at[q] # "idle"}) < MaxInFlight
  /\ TabMaySend(r) \/ ToolMaySend(r) \/ ScriptMaySend(r)
  /\ at' = [at EXCEPT ![r] = "sent"]
  /\ UNCHANGED <<rowVars, clientVars, saw, overtaken>>

\* onSuccess of useAcquireEditLock and useReleaseEditLock; the flag of the
\* context manager.  A page that is gone hears nothing.
Respond(r) ==
  /\ at[r] = "answered"
  /\ at' = [at EXCEPT ![r] = "idle"]
  /\ editing' = [editing EXCEPT ![r.client] =
                   page[r.client] # "closed" /\ r.op = "acquire"]
  /\ UNCHANGED <<rowVars, role, page, saw, overtaken>>

\* A call, or its answer, is lost.  A tab stays as it is; an MCP tool swallows
\* a failed release and ends.
Lose(r) ==
  /\ at[r] \in {"sent", "answered"}
  /\ at' = [at EXCEPT ![r] = "idle"]
  /\ editing' = IF r.op = "release" /\ r.client \in McpClients
                THEN [editing EXCEPT ![r.client] = FALSE]
                ELSE editing
  /\ UNCHANGED <<rowVars, role, page, saw, overtaken>>

\* Logging out ends the session and clears the user; nothing releases the lock
\* or resets isEditing.
Logout(c) ==
  /\ c \in WebClients
  /\ page[c] = "in"
  /\ page' = [page EXCEPT ![c] = "out"]
  /\ UNCHANGED <<rowVars, role, editing, requestVars>>

Login(c) ==
  /\ page[c] = "out"
  /\ page' = [page EXCEPT ![c] = "in"]
  /\ UNCHANGED <<rowVars, role, editing, requestVars>>

\* The tab is closed or reloaded, the MCP server dies in the middle of a tool.
Close(c) ==
  /\ page[c] # "closed"
  /\ page' = [page EXCEPT ![c] = "closed"]
  /\ editing' = [editing EXCEPT ![c] = FALSE]
  /\ UNCHANGED <<rowVars, role, requestVars>>

Open(c) ==
  /\ page[c] = "closed"
  /\ NothingInFlight(c)
  /\ page' = [page EXCEPT ![c] = "in"]
  /\ UNCHANGED <<rowVars, role, editing, requestVars>>

\* An admin changes the role of an account (routes/users.py update_user).
ChangeRole(u) ==
  /\ role' = [role EXCEPT ![u] = IF @ = "editor" THEN "reader" ELSE "editor"]
  /\ UNCHANGED <<rowVars, page, editing, requestVars>>

-----------------------------------------------------------------------------
(* The server: a request is authorised, reads the row and decides *)

HasSession(c) == page[c] # "out"

\* The request moves on; what it had read is forgotten unless it now decides.
MoveTo(r, phase) ==
  /\ at' = [at EXCEPT ![r] = phase]
  /\ saw' = [saw EXCEPT ![r] = IF phase = "decided" THEN holder ELSE NoUser]

Leave(r, phase) == MoveTo(r, phase) /\ overtaken' = overtaken \ {r}

\* require_editor_or_above, then 409 while another user's lock is unexpired:
\* acquire_edit_lock and require_edit_lock test the same thing.
MayTake(r) ==
  /\ HasSession(r.client)
  /\ role[User(r)] # "reader"
  /\ ~HeldByOther(User(r))

ReadForAcquire(r) ==
  /\ r.op = "acquire"
  /\ Leave(r, IF MayTake(r) THEN "decided" ELSE "idle")

ReadForWrite(r) ==
  /\ r.op = "write"
  /\ Leave(r, IF MayTake(r) THEN "decided" ELSE "idle")

\* Mutant: any logged-in user's release ends the lock.
ReadForReleaseByAnyone(r) ==
  /\ r.op = "release"
  /\ Leave(r, IF HasSession(r.client) THEN "decided" ELSE "idle")

\* release_edit_lock: 204 without a write unless the row names the caller.
ReadForRelease(r) ==
  /\ r.op = "release"
  /\ Leave(r, IF ~HasSession(r.client) THEN "idle"
              ELSE IF holder = User(r) THEN "decided" ELSE "answered")

\* keepalive_edit_lock: only the name is compared, never the expiry.
ReadForKeepalive(r) ==
  /\ r.op = "keepalive"
  /\ Leave(r, IF HasSession(r.client) /\ holder = User(r)
              THEN "decided" ELSE "idle")

Read(r) ==
  /\ at[r] = "sent"
  /\ \/ ReadForAcquire(r)
     \/ ReadForWrite(r)
     \/ ReadForRelease(r)
     \/ ReadForKeepalive(r)
  /\ UNCHANGED <<rowVars, clientVars>>

-----------------------------------------------------------------------------
(* The server: the handler's commit *)

\* The request commits a changed row and moves on: every other request that
\* has read the row has now read an old one.
Save(r, phase) ==
  /\ MoveTo(r, phase)
  /\ overtaken' = (overtaken \cup {q \in Requests : at[q] = "decided"}) \ {r}

\* INSERT when no row was read (the unique project_id makes the loser fail);
\* otherwise UPDATE of the attributes that differ from what was read, so the
\* name is written only when another name was read.
CommitAcquire(r) ==
  /\ r.op = "acquire"
  /\ IF saw[r] = NoUser /\ holder # NoUser
     THEN Leave(r, "idle") /\ UNCHANGED rowVars
     ELSE /\ holder' = IF saw[r] = User(r) THEN holder ELSE User(r)
          /\ ttl' = Timeout
          /\ Save(r, "answered")

\* Mutant: the release takes the name out and leaves the expiry.
CommitReleaseOfName(r) ==
  /\ r.op = "release"
  /\ holder' = NoUser
  /\ Save(r, "answered")
  /\ UNCHANGED ttl

CommitRelease(r) ==
  /\ r.op = "release"
  /\ ttl' = 0
  /\ Save(r, "answered")
  /\ UNCHANGED holder

CommitKeepalive(r) ==
  /\ r.op = "keepalive"
  /\ ttl' = Timeout
  /\ Save(r, "idle")
  /\ UNCHANGED holder

\* Any handler behind require_edit_lock; what it writes is the board's matter.
CommitWrite(r) ==
  /\ r.op = "write"
  /\ Leave(r, "idle")
  /\ UNCHANGED rowVars

Commit(r) ==
  /\ at[r] = "decided"
  /\ \/ CommitAcquire(r)
     \/ CommitRelease(r)
     \/ CommitKeepalive(r)
     \/ CommitWrite(r)
  /\ UNCHANGED clientVars

\* The clock.
Tick ==
  /\ IsLocked
  /\ ttl' = ttl - 1
  /\ UNCHANGED <<holder, clientVars, requestVars>>

-----------------------------------------------------------------------------
LockNext ==
  \/ \E r \in Requests : Send(r) \/ Read(r) \/ Commit(r) \/ Respond(r) \/ Lose(r)
  \/ \E c \in Clients : Logout(c) \/ Login(c) \/ Close(c) \/ Open(c)
  \/ \E u \in Users : ChangeRole(u)
  \/ Tick

LockSpec == LockInit /\ [][LockNext]_lockVars

\* The event loop runs every request it has accepted to its end, and time
\* passes; nothing obliges a person to click or a network to deliver.
Fairness ==
  /\ WF_lockVars(Tick)
  /\ \A r \in Requests : WF_lockVars(Read(r)) /\ WF_lockVars(Commit(r))
                         /\ WF_lockVars(Respond(r))

FairSpec == LockSpec /\ Fairness

-----------------------------------------------------------------------------
(* What holds *)

Commits(r) == at[r] = "decided" /\ at'[r] # "decided"

\* A commit against another user's unexpired lock, or one that leaves another
\* user's lock unexpired by what it wrote.
Interferes(r) ==
  /\ Commits(r)
  /\ \/ HeldByOther(User(r)) /\ (r.op = "write" \/ rowVars' # rowVars)
     \/ HeldByOther(User(r))' /\ rowVars' # rowVars

\* A request takes, cuts short or extends another user's lock, or writes to the
\* board under it, only when someone else's commit to the row came between its
\* read and its own commit.  That window is the only hole in the checks of the
\* lock endpoints and of require_edit_lock.
OnlyOvertakenRequestsInterfere ==
  [][\A r \in Requests : Interferes(r) => r \in overtaken]_lockVars

\* What a decided request read is still so unless it was overtaken: the row
\* names whom it read; an acquire or a write faces no other user's lock, a
\* release or a keepalive finds its own name.
FreshReadsHold ==
  \A r \in Requests :
    at[r] = "decided" /\ r \notin overtaken =>
      /\ saw[r] = holder
      /\ r.op \in {"acquire", "write"} => ~HeldByOther(User(r))
      /\ r.op \in {"release", "keepalive"} => holder = User(r)

\* A lock row whose lease runs names someone.
LockedRowNamesHolder == IsLocked => holder \in Users

Abandoned(u) == \A c \in Clients : UserOf[c] = u => page[c] # "in"

\* However a holder disappears (tab closed, logged out, MCP server killed in
\* the middle of a tool, release lost), requests it left in flight included,
\* the project does not stay locked by it.
AbandonedLockIsFreed ==
  \A u \in Users : <>[]Abandoned(u) => <>[]~HeldBy(u)

=============================================================================
