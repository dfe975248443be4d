# A verification of SocketUp

SocketUp is the back end of a messenger. This directory holds TLA+ modules of the
parts of it whose correctness depends on the order in which things happen, the TLC
configurations that check them, and TLAPS proofs of what holds for any number of
users, sessions and handlers. The modules are translated from the
Python code under `src/app`; the README of the repository is only used for what it
says the program should do. Paths below are relative to `src/app`; `services/` is
`grpcServ/app/services/` and `ws/` is `websocketSide/`.

## 1. The system

    client --HTTP/GraphQL--> FastApiClient --gRPC--> grpcServ --> PostgreSQL
      |                                                |  |-----> Redis (sessions)
      |                                                |  |-----> LiveKit, MinIO
      |                                                v
      +--WebSocket--> websocketSide <--Redis pub/sub---+
                          |---------> Redis (presence, offline queues)

`grpcServ` is one asyncio process: handlers run concurrently and any of them may
run between two `await`s of another. A handler whose client goes away is cancelled
at its next `await`. PostgreSQL runs at READ COMMITTED, and no handler locks a row
before it writes it; SQLAlchemy's UPDATE sets the columns that changed and nothing
else. `websocketSide` is another asyncio process with one task per connection and one
task that listens to Redis.

| component | state | operations | modelled in |
|---|---|---|---|
| Login sessions (`services/auth.py`, `access_session.py`, `redis_client.py`) | Redis: a hash `session:<id>` with a time to live, a set of ids per user | Login, RefreshToken, Logout, LogoutCurrentSession, RevokeSession, LogoutAllOtherSessions, every authenticated call (touch) | `Sessions` |
| Chat membership (`services/chat.py`) | tables `chats`, `chat_members` | CreateChat, UpdateChat, DeleteChat, Add/Update/RemoveChatMember, JoinChat, LeaveChat, KickMember, BanMember, UnbanMember | `Membership`, `ChatMembers` |
| Calls (`services/call.py`) | tables `calls`, `call_participants`; LiveKit rooms; events published | StartCall, AcceptCall, RejectCall, EndCall, GetLiveKitToken | `Calls` |
| Realtime delivery (`ws/router.py`, `manager.py`, `redis_c.py`, `main.py`) | Redis: online set, offline queue per user; the process: table of sockets | connect, disconnect, handle an event, fail, restart | `Realtime` |
| Messages, statuses, reactions (`services/message.py`) | tables `messages`, `message_statuses`, `reactions`, `attachments` | SendMessage, UpdateMessage, DeleteMessage, MarkAsDelivered, MarkAsRead, AddReaction, RemoveReaction | `MessageBoard`, `Messages` |
| Attachments (`services/attachment.py`) | an object in MinIO, a row of `attachments` | UploadAttachment; bound or copied by SendMessage | in `Messages` |
| Contacts and blocks (`services/contact.py`) | two directed rows per pair of users | AddContact, AcceptContact, BlockContact, RemoveContact | `Contacts` |
| Private chat lookup (`services/chat.py:318-384`) | as membership | find the chat of a pair, or create it | partly: the reopening (`ReopenPrivate`) |
| Invite links (`services/chat.py:1052`, `redis_client.py:111`) | Redis: a token with a time to live | GenerateInviteLink, JoinChat by token | no: `JoinChat` is modelled for a chat the user may name |
| Users and privacy (`services/user.py`) | users, privacy rows | Create, Update, Delete, UpdatePrivacy | no: one INSERT or UPDATE each |
| Push tokens (`FastApiClient/api/endpoints/push.py`) | one row per token | register, unregister | no: one upsert, one delete |
| HTTP and GraphQL gateway (`FastApiClient`) | none | forwards calls | no: keeps no state; its session check is a read-only copy of `resolve_access_session` |
| Schema and migrations (`services/models.py`, `alembic`) | - | - | no: declarative. Keys and foreign keys are in the guards of commits that can violate them |

### How the parts interact

* Every authenticated handler first runs `resolve_access_session`, which reads the
  session and writes `last_seen_at` back (`Sessions!ResolveAccess`, `TouchSession`).
* Call handlers read `chat_members`; here the membership of a chat changes under
  them (`Calls!JoinChat`, `LeaveChat`). Message handlers read it too; there a read
  answers anything (`Messages!CheckRights`, the readers of `CommitSend`).
* Message handlers publish what they changed after their commit. What clients make
  of these events is part of `Messages` (`shown`): `MessageBoard!Show` is the abstract
  publication.
* UploadAttachment and SendMessage share the rows of `attachments`
  (`Messages!StoreObject`, `ReadFile`, `CommitSend`).
* Handlers publish events on one Redis channel. The WebSocket service drops an
  event whose payload has no `chat_id` (`Calls!NamesChat`, `Notify`), and sends the
  others to each active member or queues them (`Realtime`). A call handler publishes
  once per member there is by then (`call.py:98-105`), so each of n members gets n
  copies, which show him the same; with no member left nothing is published.
* The WebSocket service makes the same gRPC calls as any client; nothing of it is
  shared with `grpcServ` but the database, Redis and the channel.

### What is hard, and what makes each part correct

* *Sessions.* Each handler makes several Redis commands and nothing makes a pair of
  them atomic; the store of a refresh is unconditional and comes after an `await` on
  the database. Correct means: a session is stored only for the user its tokens
  were signed for, a handler deletes only sessions of its own user, a closed session
  and a replaced token do not come back, what is stored expires.
* *Membership.* A handler reads, awaits, then commits single columns. Correct means:
  roles, bans and other people's rows change only by the hands the code's checks
  allow, a deleted chat stays deleted, and a handler that no other call overtook is as
  good as an atomic one, however many are in flight.
* *Calls.* A handler spans two commits, HTTP calls to LiveKit and events. Correct
  means: an ended call stays ended, only members take part, a room is deleted only
  once the end of its call is on record, and of a call on which no two handlers were
  at odds, it is the only one open, has its room, and its members are shown its state.
* *Messages.* A handler commits and then publishes; handlers of one message cross, and
  any may be cut off between the two. Two handlers insert the same status row or
  reaction, or bind the same file. Correct means: what is stored about a message only
  advances, clients are never shown what was not stored, and when nothing crossed they
  are shown what is stored at the end; files that can be sent exist and stay where
  they were sent.
* *Contacts.* Two rows say one thing, and one handler writes both under row locks that
  another takes in the opposite order. Correct means: acceptance is mutual, a block
  is lifted by an accept or a remove only, and no one waits for ever.
* *Realtime.* Presence and queues in Redis, sockets in memory, and a listener that
  tests presence in one step and sends or queues in another. Correct means: an event
  arrives by one path and once per device, in order; none disappears but at the known places;
  a device that is set up can be reached; nothing but a client that does not read holds up
  the listener. What becomes of the connections that end is not right (section 3).

## 2. Modules

### Sessions

`hash[s]` is the Redis hash of session `s`, `index[u]` the per-user set, `issued[s]`
the number of access tokens signed for `s`, `given[s]` those that clients were sent,
`owner[s]` the user its tokens were signed for, `req[w]` the handler in
worker `w`: its kind, the step it is at (`pc`) and the values it has read. Every
Redis command is one action, in the order of the code:

| actions | code |
|---|---|
| `Login`, `RefreshToken`, `Logout`, `RefuseToken` | the handlers up to their first Redis write (one Redis read, the checks, the early returns) |
| `SetHash`, `SetExpire`, `SetIndex` | `set_session_tokens`: HSET, EXPIRE, SADD |
| `ResolveAccess`, `TouchSession`, `AfterTouch` | `resolve_access_session`, then the handler that asked for it |
| `RevokeCheck` | `RevokeSession`: HGETALL of the target and its owner check |
| `ReadIndex`, `DeleteNext`, `AfterDelete` | `delete_other_sessions`: SMEMBERS, then a walk over the ids read |
| `DeleteRead`, `DeleteHash`, `DeleteIndex` | `delete_session`: HGET, DEL, SREM |
| `TtlExpires`, `Cancel` | Redis and grpc.aio (not under `src/`) |

A session keeps its one refresh token for life, so holding it is holding any answer
of the session (`given[s]` not empty); access tokens are numbered per session in the
order they were signed. A signature check is the rule that callers only present
tokens they were given.

`SessionsCut` adds a history to it: `cut` holds the sessions whose handler was
cancelled between HSET and EXPIRE and that have no time to live since.

### Membership and ChatMembers

`Membership` is the abstract specification: one chat, each handler of `chat.py` one
atomic action. `chat` is its type and limit or "none", `rows[u]` the row of a user:
role, status and whether a ban date lies ahead (or none). Channels are checked by the
code exactly as groups, so `chat.type` is group or private. `DatePasses` is the clock.

`ChatMembers` is the detailed one: `req[w]` holds a handler between the `SELECT`s it
decided from and its `COMMIT`, with its caller (`by`) and its target. `Read...`/`OpenChat`
are the first half, `Commit...` the second. An update holds the columns it will set
(`Changes`, `Column`): a column that the handler assigned its old value is not set
(`Kept`), but a date that a call gives is set even where it lies on the same side of
now as the old one (`ReadAndDate`). The commit patches them into whatever row is there
by then (`Patched`). Insertions fail on a row or a missing chat, as the primary and
foreign keys make them. `Cancel` ends a handler between the two; a date passes in the
table (`Clock`) or while a handler is about to write it (`DateRunsOut`).

`ChatOverlap` adds a history of what nothing in the code guards against. `overtaken` are the
handlers in flight when another call changed the chat, `crossed` those of them
whose caller's or target's row it changed; `OverlapSpec` runs any number of handlers.
`Atomic` is `Membership`'s specification for every step but the commit of an overtaken
handler. `OwnersUntouched`, `OwnershipIsGiven`, `BansHold` and `OthersLeftAlone` say what a
commit of a given caller does not do unless the handler was crossed (`Does(a)`): such a
handler wrote what it once had the right to.

### Calls

Calls of one chat: `calls[c]` is the row (status, initiator, whether `ended_at` is
set, participants), `rooms` the LiveKit rooms, `used` the calls that ever had a
room, `shown[c][u]` the last event of the call that user `u` was shown, `member` and
`everMember` the chat's members, `req[w]` the handler in worker `w`. A handler is cut
at each commit and each HTTP call: `StartCall` (checks) / `CreateRoom` / `InsertCall` /
`Notify`; `AcceptCall` (checks) / `JoinCall` (first commit) / `ActivateCall` (second) /
`Notify`; `RejectCall` / `DeclineCall` / `Notify`; `EndCall` / `FinishCall` /
`Notify` / `DeleteRoom`; `GetLiveKitToken` / `RegisterParticipant`. `Notify` shows the event
to those who are members by then.

`CallsOverlap` adds the history that the promises about whole calls need: `crossed`, the calls on which two
handlers were at odds (two `StartCall`s between their check and their insert, or two
handlers of one call that have different events to announce), `unsaid`, the calls
whose last event was cut off by a cancellation, and `stayed[c]`, who has been a member ever since
the call started.

### MessageBoard and Messages

`MessageBoard` is the abstract specification of the messages of a chat: `text[m]`
counts the texts a message has had (0: not posted), `deleted` is final, `acks[m][u]`
only grows, and `Show` sets what clients show of a message to something that has been
true of it.

`Messages` has the tables as they are: `msgs`, `status` (a row per reader and which of
its two times are set), `reactions`, `objects` (MinIO), `holder` (the message of an
attachment row, none, or no row) and `copies`; `shown[m]` is what a client shows that
applied the events in the order they were published; `crossed` records the items (a
message's text, its deletion, a reader's marks, a reader's reaction) that two handlers
worked on at once or at which one was cut off after its commit; `req[w]` is the handler
in worker `w` with the values it read. A text is the number of commits that wrote it:
an UPDATE of a text never restores an older one.

| actions | code |
|---|---|
| `StoreObject`, `CommitUpload` | `UploadAttachment`: `put_object`, then the row |
| `StartSend`, `ReadFile`, `CommitSend`, `Refresh`, `PublishText` | `SendMessage`: checks, read of the attachment, one transaction for message, statuses and file, `session.refresh`, `message.new` |
| `StartEdit`, `CommitEdit`, `Refresh`, `PublishText` | `UpdateMessage` |
| `StartDelete`, `CheckRights`, `CommitDelete`, `PublishDelete` | `DeleteMessage`; the second for one who is not the sender |
| `StartReaction`, `LookAtReaction`, `CommitReaction` / `CommitUnreaction`, `PublishReaction` | `AddReaction`, `RemoveReaction` |
| `StartMark`, `LookAtStatus`, `CommitMark`, `PublishStatus` | `MarkAsDelivered`, `MarkAsRead`: an INSERT if no row was found, otherwise an UPDATE of the times found missing; the handler publishes its own copy of the row |
| `Cancel` | grpc.aio |

### Contacts

`contact[<<u, v>>]` is the committed row that says what `v` is to `u`. `lock` names the
handler whose open transaction has written the row and `draft` what it wrote; `Commit`
makes the drafts of a handler visible at once, `Abort` drops them. Reads see what is
committed. `Insert`, `Update`, `UpdateIncoming` and `DeleteRow` wait for the lock of their row; an
UPDATE whose row is gone is SQLAlchemy's StaleDataError, an INSERT that finds one an
IntegrityError, and both end the handler. The rows of a DELETE are those that were
committed when it began. `Deadlock` is PostgreSQL ending one of two transactions that
wait for each other. `Start...` and `LookOwn` are the handlers' reads; AcceptContact
takes an incoming row of any status, as the code does.

### Realtime

One chat whose members are `Users`. `online` and `queue[u]` are in Redis and
outlive the service; `bus` holds what Redis published and the service has not read;
`sockets[u]` is the manager's table; `conn[c]` the task of a connection (its step,
its user, whether the client is there, what it took from the queue); `listener` the
task that reads the bus; `got[c]` what a client received, each with the path it came
by, `lost` what a step dropped for a user, set by the steps that drop. An event is its
number in the order of publication. Accept, SADD, LRANGE, DEL, each send, SREM,
SISMEMBER and RPUSH are steps of their own. `send_to_user` walks a copy of a set that
may meanwhile be emptied and replaced (`listener.kept`); at its end it pops the user's
entry, whichever set that is by then.

How a connection ends depends on its heartbeat task. The `finally` block
(`ws/router.py:833-857`) cancels that task and awaits it under `suppress(Exception)`; the
await raises `CancelledError`, which is a `BaseException`, so the rest of the block does not run.
`End` is this: the connection is over, and the table of sockets and the online set keep
it. Only where the task was not started yet (a set-up step failed) or had ended by itself
(`HeartbeatTimeout`) does the block run on: `Disconnect`, then `RemoveOnline`.

The errors after which the service goes on are steps too: one of LRANGE or DEL leaves the
connection open with the queue kept or its batch dropped (`ReadQueue`, `DeleteQueue`), one of
SREM leaves the user online (`RemoveOnline`), one of the pub/sub polling loses what is
on the bus (`PubsubFails`), one in the handling of an event ends that
(`FailEvent`). A client may be there and not read (`Stall`): a send to it waits.

## 3. Model-checking runs

All constants are small sets of model values. Bounds that are not the size of a set
are `MaxTokens` (access tokens signed per session), `MaxSize` (the largest
`max_members` in use), `MaxText` (texts a message has, counting the first),
`MaxEvents` (events published) and the state constraints `OverlapsUndated` of
`ChatMembers`, `Bound` of `Messages`, `NothingCrossed` of `CallsOverlap` and `InTurn` of
`Realtime`. `CallsOverlap` has a VIEW (`OpenCallsView`) of the variables that its guards
and its one property read. `InTurn` names the connections in the order in which they come
and so leaves nothing out: it is a symmetry reduction that liveness allows.

| run | instance | question | states |
|---|---|---|---|
| `Sessions` | 2 users, 2 sessions, 2 tokens each, 2 handlers, cancelled anywhere | `StoredForOwner`, `DeletesOwnOnly`, `ClosedForGood` | 329k |
| `SessionsRefresh` | 1 user, 1 session, 3 tokens, 3 handlers, cancelled anywhere | `VoidStaysVoid`, `UsableSessionsExpire` | 389k |
| `SessionsResurrected` | 1 user, 2 sessions, 2 tokens each, 2 handlers | a revoked session gets tokens again: **violated** | - |
| `Calls` | 2 users, 1 call, 2 handlers, cancelled anywhere | `SettledForGood`, `ParticipantsWereMembers`, `RoomOutlivesCall`, `OpenCallIsWhole`, `MembersSeeOutcome` | 140k |
| `CallsOverlap` | 2 users, 2 calls, 2 handlers, cancelled anywhere | `OneOpenCall` | 72k |
| `CallsReopened` | 2 users, 2 calls, 2 handlers | an ended call becomes active again: **violated** | - |
| `ChatMembers` | 2 users, limit up to 2, 2 handlers, cancelled anywhere | `Atomic`: what no other overtook implements `Membership`; `DeletedForGood`, `OwnersUntouched`, `OwnershipIsGiven`, `BansHold`, `OthersLeftAlone` | 125k |
| `Messages` | 2 users, 2 messages, 1 file, 3 texts, 2 handlers, cancelled anywhere | `ImplementsBoard`: it implements `MessageBoard`; `ClientsConverge`, `DeletedIsQuiet`, `FilesAreStored`, `FilesStay` | 84k |
| `Contacts` | 2 users, 2 handlers, cancelled anywhere | `Mutual`, `BlocksEnd`; `HandlersReturn` under fairness | 163k |
| `Realtime` | 2 users, 2 connections, 2 events, errors, clients that do not read, restarts | `OnePath`, `InOrder`, `Reachable`, `Accounted`; `EventsAreHandled` under fairness | 570k |
| `RealtimeLeft` | 1 user, 1 connection, 1 event | an event for a user whose connection ended is not queued: **violated** | - |
| `RealtimeTwoDevices` | 1 user, 2 connections, 1 event | a user with an open connection is not online: **violated** | - |

### Why these bounds

* *Sessions.* The races of `ClosedForGood` and the two others are between two handlers over
  one session: a store against a delete, a touch against a delete. A second session is what
  `delete_other_sessions` needs to have another to delete, a second user what
  `StoredForOwner` needs to have an account to reach into. Two tokens are one and its
  replacement. `SessionsRefresh` has three tokens and three handlers over one session: two
  refreshes of it overlap, in either order of their HSETs, while a third handler deletes or
  touches it. The users, sessions and handlers of the theorems are unbounded.
* *Calls.* Two handlers on one call let an end, a rejection or another accept commit between the two
  commits of an accept; a third one adds another of the same steps, and the theorems
  cover it. `CallsOverlap` has two calls for two `StartCall`s that overlap, and for one
  that follows another. It stops where a call is crossed, since of two calls one crossed is enough
  for `OneOpenCall` from then on; what it asks is whether two open calls can be reached
  otherwise.
* *ChatMembers.* Two users are the actor and the target of every handler; the
  properties speak of one row at a time. Two handlers are enough for a commit between another's read
  and commit. `OverlapsUndated` keeps ban dates to the states with one handler in flight, where
  they pass in the row and in what the handler is about to write; the
  theorems have them with any number.
* *Messages.* Two handlers are enough to cross. `Bound` follows at most two items at a
  time, one of them crossed, since the handlers of different items meet only in
  `Visible` and in files; files are followed while nothing but sends is done. What it
  cuts off is covered by the theorems, which have no bound but `MaxText`. Three texts
  are a message and two edits that cross.
* *Contacts.* Handlers of different pairs share no row. Two users and two handlers
  make every order of locks; a third handler of the pair waits like the second.
* *Realtime.* Two connections can be two devices of one user, one after the other, or
  one each for two users; two events are what order needs. Redis can fail and the
  service be killed at every step. The theorems have no bound but `MaxEvents`.

`CHECK_DEADLOCK FALSE` appears where the system may really stop: a deleted chat
(`ChatMembers`), `Sessions` and `SessionsRefresh`, where the session ids and tokens are used up and
everything may be logged out, and `Messages` and `Contacts`, where no request has to
come.

### Fairness

`Contacts`: strong fairness of each worker's `Continue`, because PostgreSQL gives a row
to those who wait for it in turn: a handler that finds it free again and again gets it,
and two that wait for each other are not left so.
`Realtime`: weak fairness of the listener's steps while none of the sockets it sends to is
stalled (`~HeldUp /\ Listen`): asyncio resumes the listener when Redis or the socket answers,
and `ws/manager.py:48` awaits a send without a timeout. So `EventsAreHandled` says
that the listener always comes back to an empty bus unless clients that are there and do
not read hold it up again and again; errors, dead sockets and restarts do not. Nothing is
assumed of connections, of clients, of publishers or of restarts.

### What the violated runs show

* `SessionsResurrected`: `RefreshToken` checks the session (`auth.py:180-188`), awaits
  the database, and stores unconditionally (`:196`). A logout or revocation in
  between is undone.
* `CallsReopened`: `AcceptCall` commits the participant first and the status second
  (`call.py:201-224`); the status was decided before. An end or a rejection in
  between is overwritten, and the row is active with `ended_at` set.
* `RealtimeLeft`: a connection that reached "open" and ends stops in its `finally` block at
  `ws/router.py:837` (see `Realtime` above). Its user stays in `ws:online_users` and his
  dead socket in the table: events for him are sent to that socket and are lost, until
  a send to it raises; and then they find no socket and are lost as well. None is queued until he
  connects again, where README.md:233 of the repository has "хранение offline-сообщений".
* `RealtimeTwoDevices`: a second connection whose set-up fails after SADD, or that its heartbeat
  task timed out, takes its user out of presence although another is open
  (`ws/router.py:845-846`). From then on his events go to the offline queue while his
  open device shows nothing.

Smaller disagreements that the same modules show, without a run of their own:

* A refresh that overlaps `delete_session` by one command more leaves a session that
  is usable and in no index, so that neither ListSessions nor LogoutAllOtherSessions
  finds it.
* A handler cancelled between HSET and EXPIRE leaves a session without a time to
  live; `UsableSessionsExpire` says that this is the only way, and that the next refresh
  sets it right.
* Two overlapping `StartCall`s open two calls of one chat (`call.py:139`), after which
  `scalar_one_or_none` fails for that chat; `OneOpenCall` says that nothing else opens
  two, reopened calls apart. A handler that dies between the room and the row, or between the end and the
  deletion, leaves a LiveKit room of no call. A participant may have left the chat since he was checked.
* The event of a declined call carries no `chat_id` and reaches nobody
  (`call.py:250`); `MembersSeeOutcome` leaves declined calls out for that reason.
* `UnbanMember` and `UpdateChatMember` put a group over its `max_members`; a private
  chat can be enlarged and given a third member.
* A chat can be left without an owner: `LeaveChat` refuses to let the last one go
  ("Transfer owner role before leaving", `chat.py:928`); `RemoveChatMember` on oneself
  and `UpdateChatMember` on one's own role do not.
* Two overlapping `CreateChat`s of one pair both find no private chat and create two;
  the lookup then takes either (`LIMIT 1`, `chat.py:333`). `JoinChat` by chat id does not
  read `join_policy`.
* A ban decided before a promotion and committed after it leaves a banned owner; a
  join decided before a ban and committed after it lifts the ban. These handlers are
  `crossed` in `ChatOverlap`, and a resize that an added member overtook is `overtaken`.
* Marks that cross can leave clients showing delivered of a message that is stored as
  read (`message.py:665`), and edits that cross can leave them showing the older text:
  commits and events are in no common order. `ClientsConverge` is about items nothing
  crossed; `ImplementsBoard` says that what is shown is never more than old.
* Two overlapping sends of one uploaded file both bind it, and the message sent first
  loses it (`message.py:170`). An upload cut off after `put_object` leaves an object
  that no row names.
* The answer to `message.send` over the socket carries `created_at` in a form that
  cannot be written as JSON; the connection is torn down after the message was
  committed. In `Realtime` it is one of the reasons for `End`.
* A `RemoveContact` that began before a crossing `AcceptContact` inserted its mirror row
  leaves that row: one of the two has the other as an accepted contact, the other has
  none (`contact.py:263`). An AcceptContact of a row that is "blocked" ends the block
  the other user made (`contact.py:168-173` looks for the row, not for its status).
* `DeleteUser` leaves the account's sessions usable (`user.py:215`), and Login does not
  look at the account's status. A WebSocket connection checks its session when it is
  opened and not again.
* An event pushed between `LRANGE` and `DEL` of the offline queue is lost
  (`ws/redis_c.py:93-95`). A killed service leaves its users in the online set: their
  events are dropped until they connect again. A pub/sub error loses what is published until
  the listener is subscribed again (`ws/main.py:58-60`).
* `send_to_user` can pop the entry of a connection accepted while it was sending, after the
  last one of the set it walks was cleaned up (`ws/manager.py:51-54`); that connection
  stays open and receives nothing live. `Reachable` says that nothing else takes it out.
* An event is also lost when no socket is found or the client of one is gone, when the
  rest of a queue cannot be sent, when its handling fails, and at a restart. Each of these
  steps records what it drops in `lost`; `Accounted` says that nothing is lost otherwise.

## 4. Proofs

Checked by TLAPS for every value of the constants, with any number of handlers in
flight and cancelled anywhere. The assumptions are that `NoUser`, `NoSid`, `NoCall`, `NoMsg`, `NoFile` and
`NoWorker` are not values of their kinds, that "absent" is no message id, and that
`MaxTokens`, `MaxSize`, `MaxText` and `MaxEvents` are positive.

* `SessionsProofs`. The inductive invariant `IInv` is `TypeOK`, `StoredForOwner`, `Signed`
  (an unused id has no tokens) and `Knows(w)` for every handler: what it may rely on
  at each step, chiefly that the session it is about to store, touch or delete was
  signed for the user it acts for. `StoredForOwner` alone is not inductive: it needs
  to know what a handler in the middle of a store or a walk over ids read long ago
  will write. From it: `TypeCorrect`, `StoredForOwnerHolds`, `DeletesOwnOnlyHolds`, and
  the action properties `ClosedForGoodHolds` and `VoidStaysVoidHolds`, which look at
  one step with `IInv` before it. `UsableSessionsExpireHolds` follows the handler that
  stored the hash to its EXPIRE, or to its cancellation there, which `cut` records
  (`ExpireStep`, `CutStep`).
* `MembershipProofs`. `IInv` is `TypeOK` and `NoChatNoRows` (no rows without a chat).
  `Rightful(a, t, r)` says in terms of the two rows alone what `a` has a right to store
  for `t`, and `StoresRightful` that every handler stores nothing else.
* `ChatMembersProofs`. `HInv` is `HTypeOK`, `NoChatNoRows`, `NoLimit` and `InFlight(w)` for every
  handler (what is known of a row it is about to insert or update, and that a handler
  only waits once there has been a chat). It gives `HandlersTypeCorrect` and
  `DeletedForGoodHolds`. `OInv` adds two facts about handlers in flight. `Due(w)`, of those not overtaken:
  what the handler decided is still a step the atomic handler could take. `Right(w)`, of those not
  crossed: it is still `Rightful`. Both are made by the read (`DueBegin`, `DueIsRight`), are not
  lost when a date passes in a row (`DueClock`, `RightClock`) or in what is about to be
  written (`DueRunsOut`, `RightRunsOut`), and are about rows that, by the history, no other
  handler changed (`OthersStay`, `RightByRows`). `Refinement` then maps the read to a
  stutter and the commit of a handler not overtaken to the atomic handler (`CommitRefines`), `chat` and
  `rows` to themselves. The four action properties follow from what a commit that is
  `Rightful` can do (`DoesDeed`).

* `CallsProofs`. `IInv` adds to the types and `ParticipantsWereMembers` that a call id is
  drawn by one handler (`OneMaker`), that a row without a status is empty and one with
  a status was drawn (`Drawn`), and `Knows(w)`: a handler that is making a call finds no
  row, one that writes a row finds it there, one that will insert a participant saw
  him a member, and one that goes to delete a room has seen the end recorded.
  `CallStep` says what one step can do to a row. With it `SettledForGoodHolds` follows
  since only a handler that found the call open announces a write (`NewWriter`).
  The remaining three are about `OverlapSpec`. `HInv` adds that who is at odds is on record
  (`Crossing` is part of `crossed`), what event a handler at each of its steps will announce
  (`Says`) and that what it found is still so when it goes on, or its call is crossed (`Still`);
  `StatusStep` says which steps change a status. `OneOpenCallHolds` follows at the
  insert. `OpenCallIsWholeHolds` needs besides that a handler at the insert of a call has
  its room (`HasRoom`): a room goes only when `ended` is set, and by `Still` no accept
  makes an ended call active again unless it is crossed; a cancelled handler leaves the
  status and `ended` as one commit wrote them. `MembersSeeOutcomeHolds` needs that nothing is
  shown of a call that has no row (`Silent`), and that who has stayed is a member
  (`Stayed`), and so is shown every event.

* `MessagesProofs`. `IInv` is `TypeOK`, `Records` (nothing is on record about a message that
  was not sent), `Truthful` (what is shown has been stored), `FilesAreStored`, and for
  each handler `Knows(w)` and `Alone(w)`: that what it read is still a lower bound of
  what is stored, and that a message being composed and a file being uploaded are
  known to one handler only. `Truthful` alone is not inductive: an event is published
  from what a handler holds. Most of the work is done once, in `Keeps`: a step that
  only lets the tables rise (`Rising`) and after which its own handler still knows what
  it should (`Takes`) keeps everybody's `Knows` and `Alone`. `Refinement` maps `CommitSend`
  to `Post`, `CommitEdit` to `Edit`, `CommitDelete` to `Delete`, `CommitMark` to `Acknowledge`,
  the three publications to `Show` (`Truthful` after the step is exactly the guard of
  `Show`), and the rest to stutters. Two consequences are stated for the tables themselves:
  `TruthfulHolds` (clients are never shown what was not stored) and `OnlyAdvances` (texts and
  marks only advance, a deletion is final). `DeletedIsQuietHolds` and `FilesStayHolds` look at
  one step each.
* `MessagesConverge`. `ClientsConvergeHolds` needs more: `Solo(i)` says that an item that was
  not crossed has at most one handler, that this handler finds clients showing what is
  stored until it commits (`Fresh`) and holds what is stored when it publishes, and that
  without a handler clients show what is stored. `Settles(w)` is what each step does to
  its item and to all others; `SInv` is `IInv` and every `Solo(i)`.
* `ContactsProofs`. `Mutual` is not inductive: when a handler commits one must know that
  what it drafted, or leaves alone, is mutual. `IInv` adds `Mirrored` and `Crossing` (an
  accept and a remove of one pair that are in flight together are on record) and, for
  each handler, `Fits` (its steps), `Writing` (what it has drafted), `Accepting` (an accept
  holds the rows it wrote, and a row it saw accepted has at most been blocked since)
  and `Removing` (rows a remove does not touch are not accepted). `BlocksEndHolds` follows
  from `Writing`.

* `RealtimeProofs`. None of the properties but the types is inductive, and `IInv` is in
  four parts. `Shape`: types, and which steps of a connection go with which of its
  fields (`ConnFits`), that a user's sockets and the targets of a send are his
  (`SocketsFit`, `ListenerFits`). `Order`, for `InOrder` and `OnePath`: with `Queued`, `SentLive`
  and `Known`, what a user has or will have by the queue, live, and by either, the bus is
  sorted and newer than all that left it (`BusAhead`); the event in the listener's
  hands is newer than all that is known of those who wait for it (`New`), and while it
  is being sent newer than all that is queued for the user and than what the devices
  that are still to get it have (`Sending`); what a device has yet to drain is newer
  than what it drained (`QueueOrder`). A device that drains its queue while the listener
  sends to it is what makes the two orders separate ones. `OnePathEach` then follows
  since one event is only ever handled once and goes one way. For `Accounted`: `Served`, that
  after the last send the user was sent the event or it was lost, and `Backed`, that what a
  device has read and not yet deleted is in the queue still, or another device of the user
  took it, or it is counted as lost. An error of DEL, before or after Redis applied it, makes
  the second necessary. For `Reachable`: `Found`, which adds the devices just accepted,
  and `Dead`, that the listener takes out only sockets whose client is gone and that a set is
  replaced only after a connection of the user was cleaned up. The proof has a lemma
  per step and part; `OnlyConn`, `ConnStep`, `SameWork` and `NothingNew` say what most steps
  leave alone.

The proofs of `Realtime` are for any number of users, connections and events, with clients
that hang up or do not read, errors and restarts at every step.
The proofs of `Messages` and `Contacts` are for any number of users, messages, files and
handlers in flight, cancelled or not.

Only model-checked: the liveness properties (`HandlersReturn` of contacts and
`EventsAreHandled`). They rest on fairness, and so on which actions
are enabled, which this prover does not reason about. Every safety property of a
passing run is a theorem.

## 5. Abstractions, and what is not modelled

* Passwords, email verification, JWT contents, names, the wording of messages, audit
  rows, the touch of `chats.updated_at`, thumbnails and audio data, event payloads other
  than their `chat_id` and what they tell of a message, and all read-only handlers.
* A message carries at most one file and there is one emoji: files and emojis are
  stored row by row. What DeleteMessage, edits and reactions require of membership is
  an answer that may be either, since membership changes between any two reads.
* The `SELECT`s of a handler of `chat.py` are one step; so are those of a handler of
  `call.py` before its first write.
* Errors of Redis, PostgreSQL and LiveKit are modelled where the code goes on after
  them (`Calls!DeleteRoom`, in `Realtime` the five steps named above, the conflicts in
  `Messages` and `Contacts`); elsewhere they end a handler, which is `Cancel`, or a
  connection's set-up, which is `Disconnect`.
* `Realtime` has a fixed set of members: the 5-second cache of members, typing events,
  `user.online` events, `last_seen` and the calls a client makes over its socket are left
  out; the last appear as what ends a connection. With the cache a removed member
  goes on to receive events for up to 5 seconds, and the code promises nothing else.
* One chat, and no call of another chat: handlers of different chats share no rows.
  The search for the private chat of a pair of users does span chats.
* User accounts and privacy settings, invite links and push tokens: each operation is
  one statement on a row (or one Redis key) of its own, with no order to get wrong.
* The gateway `FastApiClient` keeps no state, and roughly 11300 lines of the repository are
  the generated protobuf stubs, present in four copies. With the schema, the GraphQL
  types and the read-only handlers they are most of the code that no definition maps
  to.

## 6. Plan

Done, in the order of importance: sessions; membership, atomic and as it runs; calls;
realtime delivery; messages with attachments, refining a board; contacts; proofs of the
safety properties of all of them.

Left, the most useful first:

1. `ChatMembers` composed with the 5-second cache of members of the WebSocket service.
2. The private chats of a pair; accounts that are deleted against sessions and contacts.
