# SkillLab in TLA+

Specifications, model-checking configurations and machine-checked proofs for
the core of SkillLab: a training platform on which operators of a customer
service practise by talking, by chat or by telephone, with an avatar that a
language model plays. Everything here is read off the source; a module names,
in its comments, the files it models, and `PROJECT.json` maps every definition
to its lines.

## The system

The backend is a FastAPI application that runs as several interchangeable
processes (replicas) behind a balancer. Each process has one asyncio event loop
and a pool of threads. What they share is Postgres and nothing else; identity
is Cognito's, speech recognition (STT) ElevenLabs', the synthesis (TTS) of
ElevenLabs or Cartesia, the language model OpenAI's or Gemini's. The frontend is
a React application.

| Component | State it keeps | Operations | Where it is hard | What makes it correct | Module |
| --- | --- | --- | --- | --- | --- |
| Voice pipeline (`voice_pipeline.py`) | per call, in memory: history, pending commit and its timer, grace window, current turn, active TTS context; rows of `chat_messages` | loops over browser, STT and TTS; grace window; turns; barge-in; teardown | six kinds of task on one loop, a dozen awaits inside cancellations, threads nobody waits for | every commit told once, none lost, the call comes to its end | `VoicePipeline` |
| Voice sessions and slots (`voice_sessions.py`, `voice_capacity.py`, `routers/voice.py`) | `voice_session` rows; a counter per process | ask for a call, open the socket, refuse, talk, hang up, purge | two sockets on one id, crash, expiry during a call, deletion | slots exact, rows removed, an ended conversation stays ended | `VoiceCalls` |
| Voice client (`VoiceButton.tsx`, `services/voiceCall.ts`) | refs of the button; microphone, audio graph, socket, recorder and queue of a call | start, cancel, hang up, leave; turns; recording and its upload | five awaits in a start, refs shared between starts, events of the server at any of them | no microphone out of reach, one end, the half-duplex gate follows the turn | `CallClient` |
| Token denylist (`token_denylist.py`) | `revoked_jti`; a snapshot per process | revoke, check, reload, purge | query outside the lock, two processes, expiry, restart | a revocation reaches every process in bounded time and lasts | `TokenDenylist` |
| Login and sessions (`routers/auth.py`, `token_sessions.py`, `auth_dependency.py`, `cognito_service.py`) | `token_session`, Cognito's refresh tokens, cookies | login, new password, refresh, logout, change of password | the upstream call is between two database steps | what a change of password or a logout revokes stays revoked | `AuthSessions` |
| API client (`services/api.ts`, `services/auth.ts`, `AuthProvider.tsx`) | profile, cache and pending refresh of each tab | reading, mutation, login, logout, reload | many 401s at once, several tabs on one jar of cookies, answers out of order | one refresh per page, a cache of one's own, a good session is kept | `PageSession` |
| Rate limiter (`rate_limit.py`, `llm_limits.py`) | `login_attempts` | check, record, reset, purge | check and record are two transactions | nothing in the window is forgotten, the excess is bounded | `RateLimit` |
| Chat (`routers/chat.py`, `useTextChat.ts`, `ChatPage.tsx`) | conversations, messages, judgements; the page | send, stream, write, end, judge, delete | the model answers in the middle, the connection drops | what is reported is stored, a closed chat is final, a judgement is of what was said | `Chat` |
| Simulations (`routers/simulations.py`, `admin_simulations.py`, `simulation_*.py`) | pools of questions, reviews, attempts | write, generate, review, publish, draw, submit, grade | pools are rewritten while tests and reviews run | graded on what was asked, published read | `Simulations` |
| The page of a test (`SimulationRunner.tsx`, `screenRecording.ts`) | questions, answers, the share of the screen, uploads | share, draw, answer, submit, restart, leave | prompts, recorder, submission and upload all awaited | what was answered is stored, a video is of its test | `SimulationRunner` |
| Training and notifications (`training_progress.py`, `routers/training.py`, `notifications.py`, `routers/reviews.py`) | paths, assignments, reviews, reads; the progress is derived | assign, rewrite, correct, annotate, read | what a proof opened moves when an older one changes | passed exactly when it can be, told when it changes | `Training` |
| Organizations and accounts (`organizations.py`, `account_status.py`) | suspensions | suspend, restore, delete | reach of a suspension | nobody suspended goes on | |
| Retention and erasure (`retention.py`, `housekeeping.py`, `erasure.py`, `personal_data.py`) | none of their own | sweep, erase, export | one replica at a time, order of deletions | windows hold, nothing younger goes | |
| Startup migrations (`startup_migrations.py`) | the schema | migrate under an advisory lock | replicas starting together | idempotent, once | |
| Audit, authorship, activity | append-only tables | write beside the request | a request that fails | what happened is recorded | |
| Deploy (`deploy.sh`), backup | images, dumps | swap, roll back | failure half-way | never without a running version | |

The rest (dashboards, editors, exports, prompts, schemas) reads, formats or
declares and keeps no state a step of another actor could break.

How they interact: `POST /api/voice/session` commits a conversation and then a
session row; the WebSocket, on whatever process, reads the row in a thread,
takes a slot of that process, and runs the pipeline, which writes messages
through threads and marks the conversation ended; the endpoint then frees the
slot and deletes the row. Every other request passes `auth_dependency`, which
asks the token denylist's snapshot; logins, and every request that pays a model,
ask the limiter first. Chats, calls and tests leave judgements and attempts,
from which progress and notifications are derived at each reading.
`housekeeping` sweeps expired denylist rows, session rows and counted attempts on
a clock of its own, one replica at a time.

## Modules

| Module | What it is |
| --- | --- |
| `CallTranscript` | abstract specification: commits that were heard wait, are told once, and only hanging up drops any |
| `VoicePipeline`, `MCVoicePipeline`, `VoicePipelineProofs` | one call in full, await by await; its instance for TLC; its theorems |
| `VoiceCalls`, `VoiceCallsProofs` | sessions, slots, sockets, conversations, crashes |
| `CallClient` (its theorems in `VoiceCallsProofs`) | the browser's end of a call |
| `TokenDenylist`, `MCTokenDenylist`, `TokenDenylistProofs` | the denylist table and the snapshots |
| `AuthSessions`, `MCAuthSessions`, `AuthSessionsProofs` | login, refresh, logout and change of password of one account |
| `PageSession`, `PageSessionProofs` | the tabs of one browser over those cookies |
| `RateLimit`, `MCRateLimit`, `RateLimitProofs` | the sliding-window limiter and its two kinds of caller |
| `Chat`, `ChatProofs` | written conversations: page, exchange, end and judgement |
| `Simulations`, `MCSimulations`, `SimulationsProofs` | the pool of one test and the tests drawn from it |
| `SimulationRunner` (its theorems in `SimulationsProofs`) | the page on which a test is taken |
| `Training`, `MCTraining` (its theorems in `ChatProofs`) | the path one person is on and what is told of it |

How they meet. `VoicePipeline` implements `CallTranscript` (`KeepsTranscript`).
`VoiceCalls` treats what happens inside a call as one state ("talking") whose
end is `HangUp`; `VoicePipeline` is the inside, and the two meet in
`_mark_conversation_ended`: `RunMarks` there, `MarkEnded` here. `CallClient` is
the other end of the same socket: what the server may say in it, and in which
order, is what `voice_pipeline.py` sends. `AuthSessions` takes from
`TokenDenylist` what that module's `ReachesAll` promises: a revocation may be
missed by some process at first and is known to all a bounded time later.
`PageSession` is the page over the cookies `AuthSessions` sets and keeps of the
server what a page can see of it: which sessions are open. `RateLimit` stands in
front of the logins of `AuthSessions` and of the paid requests of `Chat` and
`Simulations`, where its refusal is one of the ways a request fails.
`SimulationRunner` is the page of the draws and submissions of `Simulations`.
`Training` derives from the judgements of `Chat` and the attempts of
`Simulations`, both reduced to a date and a score.

A module of theorems may speak of both ends of something: `VoiceCallsProofs` of
the calls on the server and in the browser, `SimulationsProofs` of a test on the
server and on its page, `ChatProofs` of the conversations and of the path their
judgements are spent on. Each extends the two modules, which is why the initial
predicate, the next-state relation and the specification of `CallClient`, of
`SimulationRunner` and of `Training` carry a prefix (`ClientSpec`, `RunnerSpec`,
`PathSpec`).

Operators whose comment begins "Broken on purpose" are the forms of a bug that a
property must notice (`PROJECT.json`, "mutants"); no specification uses them.

## How the modules follow the code

### VoicePipeline

One event loop, so an action is the code between two awaits. `call[p]` says
what the caller `p` of `_cancel_turn` or `_fire_pending` is awaiting, and which
words and turn number it carries in its local variables across the await: the
STT loop, one settle task per turn (named by the turn whose window it closed)
and `run()` itself. `turn[t]` is the task of turn `t`; `tts` is the TTS loop;
`run` is where `run()` is.

* `_pending_text` and `_pending_timer` are `pendingText`, the set of commits
  glued so far, and `pendingTurn`, the number the first of them took.
* `_active_context` is `active`, named by the turn that opened the context.
* `_send_lock` and the lock inside the TTS socket are first-come-first-served
  asyncio locks: `line[l]` holds the waiters and `ahead[w]` those in front of
  `w`. A send is complete when its waiter is served and its caller resumes.
* The history is a sequence of entries; each entry's row is written by a thread
  that commits or fails when it likes (`PersistCommits`, `PersistFails`).
* A commit is a number, its words are left out; an assistant's reply is the
  count of the deltas so far. Whether a commit looks complete
  (`_looks_complete`) is a choice, both branches always possible.
* Cancellation is where asyncio puts it: at the await the task is in. A task
  that never started runs none of its handlers. `contextlib.suppress` in
  `_cancel_turn` swallows a cancellation of the *caller* as well as that of the
  turn, which `HangUp` models by letting the STT loop survive.

Left out: opening the two provider sockets, the keep alive loop, the audio on
its way up, the metrics.

### VoiceCalls

`conv`, `session` and `calls` are the two tables and the counter of each
process; `socket[w]` is where an invocation of `voice_websocket` is, on which
process and with which id. `Crash(r)` is a process that dies with everything in
its memory; `SetStatus` a suspension or its end; `Purge` the sweep;
`DeleteConversation` an administrator's, with the foreign key's cascade. The
balancer may send a socket anywhere and two sockets may carry one id, as in the
code, which consumes the row only at the end of the call. What may fail on the
database fails in the model too: the reading of the row (`LoadSession`), the
marking (`MarkEnded`) and the deletion (`CloseSession`, which leaves the socket
"undeleted"). The handshake itself may raise, or be cancelled, with the slot
already taken and the `try` that gives it back not begun: the socket is "broken"
and its slot counted until the process dies (`Holders`).

### TokenDenylist

One thread of the pool per element of `Thread`. `_lock` covers the accesses to
the snapshot and not the queries, so a check is `Check` (is it stale), `Query`,
`Install`, `Answer`, and a revocation `RevokeReads`, `Insert` or `Conflict`,
`Publish`. Time is a counter; `Slowest` bounds how long the answer of one query
can be on its way, the one thing about the environment that the bounded delay
of `ReachesAll` needs.

### AuthSessions

One account, its browser and its requests. `upstream` and `token` are
Cognito's: the refresh tokens (a session each) and the access tokens minted of
them. `bound` is `token_session`, one row per jti and one, the anchor, per
origin_jti; `denied` is `revoked_jti`. `jar` is the browser's two cookies, of
which the access cookie goes with its `max-age`; `browser` is the User-Agent it
sends, which an update of the browser or a request for the desktop site
changes (`Updates`). `req[q]` is where a request in flight stands and what it
carries; each call to Cognito and each commit is a step: `Precheck`,
`RefreshMints`, `Postcheck`, `BindRefresh` and `ReplyRefresh` are the refresh;
`Login`, `BindLogin`, `ReplyLogin` the login; `Logout` and `LogoutDenies` the
logout; `ChangePassword`, `CloseAll`, `SignOut` and `Reopen` the change of
password, which ends like a login. A rejected refresh is `RevokeRejected` and
`ClearCookies`. Every other request is `OutOfPlace` when its binding is
violated and changes nothing otherwise. A request may die, or its answer be
lost, at any step (`Dies`), and every revocation on Cognito may fail.

A tick stands for the better part of an hour, the validity of an access token
being two. A request lasts seconds: none straddles a tick, and what one process
denied in a tick the others may not know until the next (`fresh`). The leeway
of the signature check is one tick, the least there is. An access token Cognito
minted and that cannot be verified for want of keys ends as a refused refresh
does; a suspended account's login as a lost answer.

### RateLimit

The rows of `login_attempts` are `events`; `told` is what was recorded and never
purged, which a check must agree with. A request is where it stands between the
two transactions of the limiter: a paid call looks and then records
(`CheckPaid`, `RecordPaid`); a login looks at the bucket of the email and at that
of the address (`CheckEmail`, `CheckIp`), asks Cognito, and records its failure
in both, one after the other (`RecordEmail`, `RecordIp`), or resets the email's
(`Accepted`). `record` dates its row when it begins, so `Reads` is a step of its
own. Any process may die between two steps (`Fails`); any replica may sweep
(`Purge`). `Email`, `Ip` and `Paid` are one bucket of each kind: buckets touch
each other only in the sweep.

### Chat

`page[p]` is what `useTextChat` and the page keep; `turn[t]` a request
`POST /api/chat/message`; `conv` and `report` the tables. The server's part is
`TurnContext` (the checks, before the stream), `StreamFails` or
`PersistExchange` (after it), between which the conversation may be closed,
deleted or left by its page; the page's is `Hear` or `Cut`, when the connection
drops and the text goes back in the composer while the request may go on.
`EndOnServer`, `EndHeard`, `EvaluationInput` and `StoreEvaluation` are the close
and the judgement, which reads in one transaction and stores in another. An
exchange is the request that wrote it and a text a number. One assumption is
made of the environment: the database stays reachable between the commit of
`_persist_exchange` and the readings after it in the same function; otherwise an
"error" event could follow an exchange that was stored. Left out: renaming, the
readings, the PDF.

### Simulations

A pool is replaced in one go, so it is a set of blocks, the rows of one write;
a write is `SaveBegins` (up to its `DELETE`, which sees the rows committed then)
and `WriteCommits`. `PublishBegins` counts the pool and `PublishCommits` writes
the status the request had loaded; a publication that overlaps a write is the
case the two transactions leave open, and `alone` remembers it. A review is
`ReviewBegins`, minutes of model calls, `StoreReview`. The server keeps nothing
of a draw (`Start`): what was asked comes back with the delivery (`Submit`),
is looked up (`Read`), graded outside any transaction, and stored
(`StoreAttempt`), the answer arriving (`Hear`) or not (`Lose`).

### Training

Nothing of the progress is stored, and nothing of it is a variable: `Achieved`,
`Status` and `Current` are `_achieved_at`, `_step_progress` and `current_index`,
and `Told` the keys of `notifications.for_user`, all functions of the
conversations, the judgements, the corrections, the notes, the tests, the path
and the clock. The actions are everything that may change under them.

### CallClient

`call[i]` is a `VoiceCall` with its microphone, socket, recorder and queue of
audio; `button` the state and the refs of `VoiceButton`; `pc[i]` the await that
start `i` is in: the session, the permission for the microphone, the audio
graph, the socket's "ready", the end of the ring. The operator may click or
leave at any of them, the server may refuse, close or fail. `UserFinal`,
`SpeakingStart`, `Chunk`, `SpeakingEnd` and `Interrupt` are what the server
sends in a turn, `ChunkEnds` the browser's `onended`. `early` marks a call torn
down before its microphone was given and `alone` one whose start met no other:
the two exceptions of `MicInReach`. Left out: tones, levels, captions, samples.

### SimulationRunner

`view` holds the states and the refs of the component, `share[s]` a screen that
was asked for, `closing` the submissions that wait for a file to be complete,
`uploads` the videos under way, `attempt` what the server stored, `records`
whether the test asks for a recording now. `stray` and `late` mark the
exceptions the properties name: a share asked for while another was, or by a
page that has gone; a share stopped before its questions had come.

### PageSession

`jar` is the two cookies, each reduced to the session it is of; `open` the
sessions the server has begun and not revoked. A tab has the user it shows and a
cache; a request left with the cookies of its moment (`Sent`) and is answered,
lost, refused (and waits for the refresh of its tab) or refused again (and the
page is loaded anew). `Refreshed` sends again everything that waited,
`RefreshRefused` and `RefreshDropped` give up. A logout is not waited for, so
its answer may clear the cookies of a later login. `stray` is a tab into which
something of another session has come, `behind` a login made while something of
an earlier one was under way: the exceptions of `CacheIsOwn` and
`GoodSessionStays`. Left out: the clock of inactivity and its storage events.

## Runs

| Run | Instance | What it shows |
| --- | --- | --- |
| `VoicePipeline` | 2 commits, 1 delta, fairness | `Orderly`, `NoSpeechTwice`, `NoSpeechLost`, `KeepsTranscript`; live: `CallGoesOn` |
| `VoicePipelineRepliesOnce` | the same | violated, see below |
| `VoiceCalls` | 2 processes with 1 slot, 1 conversation, 2 sessions, 2 sockets, fairness | `SlotsExact`, `RowsInOrder`; live: `RowsGo`, `SlotsComeBack` |
| `CallClient` | 2 starts, 2 chunks of audio, fairness | `GateFollowsTheTurn`, `MicInReach`, `EndsOnce`; live: `RecordingSettles` |
| `TokenDenylist` | 2 processes, 3 threads, 1 token, clock to 5 | `Accurate`, `ReachesAll` |
| `AuthSessions` | 2 User-Agents, 2 sessions, 2 access tokens, 2 requests, clock to 3 | `ClosedStaysClosed`, `TokensFollowTheAnchor` |
| `PageSession` | 2 tabs, 2 sessions, 2 requests, fairness for one tab | `OneRefresh`, `CacheIsOwn`, `GoodSessionStays`; live: `WaitingEnds` |
| `RateLimit` | 2 requests, limits 1, 2 and 1, windows 2, 2 and 3, 4 events, clock to 4 | `NothingForgotten`, `ExcessBounded` |
| `Chat` | 1 page, 2 conversations, 3 requests, 2 judgements, 2 texts | `DoneIsStored`, `LateWasInFlight`, `TwiceOnlyIfCut`, `JudgedWhole` |
| `Simulations` | tests of 2 questions, 2 writes, 1 review, 2 draws, 2 deliveries | `GradedAsAsked`, `ReviewIsOfThisPool`, `PublishedWasRead`, `TwiceOnlyIfLost` |
| `SimulationRunner` | 2 shares, 2 tests of 2 questions, 2 attempts, fairness | `ScreenInReach`, `InterruptedIsSent`, `VideoOfItsTest`, `GivenIsStored`; live: `VideoIsTold` |
| `Training` | 2 conversations, 1 test, 2 paths of 2 steps, 1 assignment, 3 writes, clock to 2 | `PassedIffPossible`, `OneStepOpen`, `NothingIsTakenBack`, `RewrittenIsTold` |

Some properties are conjunctions of named parts, defined beside them:

* `Orderly` is `TypeOK`, `Bookkeeping` (what a caller of `_cancel_turn` carries
  and how turns are numbered), `NothingStranded` (a held commit has a window or a
  caller that will look at it), `SpeakingHasContext` and `NoWindowLeft`;
* `CallGoesOn` is `HeardIsTold` and `HangUpEnds`;
* `RowsInOrder` is `TypeOK`, `RowHasConversation` and `ClosedCallLeavesNoRow`;
* `Accurate` is `TypeOK`, `NeverInvents` and `KeptUntilExpiry`;
* `PublishedWasRead` is `PublishedWasWhole` and `GeneratedIsReadFirst`.

`PassedIffPossible` is a pure algorithm against its definition: `progress_of`
reads the row of steps once, from the first moment each is reached; the property
says that this greedy reading passes exactly the steps that some choice of proofs
could pass.

Bounds. In the voice run two commits are two turns, or a turn and the commit that
interrupts or joins it, and the callers of `_cancel_turn` that meet are the STT
loop, a settle task and the teardown; one delta tells an empty reply from one
that was begun, which is all the guards ask of it. What three commits and two
settle tasks would add is in the proofs, which bound nothing. A row is written
there as soon as it is handed to its thread (an action constraint of the MC
module: no property of the run reads the rows). Two processes with one slot are
the smallest in which a slot may be counted on the wrong process and the ceiling
is reached; two sockets are a refusal beside a call, two calls on two sessions of
one conversation, and two on one session. Two starts of `CallClient` are a start
during another and a call after one that was left; two chunks are a last one and
one before it. In the denylist `Life` exceeds `CacheTTL + Slowest`, so that a
live revocation can be overdue, and the clock goes beyond the life of a row, so
that rows expire and are purged and revoked again. In `AuthSessions` two requests
make every pair of endpoints meet; two access tokens are one before a denial and
one minted around it, of one session or of two; three ticks are enough for a
token to expire, its row and the denial of its session to be purged, and the
leeway to pass. In `PageSession` two requests of one tab share a refresh, one of
each tab makes two refreshes cross, and two sessions are what a late answer needs
to be of the wrong one; one tab is followed and the other may do what it likes.
In `RateLimit` one limit is above one, two requests are enough to pass both
checks before either records, the windows differ so that a clean-up of one bucket
could shorten another, and the clock passes every window. In `Chat` a third
request is a resending after one cut and one that was told; two texts and two
conversations tell where each landed; two judgements come back in any order. In
`Simulations` two writes overlap each other, a publication and a review; two
draws are one from each pool; two deliveries are a delivery and its repetition.
In `SimulationRunner` two of each are the old test and the new. In `Training` two
steps on one avatar, which ask for different things, need two conversations; three
writes are a judgement, its reading and what changes it.

The names in each set of `AuthSessions` and of `RateLimit` are interchangeable
and those runs use the symmetry: their properties are invariants.

Deadlock is not checked (`CHECK_DEADLOCK FALSE`): a call that ended, requests
that are used up and a clock at its bound are where these systems stop.

Fairness. The event loop resumes a task whose await is over, a socket accepts
what is written to it, a thread ends, a timer fires and a language model's
stream ends, because the client library has timeouts: weak fairness of each
caller, turn, TTS send, of the end of `run()` and of the threads. Nobody has to
speak, to hang up or to commit. `HangUpEnds` needs one thing more, strong
fairness of the recogniser closing a socket that gets no audio any more
(`SttGivesUp`): after a hang-up that the STT loop swallowed, nothing else ends
the call. In `VoiceCalls` rows expire, the sweep runs every few hours and the
endpoint's threads end; no fairness for hanging up, opening or crashing. In
`CallClient` the browser delivers the events it owes: a socket that was closed
says so, a recorder that was stopped flushes, a scheduled chunk ends; the server
owes nothing. In `SimulationRunner` a stopped recorder writes its file and an
upload ends, well or badly. In `PageSession` `fetch` settles: the request of a
page that loads and the refresh have an answer or an error. The other
specifications state no fairness and only safety.

## What the source says and the code does not do

One text of the source is contradicted by a run:

| Run | The text | What happens |
| --- | --- | --- |
| `VoicePipelineRepliesOnce` | `voice_pipeline.py:817-818`: the interrupted reply is kept "so the LLM knows what the operator heard" | the reply is appended and persisted at 808-811, before `assistant_end` is sent; a barge-in during that send files it again at 821 |

The models also contain these executions, on which no property insists. Each is
an exception that a property names, or the reason why a stronger one is not
stated:

* a message's thread commits its row after `ended_at` (`voice_pipeline.py:274`,
  `366`), and two turns stream for a moment while one is being cancelled
  (`voice_pipeline.py:714-717`);
* a handshake that fails keeps its slot for as long as the process lives
  (`routers/voice.py:413`, `432`: `accept` is awaited before the `try`), against
  "restituisce il posto a chiamata finita, comunque sia finita"
  (`voice_capacity.py:85`); `SlotsExact` counts such slots, and says that there
  is no other way to lose one;
* a delete that fails leaves the row of a call that is over until the sweep
  (`voice_sessions.py:149-160`), which its comment says to find only sessions
  nobody ever opened (`163-168`);
* a session handed out before the hang-up makes a second call on the ended
  conversation (`voice_pipeline.py:274-275`, `voice_sessions.py:133`);
* a slow reload installs a snapshot without a revocation its own process made
  meanwhile, though revocations "apply immediately" there
  (`token_denylist.py:11-12`); `ReachesAll` bounds how long;
* the answer of a refresh that comes after that of a new login sets the old
  session's access cookie beside the new refresh cookie (`routers/auth.py:465`,
  `522`);
* a session that a violated binding took down can be refreshed once its denial
  has expired, because nothing revokes it upstream (`token_sessions.py:182-196`,
  "the cookie dies for everyone");
* the answer to a logout nobody waits for clears the cookies of the login after
  it (`AuthProvider.tsx:85-90`, against
  `docs/comunicazione-frontend-backend.md:55-65`): "behind" in `PageSession`;
* a message whose connection dropped after the commit is offered again as
  unsent (`services/api.ts:368-369`, "resending the message is safe", against
  `routers/chat.py:572-582`); `TwiceOnlyIfCut` says that there is no other way;
* a published pool may be emptied or cut by a save (`admin_simulations.py:922-937`),
  where "le pubblicate ce l'hanno pieno" (`routers/simulations.py:225-226`);
* a save of a path gives its steps new ids, so that what was read of the old
  ones is told again (`routers/training.py:593`, `models.py:1023-1026`);
* leaving the page while a call is starting closes a client whose microphone is
  opened afterwards (`VoiceButton.tsx:87-95`, `190`): "early" in `CallClient`;
* a share stopped before the questions arrive does not submit the test
  (`SimulationRunner.tsx:174-179`), and two prompts leave one capture without an
  owner (`SimulationRunner.tsx:267`): "late" and "stray" in `SimulationRunner`;
* whether an attempt should have a video is read when it is stored, not when its
  test was drawn (`routers/simulations.py:810`).

## What is proved

For every value of the constants, by TLAPS. Each proof is an inductive
invariant, checked by TLC on the instance of the run first, with one lemma per
action or group of actions that disturb it.

**VoicePipelineProofs.** `TypeCorrect`, `SpeechOnce`, `SpeechKept`,
`CallOrderly`, `ImplementsTranscript`, and `PromiseKept`, of `CallTranscript`: the
abstract specification is worth implementing. None of the speech invariants is inductive alone. That
a commit is in one place needs to know that a caller carries words exactly
while it is inside `_cancel_turn` or `_fire_pending`; that two settle tasks
never share a turn number needs the numbers above `turnCount` to be unused;
that the count suffices for the commits needs a barge-in in progress to have
taken a commit that is not counted yet. This is `Bookkeeping`, proved with the
types; `OnlyHeard` and `NoSpeechTwice` follow from it together, then
`NoSpeechLost`. One lemma per helper (`CancelTurn`, `FirePending`, `Hold`) says
what it does to the words, so that the actions that call it share it. The
refinement is by the effect of an action on (`Waiting`, `Told`, `heard`,
`run = "up"`): a commit is `Hear`, the end of `user_final` is `Tell`, the hang-up
is `HangUp` with the words of the STT loop that dies, every other action stutters
or is a `Tell` of nothing. Of the parts of `CallOrderly`, words left
without a window (`NothingStranded`) need `Bookkeeping`, the voice's flag keeps by
itself, and that no window outlives the call needs `Stopping`: the STT loop,
which a hang-up may leave alive, is dead before the `finally` of `run()` begins, and
from then on nobody opens a window again.

**VoiceCallsProofs.** `TypeCorrect`, `SlotsHold`, `RowsHold`,
`ConversationsOnlyClose` (`NoWayBack`, which no run repeats). `SlotsHold` counts
the sockets that hold a slot of a process: each action adds or removes one
element of that set or none, which is a fact about cardinality of finite sets
(`SocketsAssumption`), and `Anchored` (a socket anywhere in the endpoint has a
process and a session that was handed out) is what makes `socket[w].on` a
process. The broken handshakes are in that set: what is proved is that the
ceiling is never passed and that no other slot is lost. `RowsHold` rests on
`CalledOrGone`: the row of a session that was called is gone, or a socket with
that session is still in the endpoint, died there or could not delete it.

Of the browser's end, `CallsEndOnce`, `GateIsTheTurn`, `MicrophoneInReach`, from
one invariant, `ClientInv`. Most of it is of one record at a time (`Sound`): the gate
is closed exactly by the server's turn and by the queue of audio, however `done`,
the last chunk and the interruption follow each other; an upload and an end come
after the answer and after the close of the socket. The microphone needs the
rest. A start that has one and met no other (`HasMic`) is the one the button
holds, and its socket is alive (`Reached`); this survives the start of another
because whoever is pending while another begins is no longer `alone`, and
nothing of a start exists before it is reached (`Untouched`, `Alone`).

**TokenDenylistProofs.** `DenylistAccurate`, `RevocationsReachAll`. The second
is the deepest: its inductive invariant says that a snapshot, and an answer on
its way into one, holds everything revoked before it was read and not expired,
with the ages of both bounded by `CacheTTL` and `Slowest`, and that a thread
which found the snapshot fresh answers from one not older.

**AuthSessionsProofs.** `TypeCorrect`, `AnchoredTokens`, `ClosedForGood`. The
inductive invariant has three parts beside the types. `Anchored`: whatever the
cookies and the requests carry was minted, a session not yet opened or not yet
recorded is known to nobody but its login (else its anchor could be somebody
else's, or be denied before it exists), and a refresh about to bind holds what
the anchor holds. `Lasting`: no token outlives a denial of its session that has
not expired; a new denial lasts a full validity and a token minted under one is
not bound, unless the process did not know it yet, and then it is of this tick
and lasts as long. `Sealed`: a closed session is renewed no more, a refresh
between its mint and its check still finds the denial, and every token that may
be honoured has expired or is denied. `Quiet` collects the fifteen steps of a
request that mint and bind nothing, `Moved` what `Lasting` and `Sealed` need to
know of a step; each action is shown to be one of these once.

**RateLimitProofs.** `TypeCorrect`, `NothingIsForgotten`, `ExcessIsBounded`. The
three properties are inductive together once what was told is finite. The excess
is a count: `Shrinks` is the steps after which neither what is counted nor what
is granted has grown, `Grants` a check that finds the bucket below its limit, when
what is granted is at most one for each request, `Moves` a record, which takes from
one count what it adds to the other. `NothingIsForgotten` needs that a record is
dated no later than the clock, which is in the types: its clean-up then removes
nothing that is in the window, and the sweep's cutoff is the longest of all.

**ChatProofs.** `TypeCorrect`, `DoneStays`, `ClosedIsClosed`, `NoDoubleUncut`,
`JudgementsAreWhole`. `Placed`: an exchange is in the conversation its request
says, exactly when that is stored and the conversation exists. `Final`: what a
closed chat holds was said before its end or in flight at it, and a judgement
that was asked for is of a closed chat and, once it has read, has read it whole.
`OneOwner`: a text is in one composer or in one request that may still be told,
and a request that was heard to fail wrote nothing; this is what makes a second
exchange of one text impossible without a cut.

Of the path, `PathTypeCorrect`, `PassedAsFarAsPossible`, `OnlyOneStepIsOpen`,
`NoPassedStepIsTakenBack`, `PassagesAreTold`, for paths of any length. The
inductive invariant is the shape of the rows (`Rows`): the rest is derived of
them, and follows from them state by state. `Achieved` is recursive along the
path, so it is reasoned about by induction on the steps. An induction theorem
with an operator as a parameter cannot be instantiated; `UpTo` is the same
induction over a set of numbers, from the well-foundedness of `<` (`LeastNumber`).
By it the row of moments exists (`ChainExists`), without which a recursive
definition says nothing, and each of its moments is the first at which its step
can be passed after the one before (`FirstMoments`). From there, by the steps
again: the moments come no later than any others that do (`PassedIfPossible`) and
are themselves a way to pass (`PossibleIfPassed`), which is the invariant; who
has passed a step has passed those before it, so the first that is not passed
is the one that is open (`OpenFacts`); and with more proofs each moment comes as
early or earlier (`MomentsOnlyAdvance`). `PassagesAreTold` needs no induction: the
key of a conversation just touched is of this second, and nobody has read it.

**PageSessionProofs.** `TypeCorrect`, `RefreshIsShared`, `CachesAreOwn`,
`NobodyIsThrownOut`. `Shared`: a refresh is under way exactly while something of
its tab waits for it. `Loads`: a page that loads has one question under way and
nothing else. `Cached`: what a cache holds. `Entering`: a login waits alone, in a
tab that shows nobody. `NobodyIsThrownOut` is an action property and rests on one
invariant more, `Renewing`: in a tab that is neither stray nor behind and
whose refresh cookie is its own (`Steady`), the refreshes and the second attempts
carry the cookies of the session it shows (`Own`), so
that a second refusal means that the session was closed.

**SimulationsProofs.** Of the server, `TypeCorrect`, `AttemptsGradedAsAsked`,
`ReviewTells`, `PublicIsRead`, `MarkedTwiceOnlyIfLost`. The first is the deepest:
what a test asked is never stored, and the delivery is graded on rows found again
by their ids. `OneText` says that a write is one text, in the pool, in the
transactions under way, on the page and in every delivery, because a pool is
replaced and never edited in place; what is found by the ids of a delivery is
then what it asked, as `Found` returns as many rows as were asked for, which is
a fact about images and cardinality. `PublicIsRead` rests on `Publication`: a
transaction nobody crossed that loaded a draft still finds one, because whoever
publishes crosses it, so a generated pool that is public was counted.
`MarkedTwiceOnlyIfLost` rests on `OneDelivery`: a delivery no answer of which was
lost is the one the page awaits, or the page has nothing left to hand in.

Of the page, `ScreensInReach`, `StopIsSent`, `VideosOfTheirTests`,
`AnswersReachTheServer`, from one invariant, `RunnerInv`. `VideosOfTheirTests` is
the deepest: a video passes from the page's recorder to the submission that
awaits its file, to the page's own notes, to an upload and to the attempt, and
any of these may be overtaken by a restart, a retry or a new test. The invariant
says of each place that the share there is of the test of the attempt it goes to
(`ClosingSound`, `UploadsSound`, `TapeSound`, `VideosSound`), and that a share
taken by an attempt is no longer the one the page would stop (`RefSound` is
about that one); `Order` says where the page may be, `Prompts` that of two prompts
both are stray. What happens to the shares in a step that neither asks, grants
nor draws is `Settles`, and one lemma (`CalmStep`) carries the invariant over
all the steps of that kind; asking, granting, drawing, the submission heard and
the three ways in which the page lets go of its recorder have their own.

Assumptions, each named in its module: bounds are naturals, positive where the
code's are; `Socket` and `Request` are finite; the buckets of the limiter are
three and no window is longer than `Longest`; a thread is a pair of a process and
a number; sessions and tokens have different names; a path is a sequence of steps
whose scores are naturals, the avatar is no test and `NULL` no number; and the
thirty days of a session's anchor are longer than the clock's bound and an access
token together: the end of the thirty days is outside the model.

Only model-checked: liveness and fairness, which are beyond this prover
(`CallGoesOn`, `RowsGo`, `SlotsComeBack`, `RecordingSettles`, `VideoIsTold`,
`WaitingEnds`).

## Not modelled, and why

* The server's side of a recording's upload (`routers/voice.py:191-358`) and of
  a screen's: one row per conversation or attempt, replaced in one transaction;
  the pages that send them are in `CallClient` and `SimulationRunner`.
* The clock of inactivity and the storage events by which it reaches the other
  tabs; the cache that keeps pages mounted: they only decide when a logout or a
  reading begins, which the models leave to the operator.
* Organizations, suspensions, avatars and their requests, the editors and the
  forms: one transaction per request on rows one person edits at a time. What
  another component sees of them is an action of its module (`SetStatus`,
  `Delete`, `UpdatePath`).
* Retention windows and erasure: deletions by age or by owner, in one
  transaction; their effects on the tables of a model are actions of it.
* Startup migrations and the deployment: SQL and shell whose failures are those
  of Postgres and docker, not of an interleaving in this code.
* Debriefings, drafts, exports, dashboards, reports: texts and readings.
* Prompts, the parsing of a model's answer, the provider adapters: in the models
  a language model answers or fails.
