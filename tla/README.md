# YARP nova in TLA+

YARP nova is a small C++ library of sockets, threads and semaphores over ACE
and YARP (`src/src/`), and the programs of an operating systems course built
on it: a chat server, a multi-player game with its server and client, a
producer and consumer, a telnet client, an echo server, and a socket example.
This directory models the parts of it that are hard to get right, checks them
with TLC on small instances and proves the central results for all instances
with TLAPS.

## The system

### Components, their state and their operations

| part | source | state | operations |
|---|---|---|---|
| arena | `game_server/Game.cpp`, `Things.h`, `Matrix.h`, `Thing.*`, `ID.h` | the board (`game_matrix`), the things by id (`things`, `created`), `game_mutex`, `the_game` | `getGame`, `setMaze`, `newThing`, `killThing`, a turn of `Game::main` |
| player | `game_server/Player.*`, `Login.*` | the id of the player's thing, its replier | connect, go, fire, look, say, shutdown |
| chat server | `chat_server/main.cpp` | `clients[]`, `active`, `map`, `client_ct`, `client_mutex`, a semaphore per client | accept, greet, receive, broadcast, remove, reap |
| game server threads | `game_server/main.cpp` | the same, and a `Player` per thread | the same; a line goes through `Player::apply` |
| line reader | `src/NovaTelnetClient.*` | a buffer of 512 characters, `at`, `len` | `sendText`, `receiveText` |
| sockets | `src/NovaClient.*`, `NovaServer.*`, `NovaStream.h` | an ACE stream, an ACE acceptor | connect, begin, accept, send, receive |
| threads, semaphores, time | `src/NovaThread.*`, `NovaSemaphore.*`, `NovaTime.*` | YARP's | begin, end, isEnding; wait, post, check; sleep |
| producer and consumer | `producer_consumer/main2.cpp` | a ring buffer, three semaphores | insert, remove; start and join both threads |
| socket example | `socker_client_server/main.cpp` | two threads, one connection | send pairs of letters until told to end |
| echo server | `echo_server/main.cpp` | `clients[]`, `active`, the handles of the process | accept, echo, reap |
| telnet client | `telnet_client/main.cpp` | a connection, a semaphore | read and print; prompt and send |
| game client | `game_client/main.cpp` | a connection, a semaphore, shared flags, a ring of four messages | read, look four times a second, keys, stop on a signal |

### How they interact

A server's main thread waits in `accept` with a fresh `ClientThread` and
starts its thread when a peer connects. A client thread registers itself,
greets its peer, and then handles a line at a time until `receiveText` returns
NULL. In the chat server a line is sent to everyone registered, with
`client_mutex` held and the semaphore of each target taken in turn. In the
game server a line is a command for the thread's `Player`, run with
`game_mutex` held; replies and broadcasts happen inside, so that a `say` holds
`game_mutex`, the player's semaphore, `client_mutex` and a client's semaphore
at once. The game thread takes `game_mutex` four times a second and moves the
things.

The clients talk to these servers: the telnet client to the echo server (port
9999 of its own host), the game client to the game server (port 8080). In each
a thread reads what comes while another sends what the user types, and one
semaphore keeps their use of the terminal and of the connection apart.

### What is hard

* Interleaving: the accepting thread reads `active` and deletes clients
  without the lock under which they are used; a thread is reaped while it
  still holds that lock; a greeting and a broadcast write to one peer.
* Order: a turn visits the things in hash order, each moving at once; two
  broadcasts, a login and a logout meet.
* Stale values: ids are reused at once; `killThing` trusts `getThing`.
* Blocking: a peer that does not read blocks who writes to it, and with it
  every lock that thread holds.
* Delivery: a stream cut up anywhere, with lines longer than the buffer.
* Starting: a thread that begins in the constructor of an object nobody can
  find yet; an accept or a connect that fails unnoticed.
* Ending: joining a thread that may wait for one that is gone, and leaving
  without joining it; connections that nobody closes.

`PROJECT.json` lists these as hazards, each at its line with the properties
that watch it.

## The modules

| module | models | EXTENDS or uses |
|---|---|---|
| `Grid` | directions, and the cell some steps ahead | |
| `Arena` | what players are promised: bodies in a walled room that move, shoot, die and leave | `Grid` |
| `GameWorld` | the arena as it is coded: ids, maps, board, lock, turns | `Grid`; implements `Arena` |
| `Look` | what a player is shown of the arena | extends `GameWorld` |
| `Commands` | the splitting of a line, the replies, what a say says | |
| `MCGameWorld` | a small room | |
| `GameWorldProofs` | theorems, also about `Arena` and `Look` | |
| `Chatroom` | what chatters are promised: one line at a time, heard by all | |
| `ChatServer` | the chat server's threads, slots, map and locks | implements `Chatroom` |
| `ChatServerProofs` | theorems | |
| `GameServer` | the game server's threads and the locks they nest | implements `Chatroom` |
| `GameServerProofs` | theorems | |
| `Channel` | a bounded queue of consecutive numbers | |
| `ProducerConsumer` | ring buffer, semaphores, the two threads and `main` | implements `Channel` |
| `ProducerConsumerProofs` | theorems | |
| `SocketExample` | a server, a client, their connection, and `main` | |
| `EchoServer` | the echo server: slots, threads, handles | |
| `TelnetSession`, `MCTelnetSession` | telnet clients and the echo server they talk to | extends `EchoServer` |
| `TelnetSessionProofs` | theorems | |
| `GameClient` | the game client's threads and their session with the game server | |
| `GameClientProofs` | theorems | |
| `GameStart` | how the game is built and the game server starts | |
| `GameStartProofs` | theorems | |
| `TelnetLine`, `MCTelnetLine` | `receiveText` and the stream it reads | |
| `StreamProofs` | theorems about `TelnetLine`, `Commands` and `SocketExample`, a section for each | |

### GameWorld

`things` is the map of that name (the map `created` always has the same keys,
so one variable stands for both); `game_matrix`, `game_mutex` and `base_id`
are the code's. A command runs from `game.wait()` to `game.post()` on one
thread, so it is one action whose guard includes that the lock is free:
`Connect`, `Move`, `Fire`. A logout is two: `Shutdown`, where
`Login::shutdown` takes the lock in `killThing`, and `Forget`, where `base_id`
and `id` become -1 behind the post. A player in between is `leaving`, holds an
id that another login may have by then, and no longer `plays`. A turn is not one action: the game thread holds the lock,
but the order of its walk is the hash map's, so `BeginTurn` puts the keys in
`todo`, `UpdateThing` visits any of them, and `EndTurn` releases the lock.
Inside the turn every write of `Thing::applyMove` (clear the old cell, write
the new one, drop the request) is part of the one action. Lives are counted in
the thousands that `look` shows. Not in the model: transient marks and energy;
replies are in `Commands`. `Look` adds what `Player::look` computes from this
state, as operators.

`Arena` knows players, places, lives and the step each has asked for. The
refinement maps who plays to the place, life and step of its thing, and who
does not to `Nowhere`: a logout is seen at `killThing`, `Forget` is a stutter.

### Commands

`step` is one turn of the loop in `Player::apply(const char*)`, and `reading`
what the loop has made of a line up to each character; `wordsIn` says
independently what words are (printed characters with no space between them),
and the two are compared. Both are recursive functions or sets in order,
rather than folds and sorts of the community modules, because those hide what
they compute from the prover. `dispatch` is the switch, with the replies and with what a say makes
of its words, for a player who is out, alive or dead.

### ChatServer

A slot of `clients[]` and the thread of its `ClientThread` share a name. `pc`
follows the thread through `addClient`, the greeting, `receiveText`,
`broadcast`, `removeClient` and the end of `main`. Every point at which the
thread can be overtaken is a label: between the two sends of `sendText`,
between two clients of a broadcast, between `removeClient` and the assignment
to `active`, and between that assignment and `client_mutex.post()` (`leaving`,
which outlives the slot, because the acceptor may reap and refill it by then).
The acceptor is `Scan`, one slot of its loop at a time, `Activate` and
`Accept`. A peer may stop reading (`stalled`), and then every send to it
blocks. `receiveText` returns any line or NULL at any time; what makes it do
so is in `TelnetLine`.

The refinement: members of the room are the keys of `map`, the line said is
the line of the thread that holds `client_mutex` for a broadcast, and those
waiting are the clients the broadcast has yet to finish with.

### GameServer

The threads of `game_server/main.cpp`, coarser than in `ChatServer` where they
are alike (a line is one send) and finer where they differ: `holds` is the
stack of locks of each thread. `BeginCommand` takes `game_mutex`, as
`Player::apply` does before it looks at the command; `Reply` takes
`Player::mutex` and then `ClientThread::mutex`, the send itself is `Replied`,
and a say takes `Player::mutex`, `client_mutex` and the mutex of one client
after another. `wants` says what a thread waits for where it is, so that the
actions and the statements about waiting read it from one place. A critical
section in which nothing can block (registering, setting the replier,
`active`) is one step with the lock free. What a command does to the arena is
one action of `GameWorld`, here it is the number of lines it answers.

### ProducerConsumer

`pc` follows the threads through wait, lock, insert or remove, unlock, post
and sleep. A second may pass at any moment, so that every thread may be as
slow as it likes. The history variable `late` remembers whether a second ever
passed while a thread had a step to take; only `QuitTerminates`, which depends
on the code's sleeps of 1, 1 and 2 seconds, looks at it.

### SocketExample

The loops of both threads, with a label at every call that may block or fail.
The sleeps are left out: any thread may be slow. `ReceivePair` gets one character
or two. `NovaServer::begin` fails at will, but not for ever.

### EchoServer and TelnetSession

`EchoServer` is the accepting thread (`Begin`, one slot of its loop at a time
in `Scan`, `Accept`) and a thread per slot (`Receive`, `Echo`, and `GiveUp`
when `receiveText` returns NULL). `backlog` is what the kernel holds for
`accept`, and `handles` what the process may still open: deleting a
`ClientThread` closes nothing, so the number only falls, and an `Accept`
without one begins a thread without a connection. `TelnetSession` puts any
number of telnet clients at the other ends: `Start`, `Type`, `Lock`, `Send`
and `Quit` are the prompt, `Connect`, `Hear` and `Show` the reader, `Exit` the
end of the process, at any time. `Connect` ends with the test of `isEnding`
at the head of the reader's loop. A line is a number; a connection takes
`Capacity` of them in each direction, and who sends waits for room.

### GameClient

`pc` has the three threads, `main`, `receiver` (`ClientThread`) and `updater`.
Whatever a thread sends goes through `Wait`, `SendText` and `SendEol`; the
server reads what stands before an end of line as one command, or as nonsense
if it is more than one. `Key` is one turn of the switch, with the `mode` of a
half-typed arrow. The server's side is as much of `game_server/` as a session
shows: a greeting, an answer to each command, what others say, and the end. An
answer to `look`, some twenty lines in the code, is one here. An order may get
no answer (`Ignore`): the dead are told nothing, nor is who fires before a
first step. A broadcast may overtake the greeting, since `addClient` enters
the client in the map first. `late` is as in
`ProducerConsumer`, in quarters of a second.

### GameStart

`making` is for each thread the stack of constructors it is in, because
`getGame` may run inside itself: a thing that is placed or moved calls it.
`ReadLine` takes a line of the maze, which is walls, empty, has a digit, or is
one that `getline` fails on for ever. `Begin` starts the game thread, `Assign`
sets `the_game` a step later, `Update` is the one update `main` makes without
the lock, and `Serve` the begin of the server or the exit. The commands of
clients are there as far as they call `getGame` and make things.

### TelnetLine

A call is `Call` (the memmove), `Scan`, `Receive` and `Cut` (the last pass),
with `at`, `len` and the buffer as in the code. The peer writes whole lines
ended by LF or CR LF; `Receive` takes any number of characters that is on the
wire and fits. `ReceiveFails` is the time running out, whatever is on the way,
in the middle of a line too, or a connection reset: the call returns NULL and
keeps the part of a line it has. In the repository every caller takes the
default timeout of -1; the model has all that the parameter allows. A text is what a C program sees up to the first NUL.

## Runs

| run | question | bounds |
|---|---|---|
| `GameWorld` | do board, maps, logins and look agree at every step, does the code keep the promise of `Arena`, that bodies are apart and the dead stay dead? | 3 players, 3 ids, a T of 4 free cells and 2 of wall, 2 lives, range 3 |
| `GameWorld_turns` | is every requested step taken up? | the same |
| `ChatServer` | do locks exclude, is no deleted client used, are lines whole, is it a `Chatroom`, is `client_mutex` always given back? | 2 slots, a greeting of 2 lines, 2 texts |
| `GameServer` | do four nested locks ever close a circle, is an answer whole, is a say heard by all, is `game_mutex` always given back? | 2 slots, a greeting of 2 lines, answers of up to 2, 1 text |
| `ProducerConsumer` | are semaphores and ring a bounded channel, at any speed, and does the program end when told to? | 3 cells, 5 numbers |
| `Commands` | are lines split as they were typed, can a say be read back, who is told of a login? | lines of up to 5 characters of 8 kinds; 2 words, of 3 characters, 5 characters said |
| `SocketExample` | do pairs come in order, and does the program end? | 4 letters, 6 characters on the way |
| `TelnetLine` | are lines whole and in order, is NULL explained, and does a caller that goes on hear everything? | buffer of 5, 3 lines of 0, 1, 2 or 5 characters, CR LF or LF |
| `TelnetSession` | is every line sent somewhere, in order; is who waits served; is every line printed? | 2 clients, who type 5 lines and 1; 1 slot, 1 or 2 handles, 1 line of room each way |
| `GameClient` | do the commands of three threads stay whole, does `q` stop them in order, is the arena shown? | 2 lines of room each way |
| `GameStart` | is one game made, does nothing move without the lock, does the server start? | mazes of up to 3 lines, 2 games, 2 clients, 2 things |
| `TelnetLine_timeout` | is a negative timeout for ever? (violated) | 1 line |

Why the bounds are enough. Three players are needed for one to stand between
two others; two lives separate a wound from a death; the T has a cell all
compete for, a row to shoot along, and walls to run into; one of them leaves,
another takes its id while it still holds it, and the third looks on. In the chat server
two slots allow a broadcast to one client while another slot is left, reaped
and filled again, and what holds of two is proved of any number; two greeting
lines leave one between the first and the last. The ring of three wraps at
both ends while the other pointer is anywhere, and five numbers do not repeat
within it. A buffer of five holds two short lines or one line and the start of
another, and the long line fills it. One slot makes the second telnet client
wait for it, one handle makes it wait in vain, and five lines are as many as
there is room for on the way round and in everyone's hands. With room for two
lines the game client and its server can block each other, and do (`jammed`).
Three lines let a maze be good, bad, and both before and after something else;
in GameStart `MaxGames` cuts off the recursion a digit starts, which the stack
ends in the code. The instances are finite without a state constraint, but for
`MaxLines` and `MaxThings`; in `GameWorld`, `Cells` bounds the plane: `Move`
refuses to ask for a cell outside it, which the code, with an unbounded board,
does not.

Every module states its types in `TypeOK` (`CommandTypeOK`, `SocketTypeOK`), and each is
proved with the inductive invariant of its module; in `GameWorld` and
`ChatServer` it is also checked by their runs, as a part of `IInv`. That of
the echo server is proved with `TelnetSession`'s, that of `Chatroom` in
`ChatServerProofs` (`RoomTypeCorrect`).

Five runs do not look for deadlock: the producer and consumer, the socket
example and the game client come to their end; in `TelnetSession` the server
is left waiting for connections nobody makes; in `GameStart` a bad maze is
never read to its end.

### Fairness

`GameWorld!FairSpec`: the game thread loops for ever and its sleep ends;
players owe nothing. `ChatServer!FairSpec`: threads run, a peer that stalled
drains some day, and a send that is possible again and again happens (strong
fairness: the kernel takes what fits as soon as there is room). No peer owes a
line or a connection, and no semaphore is assumed to be first come, first
served; so it is shown that the lock is given back each time, not that a given
thread gets it. `GameServer!FairSpec` asks more of the locks:
`ClientThread::mutex` is free again and again, and whoever holds `game_mutex`
and waits for it must get it some day, so the semaphores may starve nobody
(strong fairness of `Work`). `ProducerConsumer!FairSpec`: each thread and the
clock go on; the user owes no answer; how late a thread may be is not a matter
of fairness but of `late`. `TelnetLine!FairSpec`: the caller calls again
whatever it got, as `telnet_client` and `game_client` do and the servers do
not; `Receive` is strongly fair, because calls that time out come and go while
what was written waits for one that does not. `TelnetSession!FairSpec`: the server's threads, the reader, and a prompt
that has a line to send, go on; `Hear` is strongly fair because a line cut
between CR and LF is there in full at the next call. `GameClient!FairSpec`:
the threads, the server and the clock go on, with strong fairness where a
semaphore, which starves nobody, or a call that may return NULL in between
stands in the way. Users type nothing they do not want to.
`GameStart!FairSpec`: `main` runs.

### What the runs show

* A logout never changes the map under the game thread's iterator, though it
  is run by another thread: `killThing` takes `game_mutex`.
* A player forgets its id only when somebody else may have it already. That
  is harmless because `Player::shutdown` is called once: a second call in that
  moment would kill another's thing (the mutant of `OneThingPerPlayer`).
* A dead player's last request is still carried out: `update` does not look at
  `isAlive`. `DeathIsFinal`, of `Arena` and `GameWorld`, states exactly this: at most one more step.
* `runServer` reads `active` without the lock and yet never deletes a client
  in use: `active` is cleared only after `removeClient`, and by the thread
  itself.
* The text of a line and its end are two sends, but the client's semaphore
  keeps greetings and broadcasts from mixing.
* In the game server every thread takes its locks in one order, `game_mutex`,
  `Player::mutex`, `client_mutex`, `ClientThread::mutex` (`LocksAscend`), so
  that nobody waits in a circle (`NoCircularWait`). `killThing` stays out of
  it: it is called after the last command, when its thread holds nothing.
* A look is many sends and nothing said by others comes in between, but only
  `game_mutex` prevents it: the other locks are given back after each line.
* `RoomIsFreed` and `GameGoesOn` need peers that read again. Without `Drain`
  one peer keeps `client_mutex`, and in the game server the whole game, taken
  for ever.
* Quitting the producer and consumer depends on the sleeps: the mutant with a
  slow producer leaves the consumer waiting in `full.wait()` and `main` in
  `c.end()`.
* `receiveText` returns NULL, which the servers take for the end, when a piece
  ends between CR and LF, a line fills the buffer, the connection fails or the
  time is up; what it has of a line is not lost for a caller that calls again (`NullIsExplained`, `EverythingIsHeard`).
* `PROTOCOL.TXT` has every `go` answered with `@move requested`; the dead get
  no answer (`Commands!dispatch`). It has `<text>` broadcast; words beyond the
  eighth and the ends of long ones are dropped, and runs of spaces become one.
* Nothing closes a connection. `NovaClient.h` says of the destructor "Shuts
  the connection down", but it deletes a helper whose `close()` is never
  called, and that of an ACE stream does not close. After as many sessions as
  there are handles the echo server accepts nobody, though its slots are free:
  `WaitingIsServed` has to except it. The chat and game servers delete clients
  the same way.
* The semaphore of the telnet client starts at 0 and that is what keeps lines
  typed too early; with 1 they are sent to no connection and lost (the mutant
  of `NothingIsLost`).
* The telnet client holds its semaphore while it waits for room, and its
  reader needs it to print: with both directions full, client and echo server
  wait for each other for ever (`jammed` in `Answered`). The game client can
  do the same to itself, if slower, since its receiver answers what it reads.
* `game_client` sets `stop` as the handler of SIGINT and SIGTERM, and then
  calls `NovaInit::init`, which puts its own in place: an interrupted client
  exits at once (`Interrupt`).
* `stop()` joins nobody. It is orderly because the updater, told a second
  after the receiver, makes the server send what wakes it (`StopIsOrderly`);
  told in the other order, or to one who never entered the game, it is not.
* The game starts only because the arena is empty: the game thread begins
  before `the_game` is assigned and `main` updates without the lock, but
  neither has a thing to move (`OneGame`). A digit in the maze, for which
  `setMaze` has code, would build games until the stack is full, and a line of
  2000 characters or no file at all keeps it reading for ever (`Starts` names
  the mazes that are read).
* The socket example ends only if its server listened before the client came,
  for which `main` trusts a sleep, and if no pair is cut on the way: after a
  single character the server starts over and waits for a client that never
  comes (`ProgramEnds` names both conditions).
* `NovaClient.h` says of a timeout that "negative means forever"; the code
  waits for ever from -0.5 down only (`TelnetLine_timeout`).

## Proofs

All theorems are proved from the named assumptions of the modules, and no
others. They hold for any instance these admit:

| assumption | admits |
|---|---|
| `WorldAssumption` | any players, any maze, any range of ids, any number of lives |
| `LookAssumption` | any window |
| `ChatAssumption`, `ServerAssumption` | any number of slots, lines of greeting and texts; a longest answer of two lines or more |
| `BufferAssumption` | a ring of any size, numbers that do not repeat within it |
| `EchoAssumption`, `SessionAssumption` | any clients, slots, handles, any capacity, any number of lines typed |
| `ClientAssumption` | a connection of any capacity |
| `StartAssumption` | any maze, any clients, any number of games and things |
| `TelnetAssumption` | a buffer of any size, any texts of any characters but CR, LF and NUL, which are three |
| `CommandAssumption` | any limits (a word of one character or more), any characters; a space is no control character |
| `SocketAssumption` | any number of letters, a connection that holds a pair |

In each module `InvariantsHold` is the inductive invariant `IInv`, and the
theorems a reader should know are drawn from it. TLC has checked each `IInv`
on small instances before it was proved.

`GameWorldProofs`. The six invariants are inductive only together: that a move
writes the cell it should needs `BoardMatchesThings`; that a logout clears no
wall needs `OneThingPerPlayer`, since `getThing` of a stale id would yield
`null_thing`; that a shot hits a thing needs both. All three speak of who
`plays`: of who is leaving nothing is known but that it still holds some id. Each is proved of each
action in a lemma of its own. `WalkIsSafe` follows from the guards under
`game_mutex`. `GameImplementsArena` maps every command and every visited thing
to one step of `Arena`, the begin and the end of a turn to none. What `Arena`
promises is proved of `Arena` first: its types and `OneBodyPerCell` are
inductive together (`ArenaStaysSound`), and its `DeathIsFinal` follows from
them. The refinement then carries both over to the game (`BodiesAreApart`,
`DeadStayDead`), where nothing more is to be proved of `Board` or `things`.

The same module proves `LookTellsTheTruth`. `LookIsTrue` is no invariant of
its own but a consequence of the others: a cell shows nothing, a wall or the id of a player
that stands there (`CellShows`), and a player's id is on the board where its
body is (`BodyOnBoard`).

`ChatServerProofs`. `NoDeletedClient`, `CountMatches` and `OneHolder` are not
inductive without `JobsFit`, which ties a thread's variables to where it is:
whoever sends is greeting itself or broadcasting to members that are still in
the map, a text on the wire has a sender about to end its line, and the
acceptor works on a slot no thread runs in. `LinesStayWhole` and
`ChatImplementsRoom` follow from the invariant.

`GameServerProofs`. `HoldsFit` says which locks a thread holds where it is,
bottom first (`stack`); with it and `OneHolder` `LocksAscend` is a matter of
comparing ranks. `NobodyWaitsInACircle` follows for circles of any length: if
everyone in a set waited for one of the set, someone in it would hold a lock
of each rank, and then one above the highest. `AnswersStayWhole` follows from
`OneHolder` at `game_mutex`. `CountMatches`, `SlotsFit` and `JobsFit` are what
the refinement needs: a say goes through clients that are in the room, and a
thread that joins has heard nothing yet. `ServerImplementsChatroom` maps the step that
hands a line to the arena, and each client that has it, to those of
`Chatroom`, and every step on a lock to none.

`ProducerConsumerProofs`. `SlotsAreConserved` is nearly inductive: it needs
the types (a count cannot fall below zero) and the order in which the workers
begin. `BufferImplementsChannel` needs `PointersFit`: `write_ptr` is `read_ptr`
plus what is held, modulo the size (`PointersKeepTheirDistance`). That the cells in between hold consecutive
numbers is not in it; the refinement reads the items off the cells, and an
insert changes none of them since the cell it writes is not among them. The
wrapping of pointers is one lemma (`Wrap`).

`TelnetSessionProofs`. `NothingIsLost` adds up a client's lines along the way
they take: printed, in the reader's hand, on the way back, in the server's
hand, on the way there. Each step moves one line from one stretch to the next,
and that the sum is kept is a lemma on sequences. It needs `ServedOnce`, or
two threads could have a line of one client in hand; `TextFits`, so that a
thread has a line only while it has a peer; `OnlyConnected`, so that nothing is
under way for a client that never connected; and `Gated`, which is what the
semaphore that starts at 0 is for: until the reader has connected, `main` can
have typed one line and sent none. `TypeCorrect` includes that the semaphore
never counts above one.

`GameClientProofs`. `CommandsStayWhole` rests on `OneSends` (the semaphore is
taken exactly while one thread is between its wait and its post) and
`WireFits` (between its two sends there is its text on the wire and nothing
else). `StopEndsTheReceiver` is an argument about time, which the invariant
follows quarter by quarter: `LookComes` (one quarter after the receiver was
told, the updater is about to look or its look is under way, or the receiver
has something to read), `ReceiverWoken` (another quarter later the receiver
waits no more, unless the server refused the player) and `SessionOver` (what
is left when `main` returns; with both directions full the session is over
only while the server takes nothing either, `stuck`, since an order it ignores
needs no room). They hold while nobody is `late`, since then
nobody had a step to take when time passed (`QuietTick`); `LoginComes` is there
because a player who was greeted but is not in the game yet gets no answer to
a look, and does not stay so.

`GameStartProofs`. `OneGameIsMade` needs two pictures. Without a digit in the
maze `main` goes straight through one constructor (`MainFits`), nobody but the
thread of that game and, once the server runs, clients can be anywhere
(`OthersFit`), there is nothing to move before (`NothingToMove`: `main` walks
over no things, without the lock) and who is inside `game_mutex` holds it
(`HoldersFit`). With a digit `main` never gets behind the first one
(`DigitRecurs`): `getGame` makes another game, which reads the maze from its
start, so no game thread ever begins and nothing is ever moved.

`StreamProofs`, on `TelnetLine`. The invariant looks at the stream as a whole:
what is in the buffer behind `at`, followed by what is on the wire, is the
lines sent and not yet returned, each with its end (`Framed`). A pass of `receiveText` moves the border between them and takes
one line off the front; that the line it takes is the peer's is because the
first LF or CR LF of the stream is where the first line ends, which is where
the assumption that texts hold no line end comes in. `NullIsExplained` follows
from what the call has seen when it gives up.

On `Commands`. What a line is split into is proved for every line by induction
over it. Two facts are kept up, character by character. `Reads` says what
becomes of `wordsIn` when a character is added: a printed one starts a word or
joins the last, a space ends it, the rest change nothing. `Keeps` says what
`step` has of those words: the first `MAX_ARG_CT` that are done, cut, and the
one that is not, up to where its array ends. At the NUL they say
`SplitIsWhatWasTyped`, for lines of any length, and `WordsAreAsTyped` is an
instance. `SaysAreHeard` uses `Reads` once more, for the text that `saying`
puts together: a space and a word behind any text add that word to what is
read (`OneMoreWord`). That reading is a function at all (the recursion has a
solution) is a lemma, `ReadingIs`. The library's induction theorems have a
predicate for a parameter, which the provers here cannot instantiate, so `Induct`
states induction for a set of numbers instead; it rests on the theorem that
`<` on `Nat` is well-founded.

On `SocketExample`. `SocketIInv` holds until a pair is cut on the way: what
the connection holds is whole pairs, ends at the letter the client is at and
begins where the server is. After half a pair the server starts over, waits
for a client that never comes, and takes nothing more.

Only model-checked are the liveness properties (`MoveIsTakenUp`,
`RoomIsFreed`, `GameGoesOn`, `QuitTerminates`, `EverythingIsHeard`,
`ProgramEnds`, `WaitingIsServed`, `Answered`, `ArenaIsShown`, `Starts`): they
need fairness, and with it `ENABLED`, which the prover does not do. Every
invariant and every action property the runs check is proved.

## Not modelled, and the plan

* The terminal (`simio`), build files and the exercise skeleton
  `producer_consumer/main.cpp` keep no state of interest; of `NovaInit` only
  the signal handler matters to others.
* The hand-run tests of `src/main.cpp`: the one that is not commented out is
  the echo server again.
* The marks of shots (`DMatrix.h`), drawn for half a second and read by `look`
  only, and `Msg` of the game client, which is displayed or sent on as text.
* `Game::save`, `load`, `newThing(false)`, `NovaSemaphore::check`,
  `NovaThread::end` with a grace period and `NovaClientHelper::close`: no
  program calls them.
* What happens between `~GameDown` and the end of the process, when the game
  thread may use a game that is deleted: it is undefined.
