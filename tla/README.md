# School-meals: a TLA+ model of the server and its client

School-meals is a Windows client/server program in C. A console client talks
to a threaded TCP server, which keeps accounts in SQLite and asks the NEIS web
service for school meals. The modules here model the parts of it in which
things happen concurrently, late, in pieces or not at all, and the sequential
parts whose data have edges; TLC checks them on small instances, and TLAPS
proves the main properties for all instances.

Paths below are relative to `src/`. Only what the two Makefiles build is the
program: `server/{server,db_handler,network,server_handler,neis_api}.c` and
`client/{client,network,menu,handlers,menu_general,menu_parent,input_util}.c`.
`server/server_main.c`, `client/client_main.c` and `client/main.c` are earlier
versions that nothing builds, `client/menu_parent.c` is commented out, and no
function of `server/server_handler.c` is called.

## 1. Inventory

| Component | State | Operations | Talks to |
|---|---|---|---|
| Connection pool (`server.c` `main`, ends of `handle_client`) | `running`, `client_sockets[10]`, `clients_mutex`, one thread per connection | accept, store in a slot, refuse, create thread, undo a failed creation, leave, SIGINT, shutdown scan, clean up | clients by TCP, handlers by the slot table |
| Request handling (`handle_client`, `handle_register_general`) | local variables of one request | LOGIN, REGISTER_GENERAL, UPDATE, DELETE, GET_CHILDREN, ADD_CHILD, DEL_CHILD, CHILD_MEAL, CHILD_MULTI_MEAL, GET_MEAL, GET_MULTI_MEAL | database, NEIS, one client |
| Wire format (`handlers.c`, `server.c:64-98`) | one text | build a request, `strtok`, test of the parameters, answer, read the answer | both sides |
| Database (`db_handler.c`) | one shared SQLite connection behind a static pointer; tables `users`, `children`, `meals` | one function per statement; `init_db`, `close_db` | all handlers, `main` |
| NEIS client (`neis_api.c`) | none | school lookup, meal of a day, meals of a period, text of a menu | web service through curl, without a timeout |
| Client session (`client.c`, `menu*.c`, `handlers.c`) | `current_user_id`, `_role`, `_edu_office`, `_school` | login, registration, meals, add/change/delete users, logout, exit | server |
| Client connection (`network.c`) | bytes in the TCP stream | `send_data`, `receive_response` with a five-second wait | server |
| Client input (`input_util.c`, the reading parts of `menu*.c`) | what is left on stdin | `scanf`, `getchar`, `fgets`, `safe_input`; tests of ids, passwords, dates, periods | the user |
| Start-up and end (`main` of both programs, `init_db`) | mutex, Winsock, database, socket; the database file | acquire step by step, unwind | the operating system |

What is hard about each of them, and what makes it correct:

* **Pool.** A socket handle is a number the system uses again as soon as it is
  closed. A handler finds its own slot by that number, is given the address of
  the slot, and reads it without the lock; `main` resets a slot and scans all
  of them without the lock. Correct means: a handler serves its own connection,
  no slot and no handle is lost, nobody is refused while there is room, the
  shutdown closes everything, a client that hangs up makes room, and a handler
  that hangs costs one slot.
* **Requests.** A request is several SQL statements, and other handlers run in
  between: check-then-insert in REGISTER_GENERAL and ADD_CHILD, check-then-read
  in LOGIN and CHILD_MEAL. Statements may fail, and the process may end between
  a statement and the answer. Correct means: what clients see can be explained
  by requests that take effect one at a time; a request is answered once; the
  tables stay consistent.
* **Shared database connection.** `main` closes it without waiting for handlers.
  Correct means: no client is told of a failure that is only the server's end.
  That nobody prepares a statement on a connection that is freed is more than the
  code keeps (section 3).
* **Client.** Answers do not say what they answer. Correct means: the answer
  that is taken is the one to the latest request, a session is one the server
  has granted, waiting ends.
* **Input.** Five ways of reading share stdin, and what one leaves is what the
  next one gets. Correct means: a line is read by the prompt it was typed for.
* **Wire.** Parameters are positional and `strtok` drops empty ones. Correct
  means: the server acts on what was meant, or refuses.
* **Calendar, NEIS, menus.** Two different ways of counting days; ten places at
  which a call can be left; a text split by a set of characters. Correct means:
  at most seven real days are asked for, everything is freed once, a plain menu
  that fits into the buffers is shown as it was sent.
* **Start-up.** Any step can fail when some are done, and the process may be
  killed between the tables. Correct means: what was acquired is released once,
  and the next start completes what the last one left.

The list `hazards` in `PROJECT.json` has every such place with its line.

## 2. Modules

| Module | What it is |
|---|---|
| `ConnectionPool` | accept loop, slots, threads, shutdown |
| `StuckHandlers` | the pool when some handlers never come back from NEIS |
| `AdmissionControl` | ABSTRACT: a room with `MaxClients` seats |
| `PoolAdmission` | the refinement mapping from the pool to the room |
| `SchoolServer` | the pool composed with the shared database connection and `close_db` |
| `AccountData` | the tables, requests and answers that the next two share |
| `AccountService` | ABSTRACT: what the server promises about accounts and links |
| `RequestServer` | the handlers as sequences of SQL statements; implements `AccountService` |
| `ClientSession` | the client, the connection in both directions, and `AccountService` at the other end |
| `Calendar` | the calendar functions of both sides, and the Gregorian calendar |
| `MealQuery` | a meal query from the typed date to the question to NEIS, on top of `Calendar` |
| `Texts` | how texts are put together from parts and taken apart by `strtok` |
| `Wire` | one request and its answer as text, on top of `Texts` |
| `Console` | the client's prompts and how they read stdin |
| `MenuText` | the text of a day's menu as functions on sequences of characters, on top of `Texts` |
| `NeisMeals` | the calls of NEIS with their decisions and allocations, on top of `MenuText` |
| `Startup` | the beginning and the end of both programs, and the database file |
| `MCPoolAdmission`, `MCSchoolServer`, `MCRequestServer`, `MCClientSession`, `MCOneUser` | instances for TLC |
| `ConnectionPoolProofs` | proofs about `ConnectionPool`, `PoolAdmission` and `SchoolServer` |
| `RequestServerProofs` | proofs about `RequestServer` and its refinement of `AccountService` |
| `ClientSessionProofs`, `StartupProofs` | proofs about `ClientSession` and `Startup` |
| `ClientInputProofs` | proofs about `Console`, `Calendar` and `MealQuery` |
| `TextProofs`, `WireProofs`, `NeisMealsProofs` | what the operators of `Texts` do for every text, and with it the proofs about `Wire`, `MenuText` and `NeisMeals` |

How they fit together:

    AdmissionControl                      AccountService
          ^ implements                      ^ implements     ^ at the other end of
    ConnectionPool                        RequestServer    ClientSession
          ^ extends      ^ extends
    SchoolServer    StuckHandlers         Calendar <- MealQuery

    Texts <- MenuText <- NeisMeals        Console
    Texts <- Wire

Definitions whose comment says WRONG are plausible mistakes in one action.
They are in no specification; exchanging the action for one of them must make
a property fail, which shows that the property says something about the code.

### 2.1 ConnectionPool, StuckHandlers, AdmissionControl

The atomic steps are the critical sections of `clients_mutex` and every access
made outside of it:

| Code | Action |
|---|---|
| `while (running)`, `accept` (`server.c:598-609`) | `CheckRunning`, `Accept`, `AcceptFails` |
| store under the mutex (614-624), full (626-631) | `Store`, `Reject` |
| `CreateThread`, its failure (634-640) | `CreateThread`, `CreateFails`, `Abandon` (close), `Unslot` (reset, no lock) |
| shutdown loop (648-654) | `ScanTest`, `ScanLoad`, `ScanClose` |
| end of `main` (656-661) | `Cleanup`, `DeleteMutex`, `ReturnFromMain` |
| `handle_client` (29-45) | `Start` (load through the pointer), `CheckLoop`, `RecvRequest`, `RecvEnd`, `Serve`, `ServeCrashes` |
| leaving (440-453) | `Clear` under the mutex, `ClearCrashes`, `Close` |
| `signal_handler`; clients | `SigInt`; `Connect`, `HangUp` |

`peer` says which connection is behind an open handle, and `owner` which
connection a thread was created for: two histories that the code does not have,
needed to say whose connection a handler serves. `Accept` may return any handle
that is not open, so a closed one is reused at once. A critical section on a
deleted mutex, and a statement on a closed database, are undefined; the model
lets them work or end the process. While `main` cleans up, a `recv` or
`close_socket` on a handle that is closed already fails and changes nothing.

`StuckHandlers` has the same actions and a weaker fairness: the threads in
`Stuck` need not finish a request, as curl is called without a timeout.

`AdmissionControl` is what all of this is for: connections wait, one stands at
the door, is told whether there is a seat, sits down and has its requests worked
on. In `PoolAdmission` a seat is taken from `CreateThread` to `Clear`, the door is
the handle `main` has in its hands, and the verdict is `mainPc`. The room is
closed when `main` leaves the accept loop.

### 2.2 SchoolServer

The pool's actions, with `Serve` taken apart into what a request does with the
static pointer `db`: `LoadDb` (no lock), `Prepare` or `PrepareFails`, `Finalize`,
another statement or `Reply`. `TestDb`, `CloseConnection` and `ResetPointer` are
`close_db` (`db_handler.c:85-90`), which `main` calls between `Cleanup` and
`DeleteMutex`. SQLite is taken by its contract: a connection with a statement
that is not finalized is not closed (SQLITE_BUSY, a result that `close_db`
ignores), and a NULL connection is SQLITE_MISUSE. A handler may prepare a
statement on a connection that has been closed under it; that fails
(`PrepareFails`) or ends the process (`PrepareCrashes`). `misled` is a history: the
connections that were told of a failure whose reason was the missing database.

### 2.3 AccountData, AccountService, RequestServer

`RequestServer` has one action per database function, named like it; `pc[h]` is
the function that handler `h` calls next. SQLite serialises statements on the
shared connection, so a statement is atomic, and between two statements anybody
may run. Keys and foreign keys are those of `init_db`; `PRAGMA foreign_keys` is
what keeps `DELETE` from leaving links behind. `Restart` ends the process at
any moment; the tables stay. The answer is sent in a step of its own, in two
places as in the code: `send_response` from `handle_client`, and
`inner_send_response` from `handle_register_general`.

`AccountService` is the promise: a request has one instant at which it takes
effect, and its answer tells what was true then. It is weaker than one would
wish where the code is: UPDATE and DELETE of an id that does not exist say OK;
LOGIN and CHILD_MEAL check at one instant and read at a later one; a
registration may end without an answer. GET_CHILDREN always answers `DB_ERROR`,
because its SELECT names the column `id`, which the table `children` does not
have (`db_handler.c:182`).

The texts of an account have no quotes and are shorter than the buffers. `add_user` puts
them into its INSERT with `snprintf` and `'%s'` (`db_handler.c:123-128`), which a quote
would turn into another statement, or into several; and REGISTER_GENERAL and UPDATE cut
an id to 19 characters (`server.c:164, 473`), LOGIN does not. The client's registration
lets only 4 to 16 letters and digits into an id and only four digits into a password
(`input_util.c:117-143`), and the codes of a school come from NEIS; the server tests
nothing. Every result about accounts is for requests of this client.

The refinement mapping (`Service` in `RequestServer`) takes `req` for the
request asked, `reply` for the answer decided, and reads from `pc`, `place` and
`reply` whether the password or the link has been found valid and which school
has been looked up.

### 2.4 ClientSession

One client per connection. Both directions of the connection are sequences; the
wire carries no numbers and no lengths. `Receive` takes any prefix of what is
under way, and goes on until a `//` is in the buffer, as `receive_response`
does; `Timeout` is the five-second `select`, which only guards the first bytes.
`Recv` on the server takes any prefix of the waiting requests and treats it as
one; `Glued` says what it may then be. A request in which a field was left empty is
INVALID, and `login` keeps the id with which `handle_login` waits, which may be
empty. `Handle` is what the
client's handlers make of the text: only `handle_login` changes the session, and
it stores the id before it looks at the rest of the answer. `Start` and `Quit`
are the client process itself, `ServerEnds` the end of the server's.

The server's side are the actions of `AccountService`, by `INSTANCE`; so what
TLC finds here combines with the proof that the server implements them. The
menus of this client never send the commands on children, so their actions are
left out of `Work`.

`granted` is a history: the accounts that a LOGIN_OK was sent for.

Two constants choose the world: `Slow`, whether an answer may take longer than
the client waits (with a NEIS call behind it, it may), and `Split`, whether an
answer with data may arrive in two segments.

### 2.5 Calendar, MealQuery

A date is the three numbers of its eight digits. `validate_date_format`, `Later`
(`strcmp`), `WithinLimit` (months of 30 days, years of 365, `input_util.c:203-207`),
`parse_date` and `days_between` (through `mktime`, whose error is -1 and which
cannot represent every day) are the code's functions; `DayNumber` is the day's
place in the Gregorian calendar, which they are compared with. `ZoneHours` and
`LastHour` are the server's time zone and the end of its `mktime`.

`MealQuery` follows one query: `ChooseMenu`, `GetDateInput`, `ReadOtherDate` (eight
calls of `getchar`, no test), `GetStartInput`, `GetEndInput`, and on the server
`SchoolUnknown`, `GetMeal`, `GetMealsPeriod` with the second check of the period.

### 2.6 Console

The prompts of the client are a graph; each reads with one of five readers:
`scanf("%d")` and one `getchar`, the same with a loop to the line's end, `fgets`,
`safe_input`, eight times `getchar`. A line is how many digits it begins with and
how many other characters follow, which is all that the readers, the tests of
ids and passwords, and the sizes of the buffers look at. The verdict of the
server, the calendar's and the list of offices are open choices.
`stray` is a history: the prompt at which the text that was read last had been
typed, if it was another than the one that read it. `careful` says that every line
had a form its prompt can take.

### 2.7 Texts, Wire

`Texts` has the two things that both programs do with texts: `Joined` puts a separator
before every part but the first, and `strtok` takes any run of delimiters for one, so
that empty parts vanish. Each is a function of how much of its argument has been
read, in the place of the C loop, and can so be reasoned about by induction.

In `Wire` a text is a sequence of words and slashes. `Ask*` build (`Line`) what the
handlers of each screen build from what that screen lets through; `Tokens`, `Positions`,
`Needs` and `Understood` are the server's parser and the tests at the head of each
command; `Reply` chooses among the answers of the command, or `Silence`; `Told` is what
each handler of the client makes of the answer, and what its menu then says.

### 2.8 MenuText, NeisMeals

`strtok`, `BeforeBracket` and `Trim` are the three things the server does to a
menu's text (`ShownLines`): it is split at any of the characters of `<br/>`, each item
is cut at its first bracket, and the blanks around it go; what is then empty is left
out. `MealLines` is the reference: a dish without what is in brackets.

`NeisMeals` goes through `get_school_codes`, `get_meal_from_neis` and
`get_meals_period_from_neis` with every decision on what NEIS sends (no JSON, no
`mealServiceDietInfo`, no array, one element, no row, null for a name, rows with and
without a menu), and counts what is allocated: the curl handle, the received text, the
document, the copies. Where a null or what is no array is used as a text or an array
(`TripOver`), the process ends.

A character has a number of bytes (`Bytes`), and so have the lines of a meal (`LinesBytes`),
an entry of a period (`DayBytes`) and the buffer after some days (`UsedAfter`); the
numbers in them are those of the titles, dates and bullets in UTF-8. `EntrySize` and
`MealSize` are 512 and 2000 in the code. `ShowMeal` and `ShowDay` write what fits, and
else some of the lines (`Cuts`); `Overrun` is the other outcome of writing past the end,
that the process ends. A line that is cut itself is left out of `Cuts`.

### 2.9 Startup

Each step of `main` and `init_db` that acquires something is an action of its own
(`InitMutex`, `init_network`, `OpenDb`, `CreateTable` for each of the three tables,
`create_socket`, `Listen`); `StepFails` fails at any of them, with what is written
there to be released (`Unwinding`) done by `Unwind` one by one. `KillServer` takes the
process away and leaves the file with the tables that were committed. The client's
`main` is the same in small, and connects only to a server that listens.

### 2.10 MCOneUser

`MealQuery`, `Console`, `Wire` and `NeisMeals` have no concurrency: each is about one
user and one request at a time. One instance holds all four; `active` chooses
at the beginning which of them has steps, so the behaviours are those of the four
modules, without their interleavings. It gives their constants the edge values.

## 3. Runs

| Run | Instance | Shows |
|---|---|---|
| `pool_safety` | 2 slots, 4 handles, 3 threads, 3 connections | all safety properties of the pool, its inductive invariant, no refusal while there is room, and that it implements the room |
| `pool_liveness` | 1 slot, 3 handles, 2 threads, 2 connections, one thread that may hang; fair | whoever else hangs up is released; nobody queues for ever; after SIGINT the next connection stops the server |
| `db_shutdown` | 2 slots, 3 handles, 2 threads, 2 connections | nobody is misled by the server's end, and the composition still is a pool |
| `accounts` | 3 handlers, 2 ids, 2 passwords, 1 place | accounts under races implement the service |
| `faults` | 2 handlers, 2 ids, 2 places (one cached), all commands, failing statements | child links and meals implement the service too, no answer claims what did not happen, links stay valid |
| `unanswered` | 2 handlers, 1 id | FINDING: a registration without an answer |
| `client_in_time` | 2 clients, 2 ids, 1 password and a corrupted one; answers in time and whole | sessions are granted ones; both sides stay in step; logged out, a client remembers no school |
| `client_slow` | 1 client; answers may be late | waiting always ends |
| `client_late` | 1 client, 2 passwords; answers may be late | FINDING: a late answer opens a session |
| `client_split` | 1 client; answers may come in two segments | FINDING: the client can wait without limit |
| `one_user` | about 120 typed dates, lines of 7 lengths, 10 texts, 7 dishes, 2 days of 2 dishes, an entry of 50 bytes and a meal of 100 | the calendar's, the console's, the wire's and the NEIS client's properties |
| `startup` | at most 3 faults | everything is released once, but for the database of an `init_db` that failed; the server comes up in the end with all tables |

**Why the bounds are enough to be interesting.** The pool needs two slots for a
search that stops at the first match and a scan with a rest behind it; one
handle more than slots for the connection that `main` has accepted but not
stored, and one more so that a handle of a leaving thread is closed while others
are free for reuse; three threads are two at work and one that leaves. For its
liveness one slot is enough: a hanging handler then fills the table, and the
second connection has to be refused. Requests race in pairs; the third handler in
`accounts` changes an account between the two statements of a login while another
registers it. Two places, one cached, tell whose school a meal was looked up for.
In `ClientSession`, `MaxBehind` bounds requests and answers under way on one
connection: 2 is enough for an answer to be one request late and for two requests
to run together; without late answers there is never more than one (`InStep`).
In `one_user` the dates are the ends of months of 28, 29, 30 and 31 days, of years,
of centuries and of what `mktime` represents, with days and months that do not
exist; the lengths of lines are those at which ids, passwords, dates and the three
buffer sizes change their meaning; the texts are empty, one word, and words with a
slash before, between, or alone; the dishes are plain and short, plain and so long that
two overrun an entry and a few fill a period, with blanks and allergens, allergens alone, with a slash, with words after a bracket, and with a bracket that
closes none. Three faults in `startup` are a failure, a failure
or kill of the restart, and a stop while running.

Deadlock is not checked for the pool and `db_shutdown`: after `main` has returned
there may be nothing left to do; nor for `one_user`: the user may exit. All
other runs check it.

**Fairness.** `HandlerFairness` and the weak fairness of `MainStep`: the scheduler
runs `main` and every thread; `recv` reports the end of a connection after the
finitely many requests that were sent before it (strong fairness, since each request
in between disables it); and a request that is being served ends. While `main` waits in
`accept` nothing obliges it to return but a connection: `MainRuns` leaves out an
`accept` that fails without one. `StuckSpec` drops the end of a request
for the threads in `Stuck`, whose curl call sets no timeout. Its `Turn` is
the queue behind `listen`: a connection that waits while others are accepted again
and again has its turn. Nothing is assumed of clients or of the console.
`ClientSession!FairSpec`: a client continues when `select` or `recv` returns,
and a handler works off what it has received; the server need not answer.
`Startup!FairSpec`: the server's process runs on, and whoever runs it starts it again
when it has ended; since faults are finitely many, there is a last one.

**Findings.**
1. `unanswered`: of two registrations of one id that both pass
   `is_user_exists`, the second INSERT fails and nobody tells the client
   (`server.c:139-142`, `487-492`). `protocol.md:12-14` promises an answer.
2. `client_late`: a registration takes longer than five seconds; the client
   reports a failure and the user logs in; the late success of the registration
   is taken for that of the login, and the client's next menu is that of a
   logged-in user (`handlers.c:53-57`, `client.c:58`), before the server has
   looked at the password.
3. `client_split`: the receive loop takes the first `//` for the end of the
   answer (`network.c:139-144`); a rest without one makes a later `recv`,
   which has no limit, wait for an answer that may not come.

**Where the code is weaker than its documents.** The models follow the code here;
the properties above are stated so that they say what does hold.

* The client counts months of 30 days and years of 365 (`input_util.c:203-207`). It
  accepts some periods of eight real days, which the server then refuses, and refuses
  as too long some of seven days or fewer: across the end of February down to six, and
  across New Year down to four (December 29 to January 1), since the year it counts is
  five days longer than its twelve months.
  `LimitIsClose` gives the bounds of both sides.
* A typed date is judged by its first eight characters (`input_util.c:56, 155`), and
  the date for another school not at all (`menu_general.c:86-96`; `protocol.md:81`).
* `ERR_TOO_LONG_PERIOD` is never sent; a period that is too long is answered with
  MEAL_NOT_FOUND (`server.c:425`; `protocol.md:46, 89`).
* A single slash separates parameters as well as two (`server.c:91`; `protocol.md:4`).
* Several commands of `protocol.md` are unknown to the server (`server.c:434`).
* A duplicate id is reported as a communication error in the users menu
  (`handlers.c:298`), and a refused meal is shown as if it were one (`handlers.c:157`).
* `strtok` removes the letters of `<br/>` from dishes (`neis_api.c:252`), and what
  follows the first bracket of a dish is lost (`neis_api.c:256`).
* A failed `init_db` leaves the database open until the process ends (`server.c:536`).
* A day's lines are put into 512 bytes, and a meal or a period into 2000, without a look
  at what is left (`neis_api.c:275, 423, 431-432`). A boarding school's week is more
  than 2000 bytes: what is sent of it is cut, and an empty line is written past the
  end. `Overrun` and `Cuts` are that in the model; `PlainDishesAreShown` is about
  what fits.
* The list of schools is not tested for being an array, nor a name or a menu for being
  null (`neis_api.c:85, 103, 231`); the process ends there (`TripOver`).
* `close_db` does not wait for handlers. Who has loaded the pointer before may prepare a
  statement on freed memory (`db_handler.c:85-90`); its client has been closed by then.
* The login screen sends an empty id (`menu.c:78-86`), which the server answers with
  INVALID_REQUEST. If an earlier LOGIN has timed out, its late success is then stored for
  the empty id: nobody is logged in, and a school is remembered (`handlers.c:53-75`).
  So `LoggedOutIsClean`, `InStep` and `SessionIsOneLogin` hold while answers come
  whole and within five seconds, and are checked and proved for that only.
* What `client_split` shows needs a second request that is never answered: a registration
  that loses a race to another client, or a fault of the database (finding 1).

## 4. Proofs

All theorems hold for every value of the constants that satisfies the named
assumptions (`PoolAssumption`, `StuckAssumption`, `ServiceAssumption`,
`CacheAssumption`, `ClientAssumption`, `GlueAssumption`, `ClockAssumption`,
`LinesAssumption`, `ConsoleAssumption`, `WireAssumption`, `MealsAssumption`,
`MaxFaultsAssumption`), which TLC evaluates in the runs. `WireAssumption` and `MealsAssumption` say that
the slash is no word and none of the strings that the programs write, and that what is
typed, or sent by NEIS for a dish, is a text.

* `ConnectionPoolProofs`. `PoolInv` is inductive: types, exclusive slots, and
  five parts that relate the table to who owns what. `MainHolds` says that a
  handle `main` has just accepted is in no slot and belongs to no leaving thread;
  `HoldersAgree` that a thread's slot is its alone and still contains its handle;
  `SlotsAreOwned` that every full slot has a thread or is in `main`'s hands;
  `ClearedAreApart` that the handle of a thread which has cleared its slot is in
  no slot, which is where the order clear-then-close is used; `PeersAgree` that
  until the shutdown these handles are open and lead to the right connection.
  Neither `ExclusiveSlots` nor `ServesOwnConnection` is inductive without the
  others: a thread that read a foreign handle would clear a foreign slot. From
  `PoolInv` follow `ServesOwnConnection`, `CapacityBound` (an injection from
  threads to slots) and `RefusedOnlyWhenFull`; `NoHandleLeaks` and
  `ShutdownClosesAll` are further inductions on top of it, the latter through
  `ScanProgress` (theorem `ScanLeavesNothing`).
* The room, in the same module. `RoomIsImplemented`: every step of the pool is a step of
  the room or none. On top of `PoolInv` it needs that a connection is at one place
  only, in the backlog or behind one open handle (`OneEndEach`); without it, two seats
  might be the same connection's.
* The database's end, in the same module. A step of the composition is a step of the pool or a
  stutter (`ServerImplementsPool`), so the pool's theorems hold of it; `ServerInv` is
  inductive on top of them: the database is whole until `main` is past its loops, and
  from there on no handle is open, so nobody hears of a failure.
* `RequestServerProofs`. `ServerInv` is types and `PathsFollowCommands`: who is in
  which function, and what is already known there. `LinksAreValid` and
  `AnsweredAtMostOnce` are inductive on top of it.
* The refinement, in the same module. Every function maps to one action of
  `AccountService` or to a stutter, one lemma per function; the theorem
  `ServerImplementsService` is what the runs check as `ImplementsService`.
* `ClientSessionProofs`. `TypesAreKept` whatever `Slow`, `Split` and `MaxBehind` are: it
  needs `SaidOK`, that a decided answer belongs to a request and LOGIN_OK has a place.
  If answers are neither late nor split, `ClientsStayInStep`, `SessionsAreGranted` and
  `LogoutsAreClean` follow from `SyncInv`: at its menu a client has nothing under
  way, and one that waits has nothing or exactly one of its request, the request
  being worked on, and the whole, truthful answer (`OneThing`). `InStep` alone is not
  inductive: it does not say that the answer was granted, nor that there is only
  one of the three.
* `ClientInputProofs`. `QueryInv` says what has been checked of the dates at each place;
  with it `TestedDaysAreReal`, `AtMostSevenDays` and `ClientLimit` are facts of
  arithmetic about `DayNumber`, `SimpleDays` and `days_between`, for all typed lines,
  every time zone and every range of `mktime`. `LinesReachTheirPrompts`: a careful user
  and the client are at the same prompt, for every set of lengths that may be typed.
  `ConsoleInv` adds to the property that what a careful user has on stdin was typed for
  the present prompt and suits its reader; one lemma per way of reading says that such
  a line is taken whole, whatever its numbers of characters are.
* `TextProofs`. What `Joined`, `strtok` and `Filled` do for every sequence. An
  induction on a sequence is a set that has the empty one and is closed under `Append`
  (`SequenceInduction`), and rests on the least number at which a fact would fail
  (`LeastNumber`, from the well-founded order of the naturals), so no lemma
  with an operator parameter is needed. The main one, `StrtokJoined`: `strtok` gives back
  the parts that were put together, except the empty ones, for every separator
  made of delimiters only and all parts without a delimiter.
* `WireProofs`. `WireInv` says of every place of the request what the text is: the line
  of the request's fields, then that of one of the answers that its command may get; and
  that what the server has understood is what `Understood` makes of that line. With
  `StrtokJoined` its tokens are the fields that are not empty, in their order.
  `RequestsAreNotMisread` then is an argument by numbers: the last parameter that a
  command needs is there only if none of the fields before it was empty
  (`FilledKeeps`), so everything is in its place. `MenusAreUnderstood` is the converse
  for complete requests. `SuccessesAreTrue` goes through the answers of each
  command: the tokens of an answer are its status, its message and its data.
* `NeisMealsProofs`. `CallsFreeWhatTheyAllocate`: `AllocatedHere` says for each place in
  the calls exactly what is allocated there, until the process has ended. `MealsInvariant`:
  while a period is written there is one entry for each of its first rows, and as long as
  they fit (`AllFit`) the entries are whole and `used` is the sum of their bytes; so a
  buffer is overrun only by what does not fit (`OverrunsAreDue`). `PlainMenus`, about one day:
  `DishesAreFound` (by `StrtokJoined`, the items are the dishes that are not empty),
  `BracketsAreCut` (a working copy that ends at the first bracket is the dish without
  brackets, by induction on the dish), and `EmptyDishes` (to leave out the empty
  dishes before or after the cut is the same). `PlainMenusAreShown` puts both together, for all sizes of
  the two buffers and of the characters.
* `StartupProofs`. `ResourcesAreReleased`, for every number of faults: `HeldInv` says
  which resources are there at each step of the start and which are still to be
  released on each way out; the database is the exception only where `init_db` failed
  (`noDb`), and is closed on every other way.

The proof of `PlainMenus` found a mistake in an earlier form of the property, which
asked only that a closing bracket comes last: a dish that ends in `)` without an
opening bracket is shown with it (`neis_api.c:255-260` looks for `(` only).
`BracketIsLast` now asks for both, and such a dish is among those of `one_user`.

Only model-checked: the liveness properties (`OthersAreReleased`,
`NobodyQueuesForEver`, `StopsOnNextConnection`, `EveryWaitEnds`, `ServesInTheEnd`),
which need fairness and are out of the prover's reach. Every safety property, action
property and refinement of a passing run is stated by a theorem.

## 5. What is not modelled

* Within the pool: a second SIGINT, which on Windows ends the process at once because
  the handler is reset; the shutdown's close of a handle that a handler has just closed
  and that curl has been given in the meantime; the backlog's length in `listen`.
* Within requests: names and roles of users (every row the server writes is GENERAL),
  the meal cache's contents (nothing writes it: `save_meal` has no caller).
* Within requests also: texts with quotes, and texts that are cut (section 2.3).
* Within texts: sizes of other buffers than those of a meal and of the client's prompts;
  rows of NEIS without a date, or with one that is no text; the global initialisation
  of curl by whoever calls it first.
* Within the client: printing; the end of input on stdin; requests that arrive in
  pieces (they are short).
* SQLite, Winsock, curl and json-c are taken by their contracts. Of SQLite the
  repository has only the header `include/sqlite3.h`, nearly 14000 lines of
  declarations without behaviour; it is most of the repository's C text, and none
  of the program's.
* Code that never runs: `client/menu_parent.c` (a comment), `server/server_handler.c`
  (linked and not called), `server/server_main.c`, `client/client_main.c` and
  `client/main.c` (not built), and functions without a caller (`save_meal`,
  `get_children_raw`, `get_children_callback`, `receive_data`, `get_menu_choice`,
  `parse_response`, the server's `connect_to_server`).

## 6. Plan

Done: all components that run are modelled, and all their properties but liveness are
proved. What is left:

1. Texts of accounts as the characters they are, with quotes, and `add_user` with the
   statements that SQLite makes of them.
2. `ClientSession` over `RequestServer` instead of `AccountService`, when an instance
   of both becomes small enough for TLC.
