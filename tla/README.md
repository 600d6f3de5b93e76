# TLA+ model of uicc_service

`uicc_service` is a C library and test program for a secure element ("micron
SE") behind a modem: a text protocol of AT commands over `/dev/radio/atci1`, a
logical channel to the element's Crypto applet, APDUs inside `AT+CGLA`, and on
top a small storage API: users with passwords, each with binary files. There
are 4 500 lines of C under `src/src` and `src/include`; `src/externals` is
vendored Unity.

This directory holds the modules, the TLC runs and the TLAPS proofs about it.
`PROJECT.json` maps every definition to its lines of source and lists the runs,
the hazards, the mutants that show what each property can catch, the findings
and the theorems. Run `tlc -config X.cfg M` and `tlapm M.tla` in this directory.

## 1. The system

One process, one thread, no timeouts. What interleaves with the client's
sequential code is failure: answers that are lost, refused or cut wrongly, and
the death of the process, after which the element keeps its files and channels.

| Part | State it keeps | Operations | Talks to |
|---|---|---|---|
| Storage API (`sec_storage.c`) | current FIDs and key id in statics | `register_new_user`, `unregister_user`, `is_user_registered`, `select_user`, `get_list_of_registered_users`, `create_/read_/delete_bf_file`, `get_list_of_user_bf_files` | `do_*` calls |
| APDU exchanges (`at_commands.c`) | `apdu`, `apdu_rsp`: the last status word and data | `do_select_*`, `do_create_*`, `do_verify_pin`, ... each one or more exchanges | transport, parsers |
| Transport (`at_commands.c`) | `buffer_in`, `buffer_out` | `send_message`, `read_message` | serial port |
| Port and channel (`uicc_test1.c`, `at_commands.c`) | `serial_port`, `crypto_app_session_id` | open/close of the port and of the channel, `get_random_int` | transport |
| Programs (`main.c`, `uicc_test1.c`) | flags, last ids used | the `get_rand` mode, the interactive mode and its command words | all of the above |
| Parsers (`apdu_response_parser.c`, `fcp_parser.c`, `str_utils.c`) | `struct FcpDscr` | an answer's text to bytes, to a status, to a descriptor | |
| Builders (`apdu_commands.c`, `do_create_*`) | none | bytes of an APDU, FCP of a new file | |
| Tests (`test/`) | lists of users and files | nine storage tests on whatever element is there | storage API |
| Status texts (`sw_parser.c`) | constant table | lookup, not called by the program | |
| Secure element (external) | files, life cycle states, passwords, current file, channels | APDUs | |

What makes each part correct:

* Storage API: what exists in the "use" state is complete; only the owner's
  password changes or reads a user's files; `SEC_STORAGE_OK` means done; every
  call ends. Hard because a call is up to some twenty exchanges, each of which
  can fail, because results of some are not looked at, and because the status
  word tested may be an old one.
* Binary transfer: each byte arrives where it belongs, and a read returns what
  was written. Hard because the size is a `size_t` with the caller, 16 bits in
  the FCP, and the offset has 15.
* Port and channel: the session the client believes in is open unless its number
  came from another answer, and channels are not used up.
* Programs: no command goes out without a session, a program closes its own
  channel, and each mode gets to its commands or its end.
* Transport: each command takes its own answer, and each read ends.
* Parsers: an answer taken for 9000 is the whole answer, the descriptor is that
  of the file created, and nothing is read or written outside the buffers.
* Tests: they spare the users of others, and leave no trace.

## 2. Modules

| Module | Models | State ↔ code |
|---|---|---|
| `SecureElement` | the element (external): one operator per command, `Accepts`, `StatusOf`, `Execute` | `lcs`, `records`, `pin`, `data`: files; `dir`, `node`, `auth`, `unlisted`: selection state |
| `SecStorage` | the storage API and the exchanges below it, on `SecureElement` | `pc`: next exchange; `op`..`val`: call and arguments; `sw`, `payload`: `apdu_rsp`; `exists`, `i`, `len`, `buf`, `found`: the C locals and out parameters; `ret`: the status |
| `SecureStore` | abstract specification of the storage API | accounts, keys, contents, the one operation pending |
| `MCSecStorage` | symmetry for TLC | |
| `StorageTests` | the storage tests, their order and assertions, on `SecStorage` | `queue`, `test`, `todo`: tests and calls to come; `before`: `num_users`; `mine`: `user_ids`; `failed`, `dead`; `others`: users of before |
| `BinaryTransfer` | the loops that write and read a file's bytes, with the widths of their numbers | `size`, `offset`, `count`: the C variables; `length`, `file`: the element's file; `out`: the caller's buffer and what lies behind it; `rsp`: `apdu_rsp` |
| `LogicalChannel` | serial port, session, channels, every command that needs them, exit and restart | `port`: `serial_port` and its device; `session`: `crypto_app_session_id`; `stray`, `late`: whether its number is that of its own answer, and the numbers in answers nobody has read; `channels`: external |
| `Programs` | the two modes of `main` and a program that calls the library in any order, on `LogicalChannel` | `mode`; `at`: the next call; `draws`: the loop of `get_rand`; `trouble`: an answer was lost or displaced; `unread`: text may stand in the port before the next answer |
| `ReadMessage` | `send_message`, `read_message` and what the callers take from the buffer, over many commands | `wire`, `port`: bytes under way and arrived; `buffer`: `buffer_out`; `taken`: the answer used |
| `StrUtils` | the string functions, on sequences of characters | none |
| `FileControl` | the FCP of every kind of file created, `struct FcpDscr` and its questions | none |
| `Console` | the command words of the interactive loop that use the storage API, between processes of another program, on `SecStorage` | `who`: whose process; `user_id`, `file_id`, `data_read`, `data_size_read`: locals of `func2`; `typed`: ids behind the word; `task`: an exchange that is no call of the API |
| `Answers`, `MCAnswers` | one answer to a SELECT, character by character, through `read_message`, `get_cgla_response` and `config_fcp_dscr` | `line`, `got`: what is sent and what of it is read; `buffer`: `buffer_out`; `rsp`: `apdu_rsp`; `tags`, `is_kf_flag`: `FcpDscr`; `offset`, `stop`: the loops over tags |
| `*_proofs` | proofs, see section 4 | |

How they fit together. `SecStorage` EXTENDS `SecureElement`, so one action is one
APDU exchange plus the local code up to the next one. The other modules open up
what it takes as one step or one value:

* `BinaryTransfer` opens the chunks: in `SecStorage` a chunk is written whole, there
  it has bytes, positions and widths.
* `ReadMessage` explains what `SecStorage` and `LogicalChannel` take as given: that
  an answer can be `Lost` (never an answer to another command while no more than
  line ends are displaced) and that another text can be read in place of the answer to
  `AT+CCHO` (`Reports`): a report, which makes the session 0, or the answer to an
  earlier `AT+CCHO` that was lost, whose number it then gets (`late`). Which read ends
  and which blocks on text left before it is not decided again in `Programs`: there
  `unread` says that such text may be there (`Leaves`, `Intrude`).
* `Answers` explains why a status is either the answer's own or none: it takes one
  answer, cut at any character, with the letters and line ends that a token of
  `ReadMessage` stands for.
* `StorageTests`, `Console` and `Programs` are users of `SecStorage` and
  `LogicalChannel`. The steps of `Programs` are steps of the module below or leave it
  alone (`ProgramsAreClients`), and so are those of `StorageTests`. `Console` adds to
  the steps of `SecStorage` the exchanges of `delete_df` and `print_files`, which are
  no calls of the API.

In `SecStorage`:

* `Send(c)` is `do_send_apdu` + `receive_response_from_cgla`. The answer is
  `Answered`, `Refused` (the element answers with an error the model gives no
  cause for) or `Lost`: no readable answer, whether or not the command was
  carried out. `get_cgla_response` then returns before `clear_rsp` and its
  callers ignore that, so `sw` and `payload` keep what an earlier command left.
* Each call of the API starts in `Call` with any arguments, bad ones included,
  and ends in `CallerResumes`.
* `FreeUninitialised` and `ReadNullSize` are undefined behaviour: the process
  may die there. The listing's `free` of an uninitialised descriptor may also go
  unnoticed, which is `ListFiles`.
* One chunk of a file stands for 240 bytes, a value for what one create call writes.

In `SecureStore` a registration and a file's creation begin, and finish or are
abandoned, and leave a half made account or file in the last case; every other
change is one step. `SecStorage` implements it by reading accounts, keys and
contents off the element's files, and the pending operation off `pc`.

In `BinaryTransfer` a byte is its position in the caller's data, so that "in the
right place" can be said; `Unwritten` and `Foreign` (a byte of an FCP left in
`apdu_rsp`) are the others.

In `Answers` the bytes behind the text's terminating 0 are what an earlier, longer
text left there (`Overwritten`): a `char` function that goes past the 0 sees them.

### Assumptions about the element

It is not in the repository. `SecureElement` assumes what the client's command
sequences need: SELECT by AID goes to the applet's root and drops the
verification; a DF can be selected from anywhere, and leaving one drops the
verification; a DF is created only at the root; access is free in the life cycle state
"init" and asks for the user's key in "use" (the records of EF.ARR); the key
works once its file is in "use"; a listing does not change the current DF; a
command that is not accepted changes nothing, except that a failed VERIFY drops
the verification. A READ or
UPDATE BINARY is accepted only within the file, and an offset with the top bit
set names another file. The modem hands out the lowest free channel. The text of an
answer has as many line ends as the code's `num_response_lines_*` say.

## 3. Runs

`PROJECT.json` says of each run what it shows. In short:

| Run | Module | Faults | Properties | Distinct states |
|---|---|---|---|---|
| `storage_crash` | `MCSecStorage` | crash anywhere | `TypeOK`, `RegisteredIsComplete`, `ChangesAreDone`, `ResultsAreTrue`, `StatusIsDue`, `ImplementsStore` | 1 180 000 |
| `storage_refuse` | `MCSecStorage` | any command refused, crash anywhere | `UsedFileIsWhole`, `DeleteHitsTarget`, `CallReturns` | 311 000 |
| `storage_lost` | `MCSecStorage` | two lost answers | `ReadNeedsPassword`, `OnlyOwnerChanges`, `CreatesInOwnDf` | 1 790 000 |
| `storage_tests` | `StorageTests` | none; any users of before, any subset of the tests | `FirstFailureIsKnown`, `TestsLeaveNoTrace`, `DiesOnlyWhenEmpty`, `TestsSpareOthers`, `TestsEnd` | 38 500 |
| `transfer` | `BinaryTransfer` | refused commands, lost answers, crashes | `TypeOK`, `WrittenIsWhole`, `SmallFilesFit`, `ReadIsExact`, `OverrunIsBounded` | 14 000 |
| `console` | `Console` | none; processes end between two commands | `PrintsThisFile`, `SparesOtherPasswords`, `DeletionsAreSpelledOut` | 530 000 |
| `channel` | `Programs` | lost answers, text before answers, killed processes | `ProgramTypeOK`, `SessionIsOpen`, `LeaksAreBounded`, `ClosesItsOwn`, `CommandsHaveChannel`, `ModesGetThrough` | 108 000 |
| `read` | `ReadMessage` | ERROR answers, reports, failed reads; arrival in any pieces | `LagIsBounded`, `TakesOwnAnswer`, `ReadEnds` | 490 000 |
| `answers` | `MCAnswers` | any cut of the answer, errors, other text before it | `OkIsWhole`, `TagsComeBack`, `StaysInside`, `ErrorIsTold`, `NoRunaway` | 289 000 |

What one lost answer breaks and what it does not: with a single stale status
word `UsedFileIsWhole`, `RegisteredIsComplete`, `ChangesAreDone`,
`ResultsAreTrue` and `DeleteHitsTarget` are false. `ReadNeedsPassword` and
`OnlyOwnerChanges` survive one (a 9000 left by a SELECT makes a wrong password
look right, but the element itself then refuses) and fall with two; both are
stated for `lost <= 1`. They survive one loss only where nothing is refused and no
process dies in a call: after a refused selection of the applet the element keeps the
verification of the call before, and a file that a dead process has left half made is
free to access, so that in both cases a lost VERIFY answer is enough. `CreatesInOwnDf` holds however many are lost, and is
proved. A refused command breaks registration (finding `finding_password`), but
neither `UsedFileIsWhole` nor `DeleteHitsTarget`, although the SELECT before the
deletion is not checked.

What `storage_crash` shows of errors: `StatusIsDue` leaves out one status, that of a read
or a deletion that finds no file; it is not the one `sec_storage.h` has for it
(finding `finding_missing`).

What `channel` shows: `SessionIsOpen` is about a number read from its own answer. One
that an earlier, lost answer gave (`stray`) may name a channel that has been closed
since, for instance by the forced close of a new process, and the commands go there all
the same; `LeaksAreBounded` stands that as well. `CommandsHaveChannel` says that nothing
else gets a process to its commands without channel 1: a failed `AT+CCHO` is
reported as 0, but leaves no session, and the selection of the applet is then refused
by the client itself. Whether the applet was selected on the element is not
shown: `receive_responce_from_select_aid` looks at no answer.
`ModesGetThrough` has an exception, a read with text before its answer, which may block
for ever; without it TLC finds that read. It is met in an ordinary start-up: the forced close is
answered with ERROR when no channel is open, and when the line end behind it
comes after the read has ended, the answer to `AT+CCHO` is behind it.

What `transfer` shows of large files: `WrittenIsWhole`, `SmallFilesFit`, `ReadIsExact`
say in which sizes the code is right; for a size of 2^16 or more the FCP gets the
low 16 bits, and the loop is refused when it passes them.
`OverrunIsBounded` says how far a read goes behind the caller's buffer when a lost
answer leaves more bytes in `apdu_rsp` than were asked for: less than a chunk.

What `answers` shows: whatever `read()` cuts off, a 9000 with an FCP means that all of
it was there (`OkIsWhole`), and a file's descriptor is what it was created with
(`TagsComeBack`; for the EF.ARR below a size of 2256, the modulus in
`do_create_efarr_file`). `check_if_contains` goes on after a partial match, so letters far apart count as
ERROR; `ErrorIsTold` says that an ERROR the modem sends ends the reading and that no answer
without an R is cut short for it.

What `read` shows: an answer with ERROR to a file command displaces no later answer;
reports and failed reads do, by no more commands than there were such events. With ERROR answers to `AT+CCHO` and `AT+CCHC` as well, `TakesOwnAnswer` is
false (see below), which is why the run has `AT+CGLA` alone; without ERROR it is proved
for all three.

What `console` shows: `delete_df` deletes what is current, since 0xAABB does not exist
and the failed SELECT is not looked at, and can for that hit only the user last used;
and the length of `delete_bf` is tested for one character less than its two ids, but
the ids that come of it are bad ones, and the call returns before any deletion.

What `storage_tests` shows: on an element without registered users the first assertion
to fail is the one at line 475 of `sec_storage_test.c`; which other ones can be
first, given the users of before, is `FirstFailureIsKnown`: with users of before also the
count of `add_delete_user_test_2`, and nothing else as long as one id is free.

### Findings

Each `finding_*` run violates one statement of the repository, quoted in
`PROJECT.json`:

* `finding_password`: `create_kf_pin_file` swallows its errors, so a user without
  password is registered with `SEC_STORAGE_OK`.
* `finding_delete`: after a lost answer `delete_bf_file` on a missing file deletes
  the user's DF with all files.
* `finding_missing`: reading or deleting a file that does not exist returns the literal 1,
  the number of `SEC_STORAGE_WRONG_USER_ID` (`sec_storage.c:688` and `:752`,
  `AfterVerify`), where the code prints "current file id is not created" and
  `sec_storage.h:19` has `SEC_STORAGE_FILE_IS_NOT_CREATED`, which is never returned.

Met while modelling, without a run:

* `open_crypto_lchannel` returns 0 when the modem answers ERROR and no session is open:
  what the reader of the answer returns is dropped (`at_commands.c:415`, `AnswerOpen`),
  while `uicc_test1_test.c:26-27` asserts a 0 and an open channel together.
* The command `exit` closes the same descriptor twice (`uicc_test1.c:349`).
* File commands without a session send nothing and wait for an answer
  (`at_commands.c:736`).
* `open_crypto_lchannel` returns 0 without a connection when the session outlives the
  port it was opened over (`uicc_test1.c:481`).
* `connect_to_se` never counts its trials (`uicc_test1.c:394`, `ConnectTrial`).
* After ERROR to `AT+CCHO` or `AT+CCHC` a line end may be left in the port, which the
  next of these commands counts as its own: it stops one line early, and its answer
  is read by the one after it, or the count jumps past the one asked for and the read
  never ends (`at_commands.c:322`). Nothing in the repository says it does not.
* When the read of a custom command's answer fails, its -1 is taken for a size and
  `count_lines` walks past the buffer (`uicc_test1.c:66-77`, `AnswerCustom`).
* `delete_df` deletes whatever the commands before left selected (`uicc_test1.c:201`).
* `check_file_id_test` expects file id 16 to be refused at line 471 and accepted at
  line 475 of `sec_storage_test.c`.
* The low byte of the EF.ARR's size is taken modulo 2256 (`at_commands.c:845`,
  `do_create_efarr_file`); `print_fcp_dscr` multiplies the high byte of the size by
  16 (`fcp_parser.c:81`).
* `delete_bf` without ids takes the end of the command word for a digit
  (`uicc_test1.c:311`, the length is tested for one less), and `read_bf` prints as many
  bytes as a size says that a failed read leaves uninitialised (`:305`).
* `send_message` accepts 4095 bytes and writes two more (`at_commands.c:231`); no
  caller sends that many.

### Bounds

* Storage: two users (one in `storage_refuse`), two passwords, one file, one value:
  interference is between a user and another, a right and a wrong password, the file
  asked for and another, which the tests' two files add. Users and passwords are
  interchangeable (`Symmetry`, not used in `storage_refuse`, which checks liveness).
* `NRecords` and `NChunks` 1 or 2: a loop with a first, and a last different from it.
* `MaxLost` counts lost answers over the whole behaviour: 2 in `storage_lost`, so that
  what is stated up to one is reached with the next one still to come.
* `storage_tests`: three users, of which any set is registered before, with two
  passwords, so the search for unregistered users finds none, one, two or three.
* `transfer`: `Word = 16`, `Half = 8`, `Chunk = 3` for 65 536, 32 768 and 240:
  `Chunk` divides neither of the others, as in the code. `MaxSize = 20` goes beyond
  `Word` by more than a chunk. `MaxFaults = 3` is a torn write, a lost answer of a
  read and one more. The theorems hold for the code's own numbers.
* `NChannels = 3`: channel 1, which is always the one closed, and two others;
  `MaxMishaps = 4` leaves one more mishap than channels. `NDraws = 2` of 10.
* `console`: two users, one of which the process starts with, and two passwords, one of them
  the loop's; `typed` up to 2 covers no id, one, and both. One file: files are told
  apart by the bad one.
* `MaxReports = 1` and `MaxFails = 2` with `AT+CGLA` alone: a report of two lines and two
  answers cut short displace a whole answer of six lines.
* `answers`: the four kinds of file a user has, with the sizes the code creates (an
  EF.ARR at 2255, a binary file above one byte); other text of up to two letters of
  ERROR, or up to six line ends, which is what a whole answer has.

Deadlock is not checked where the system may stop: `answers` (one answer), `channel`
and `storage_tests` (programs end), `read` (a read may block on displaced text).

### Fairness

* `storage_refuse`: weak fairness of the client's steps. The process has one thread and
  nothing else to do. It presumes that `read()` returns, which is true while answers
  are not lost; so `MaxLost = 0` there. The environment is not fair: nothing makes a
  caller call, a process crash or an answer be refused.
* `read`: weak fairness of the modem's delivery and of the client. `ReadEnds` is about
  exchanges with nothing left before them.
* `storage_tests`: weak fairness of the one thread.
* `channel`: weak fairness of a program's own calls, of what goes on inside a call and
  of its continuation. For `connect_to_se`, which waits for the device without end,
  that says the device is there in the end, and for a written command that the modem
  answers it and that the read comes back when nothing stands before the answer
  (`Heard`). A read that finds text there need not come back, and is no part of the
  fairness. Nobody has to type a command, send a report or start a process.

## 4. Proofs

All by TLAPS, for every value of the constants under the modules' ASSUMEs.

`SecStorage_proofs`, for any sets of users, files, passwords and values, all
faults, any `MaxLost`:

* `StorageTypes`: `Spec => []TypeOK`.
* `CreationsAreOwned`: `Spec => CreatesInOwnDf`.

Types alone are not inductive: a loop index stays in its bounds only because
`pc` says which loop runs, and a command carries a user, a file and a password
that have been accepted. `StorageInv` is `TypeOK` with `Fits(pc)` (which calls
and which arguments can be at which exchange), `LoopOK` (loop indices) and
`RspFits` (what a stale `apdu_rsp` can hold where it is read). For the creation
of a binary file the step before is the heart of it: the existence check is made
with "ok" in `apdu_rsp`, so the "not found" on which `create_bf_file` goes on is an
answer of its own, and with "not found" in `apdu_rsp` the "ok" it then sees can
only be VERIFY's own (lemma `FreshAnswer`). That is why this property, unlike the
others, stands any number of lost answers.

In the second part, any refusals and crashes, as long as no answer has been lost:
`ReliableInvariant`, `Spec => [](lost = 0 => ReliableInv)` for any `MaxLost`, and from
it with `MaxLost = 0`

* `UsedFilesAreWhole`, `OnlyOwnersChange`, `DeletionsHitTheirTarget`,
  `ReadsNeedPasswords`.

`ReliableInv` relates `pc` to the element: where the client thinks it stands is where
the element's selection is (`Located`), the DF that is registered and the file that is
written are in the state "init", with the chunks up to the loop index (`HalfMade`,
`Written`), a password that looked right is the user's (`Verified`), and the caller's
buffer is empty until then (`Copied`). Each is needed for the next command only, but
none is inductive without the others.

`Complete_proofs`, without refusals, crashes allowed, as long as no answer has been
lost:

* `RegisteredAreComplete`: `Spec => []RegisteredIsComplete`. A crash leaves a DF in
  "init" with a part of its files; `CompleteInv` adds that nothing is below a DF that is
  not there (`NoOrphans`) and how far a registration has come (`Registering`).
* `ChangesHaveBeenMade`, `ReportsAreTrue`: what `SEC_STORAGE_OK` and the lists say.
  `ResultsInv` adds what the list loops have gathered so far (`Gathering`) and what
  a read has collected (`Reading`).
* `StorageImplementsStore`, the refinement of `SecureStore`. The initial state maps to
  the initial state (`InitMaps`), every step to a step of the abstract store
  (`StepMaps`) or a stutter (`StutterMaps`). The invariants above
  decide which: the creation of a record is a stutter because the account is half made,
  and the activation of a file is the one step that shows its contents, because all
  its chunks are written by then.

* `StatusesAreDue`: `Spec => []StatusIsDue` (with `MaxLost = 0`), the other half of
  `ChangesHaveBeenMade`: an error has met what it names, that of a missing file excepted,
  and `SEC_STORAGE_UNKNOWN_ERROR` is never returned,
  although processes may have died at any exchange before. Its invariant is `DueInvariant`. `OnCourse` says at each exchange
  what the element must have for the next command to be accepted (the DF that is
  current, the key, the file that was found); lemmas of the form "accepted here, so the call goes
  on there" follow each call to its end. That the EF.ARR is there and long enough
  when a file refers to it (`ArrMade`) is what a shorter loop over the records would break.

The next part of `Complete_proofs`, without refusals and crashes (`NoFaults`), for any
`MaxLost`:

* `OwnersSurviveOneLoss`: `Spec => OnlyOwnerChanges`.
* `ReadsSurviveOneLoss`: `Spec => []ReadNeedsPassword`.

The argument has two invariants. Before the first loss (`SettledInvariant`,
`[](lost = 0 => Settled)`) files are half made only by the call under way (`NoneTorn`), and
the key is not verified before the call's own VERIFY, which is made in the user's DF
(`NotYetVerified`). After it (`GuardedInvariant`, `[](lost <= 1 => Guarded)`) a
registration still works in the DF it has made (`Mine`), and whoever is past VERIFY
(`Entered`) is there with the user's password (`Opened`), or an answer has been lost and
the element has no verified key and no half made file (`Locked`), so that it refuses
whatever needs the key; what has been copied out was read with the right password
(`Copied`). To get past `Locked` a second answer must be lost. `Faults = {}` is a hypothesis
because the properties are false without it, see section 3.

`ReadMessage_proofs`, for any reports and failed reads:

* `ReadTypes`: `Spec => []TypeOK`.
* `AnswersAreOwn`: `Spec => TakesOwnAnswer`, for `AT+CGLA` alone with ERROR answers, or for
  all kinds of commands without (`FileCommandsOrNoErrors`).
* `AnswersCome`: without ERROR, `Spec => []AnswerIsDue`: as long as nothing is displaced the
  loop waits only for text that is still to come. It is the safety half of `ReadEnds`,
  which needs fairness for the rest, and here for all three kinds.
* `LagIsKnown`: `Spec => []LagIsBounded`, for `AT+CGLA` alone (`FileCommands`), with ERROR
  answers, any reports and failed reads.

`OwnAnswerInv` says of `buffer \o port \o wire` that it is a rest of an earlier answer (an
"eol", or "OK" and "eol", with ERROR answers; nothing without) and then this command's
answer, whole (`StreamIsWhole`). The lemmas count what of it each state of the loop can
hold: with any of these rests the line ends reach the expected number behind the
text that is taken, and leave one of these rests.

`LagInv` gives every token a weight: a line end 1, ERROR and a report 4. An answer, good or
bad, and a report then weigh 6 each, and so do the six line ends at which the loop stops,
while a loop that ERROR ends stops 1 short of whole answers. So what is unread between two
exchanges weighs at most 6 for every report and failed read, and 1 more; and an answer as
many commands old as there are answers behind it (`FollowedByAge`) cannot be older than
that. That each ERROR has whole answers and 5 behind it is what keeps the 1 from adding up
when ERROR follows ERROR.

`Programs_proofs`, for any number of channels and mishaps. Of `LogicalChannel`:

* `ChannelTypes`: `Spec => []TypeOK`.
* `LeaksBounded`: `Spec => []LeaksAreBounded`, whatever else the modem says.
* `SessionOpen`: `Spec => []SessionIsOpen`.

`ChannelInv` adds that a channel is asked for only without a session, and that under a
session whose number is not its own (`stray`) the channels open are no more than the
mishaps (`Paid`): the displaced answer has paid for the one it opened. The bound on
leaks rests on `SessionIsOpen`: a close of channel 1 under session 3 releases a channel
leaked before and leaks 3, so the count stays; that channel 1 is open then is the
statement that every channel below the session's is, and that rests on the
assumption that the lowest free channel is handed out.

And of `Programs`: `ProgramsAreClients` (`ProgramSpec` implies the `Spec` of
`LogicalChannel`, so the theorems above hold of the programs), `ProgramTypes`,
`InteractiveClosesItsOwn` (`StartUpInv` follows the start-up call by call: channel 1
is free after the forced close, so it is the one that is handed out) and
`CommandsFindChannel`, which puts the two together: without a lost or displaced answer the
session is 1 and its own (`StartUp`), so it is open by `SessionIsOpen`, and the
selection of the applet returns 0 only with a session (`Selecting`).

`BinaryTransfer_proofs`, for every word, chunk and size, every number of faults:
`TransferTypeOK`, `TransferWrittenIsWhole`, `TransferSmallFilesFit`,
`TransferReadIsExact`, `TransferOverrunIsBounded`. `TransferInv` says what the bytes
below `offset` are, on the way in and on the way out.

`Console_proofs`, without losses and refusals, crashes allowed (`Undisturbed`), for any
calls of another program between the loop's processes:

* `ConsoleInvariant`, and from it `NothingElseIsDeleted` (`DeletionsAreSpelledOut`),
  `OtherUsersAreSpared` (`SparesOtherPasswords`), `ReadsPrintTheirFile` (`PrintsThisFile`).

`Console` has steps that `SecStorage` has not, so `StorageInv` and `ReliableInv` are first
shown to survive these (`TaskStep`: SELECT of 0xAABB, DELETE and listings between two
calls). `ConsoleInv` then says what the calls leave behind for them: the current DF is the
root or that of the last user id (`AtLastUser`), its key is verified only with the loop's
password (`OneKey`), and a key file, whose deletion would leave a verified key
without password, is current only in a registration (`NoKeyFile`).

`StorageTests_proofs`, for any users, files, passwords and values and any numbers of records
and chunks, whichever users are registered when the tests are started, each with all
files, and whichever assertions fail:

* `TestInvariant`, and from it `OthersAreSpared` (`TestsSpareOthers`), `NoTraceIsLeft`
  (`TestsLeaveNoTrace`), `DeathIsOfTheEmpty` (`DiesOnlyWhenEmpty`).
* `FirstInvariant`, and from it `FirstFailuresAreKnown` (`FirstFailureIsKnown`).

The tests make steps of `SecStorage` without faults or losses, so that the
invariants above hold (`Base`). The rest is about the lists of calls still to come.
`TestInv` says that whoever was registered before still is (`Stand`), and that in
`todo` a change to a user's files stands behind a registration (`RegisterFirst`), which
the element refuses for those of before (`NotAgain`); that behind a registration
stands the unregistration (`UnregisterAfter`), or the user is kept until the
end of the loop, which unregisters all it has kept; so that as long as no assertion has failed
whoever has left something on the element will be unregistered (`TracesGo`). A listing is made only of a DF
that is there (`ListsKnown`). `TestAssumption` says what the lists need: the passwords
of the tests are among the model's, there are users and files, and finitely many passwords.

`FirstInv` is about what the assertions presume. A list of items *runs* from one state
of the element to another (`Runs`) when there are states between them in which each
item's assertions hold and which the items turn into each other (`Does`). `Progress`
says that until an assertion fails, what the test has still to do runs from what the element
holds now, or held before the call under way (`During`), to the users of
before and nobody else, and that whoever counts users has counted them first (`Timely`).
That each list of the tests runs is shown by giving the states, item by item
(`BeginHas`, `FoundRuns`, `AfterRuns`), so that no induction over lists is needed; that a
call's outcome is the one asserted (`Outcome`) comes from `DueInv` for the status and
`ResultsInv` for the result, or `HoldsValue` for the data read. The two assertions
that may fail, `Sixteen` and `Foreign`, are let through as if they held, and are those of
`FirstKnown`. `others # Users` is needed because a test that
breaks off the loop at the first free id does something else without one.

Only model-checked, and why:

* Liveness under fairness (`CallReturns`, `ReadEnds`, `TestsEnd`, `ModesGetThrough`) and
  ENABLED are out of the prover's reach.
* `Answers` with `StrUtils` and `FileControl`: what a recursive definition computes for all
  inputs (the string functions, the walk over tags) needs induction over data.
* `LagIsBounded` is proved for `AT+CGLA` alone; for mixed kinds of commands with ERROR answers
  it is false.

## 5. Not modelled

* `-r 0` (no reading of answers), how `scanf` takes command words and ids apart,
  `create_df` and `print_all_files`: input and output of the test program.
* The bytes of an APDU other than instruction, file, offset and data: the model's
  commands are records, and the element that takes them apart is not here.
* `get_file_size_from_fcp`, `receive_responce_from_select_aid`, `get_se_exist_flag` and
  the builders at `at_commands.c:178-213`: nothing calls them.
* Printing and freeing a descriptor, except for the `free` of an uninitialised one;
  the memory that the list loops do not free.
* The texts of the status words (`sw_parser.c`): nothing calls their lookup. Logging.
* `uicc_test1_test.c`: the tests are not run. Unity, but for the jump out of a failed test: vendored.

About half of the lines under `src/` are Unity's, so that the share of
the lines that is mapped cannot come near the share of the program that is modelled.

## 6. Plan

Done: `SecStorage` with `SecureStore` and the refinement, `LogicalChannel`, `Programs`,
`Console`, `ReadMessage`, `BinaryTransfer`, `Answers`, `StorageTests`, and
the proofs of section 4.

Left, most useful first:

* `StorageTests` on an element with half made users, or users without some files.
* Of `Answers` what needs no induction over data: the loop of `read_message` and the bounds
  of `buffer_out`.
* `LogicalChannel` below `SecStorage`: one session for both.
