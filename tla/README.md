# A verification development for zoomrs

zoomrs copies the cloud recordings of a Zoom account to local drives and
removes them from Zoom when they are safe. Its one serious failure is a
recording that leaves Zoom before anybody has it. These modules model the parts
of the program that decide what is stored, downloaded, evicted and removed, and
what the program tells of it; TLC checks them on small accounts and TLAPS proves
their safety properties for all accounts.

Paths below are relative to the repository.

## 1. The system

| Part | State | Operations | Module |
| --- | --- | --- | --- |
| Sync job, `repo/repo.go` 75-197 | none of its own; the feed in hand | `SyncMeetings`: skip, select records, `SaveMeeting` | `SyncJob` |
| Download job, `repo/repo.go` 199-328, 488-549 | the record in hand | `DownloadOnce`, `DownloadRecord`, `freeUpSpace`, `meetingRecordsLoaded` | `DownloadJob`; several of them: `SharedDownload` |
| Record store, `storage/sqlite/storage.go` | tables `meetings`, `records` | one SQL statement each | `RecordStore` |
| Repository folder | one folder per record | `RemoveAll`, `grab.Get` | `Disk` |
| Zoom client, `client/client.go` | a cached token | `GetToken`, `Authorize`; feeds, `DeleteMeetingRecordings`, `DeleteRecordingsOverCapacity` | `TokenCache`; `ZoomCloud`, `CloudCap` |
| Service, `cmd/service/main.go` | - | starts both jobs as goroutines; systemd restarts it | `Instance` |
| HTTP API, `cmd/service/api.go` | a cache | `meetingsLoadedHandler`; `statusHandler`, `checkConsistencyHandler`; lists | `Cleanup`; `WebApi`; - |
| CLI, `cmd/cli/main.go` | - | `trash` (`CleanupJob`), `cloudcap`, `sync`, `check` | `Cleanup`, `CloudCap`, `CliSync`, `WebApi` |
| Web client, `webauth`, terminal interface, packaging | - | no state of the program | not modelled |

How the parts interact:

- The sync job and the download job of a service share the database and
  nothing else. No statement is grouped with another in a transaction.
- Both remove meetings from Zoom: the download job what it has downloaded, the
  sync job (with `delete_skipped`) what it will not save. So do `trash` and
  `cloudcap`, and so do other instances, each with a database and a drive of
  its own.
- `trash` asks each instance over HTTP; an instance answers from its database
  and its drive while its jobs go on.
- The goroutines of a service share one `ZoomClient` and its token. The mutex of
  `GetToken` is a variable of the call, so it excludes nobody.
- Cron starts the sync command whether or not the previous one has ended. Two
  of them, or one beside the service, share a database and a folder.
- A request to the API is a goroutine; it reads what the jobs are writing, and
  the status page keeps its last meeting in a cache common to all requests.
- The status of a record is the only memory of the download job: it holds no
  state between two calls of `DownloadOnce`, and a restart loses only the call
  under way.

What is hard about it: statements of two jobs interleaved; a stop between a
file operation and the update that records it; errors that callers ignore
(`UpdateRecord` before and after a failed download, `freeUpSpace` as a whole);
partial files and resumed transfers; answers used minutes after they were
given; a retry policy spread over the status column; check-then-act on the
token, on the cache, on the queue and on a file about to be written. Each such
place is in the `hazards` of `PROJECT.json` at its line, with the properties that
watch it.

What makes each part correct:

- *download job*: nothing is released that was not obtained in full; a record
  under status `downloaded` is a complete file; retries starve nobody and
  repeat nothing; eviction is by age and only below the reserve;
- *sync job*: a saved meeting has all of its wanted records; only what is to be
  skipped is dropped;
- *cleanup*: no meeting goes before every instance has it; the job ends;
- *cloudcap*: what is left fits, and is the most recent part;
- *sync command*: it exits with success only when the work is done;
- *several downloaders*: whatever they do to each other, a file or a status is
  spoilt only where two of them had the same record at once;
- *token*: the cache gives it up before Zoom does, and a bad one does not stay;
- *status page and check*: "OK" means that everything was downloaded, the last
  meeting catches up with the list, and no unfinished download is taken for
  damage.

## 2. The modules

    Account            the meetings
      Recordings       their files, the choice of the wanted ones, the queue's order
        RecordStore    the database: one operator per SQL statement
        Disk           file sizes and free space
        Archive        what an instance promises (abstract)
      ZoomCloud        what Zoom keeps, DeleteMeetingRecordings
    Failures           which kinds of call fail in a run, how many restarts

    DownloadJob  = RecordStore + ZoomCloud + Disk + Failures
                   implements Archive, and the instance of Cleanup
      CliSync    = DownloadJob under the loop of the sync command
    SyncJob      = RecordStore + ZoomCloud + Failures
    Instance     = DownloadJob + SyncJob, restarts
    Cleanup      = Recordings + ZoomCloud + Failures + a fleet of instances
    CloudCap     = ZoomCloud + Failures + the listing in chunks
    WebApi       = DownloadJob + /status with its cache + /check
    SharedDownload = RecordStore + ZoomCloud + Failures, files as bytes, processes
    TokenCache   = Failures + the token of a process and its callers
    *Proofs      theorems about DownloadJob, Instance, CliSync, Cleanup, CloudCap,
                 SharedDownload, TokenCache and WebApi
    MC*          accounts for TLC

Operators described as "Faulty variant" stand before the definition that they
vary. They are no part of the model; each one is a plausible mistake at that
place of the code that a property has to detect.

### Accounts and drives

`Recordings` gives each record a meeting, a start time and a `Class`, the
configured list that names its type (`syncable.important`, `alternative`,
`optional`) or `"other"`. `Selected(m)` is the choice of `SyncMeetings`:
important files, or alternative ones of a meeting without any, and the optional
files. Record ids are numbers because SQL orders by them. `Disk` keeps the number
of bytes of each record's file; `file[r] = 0` is the empty folder of a record under
way, and no folder at all for one that was downloaded.

### Download job

One action per call that another process or a restart can see. `dpc` is the
place in `DownloadOnce`: `idle` → `token` → `claim` → `prepare` → `space`
(→ `evict` → `evicted` → `evict` …) → `fetch` → `mark` or `fail` → `loaded` →
`purge`; `reset` follows an empty queue. `rec` is the record in hand, `listed`
and `victim` are the local variables of `freeUpSpace`.

- `TryUpdate` is an `UpdateRecord` whose error is ignored; `MarkDownloaded`
  and `MarkFails` are the one update whose error is not.
- `FetchComplete` is a response 200 with any file already complete accepted;
  `FetchResumed` completes a partial file with a response 206, which the code
  takes for a failure; `FetchBroken` leaves any part of the file, or as much as
  the drive has room for (`FillsDrive`); `FetchRefused` is every other status.
- `Mismatched` records never have the recorded size or type, so they fail each
  time after a complete transfer.
- `SpaceFails` covers the errors of `freeUpSpace`, after which the download
  goes on.
- `Crash` keeps the database and the drive and loses the rest; a transfer under
  way may leave a part of its file.
- `archived`, `purged` and `missed` are history variables; no guard reads them.
  `missed` holds the meetings whose one removal was refused, could not be
  decided, or was cut off by a restart, after their last record was marked: a
  failed look before that is repeated with the next record.

`Save` and `TrimCloud` are the environment of this module: meetings are saved
whole here. `Instance` replaces `Save` by the statements of `SyncJob`.

### Sync job and instance

`InsertMeeting` and `InsertRecord` are the statements of `SaveMeeting`, in the
order of the code: the meeting's row first, optional records last. `SaveFails`
is an error of any statement, which ends `SyncMeetings` and keeps the rows
written so far. `Restart` stops both jobs at once. `cutShort` remembers the
meetings whose `SaveMeeting` was ended with rows still to write.

### Cleanup

`cpc` follows `CleanupJob`: `list`, `ask` (the next instance), `check` (its
handler is looking at one meeting after the other), `delete`. An instance is
seen through the status and file of its records only; what is queued, under way
or failed is one status. Its steps are `Store` (`SaveMeeting`, whole unless the
database fails), `Fetch` (a transfer, whatever it leaves on the drive), `Obtain`
(the update to `downloaded`), `Purge` (its own removal of a meeting),
`RemoveFile` and `MarkDeleted` (the two steps of an eviction), and `DropShort`
of its sync job. `OthersDelete` is another client of the account, and `Damage` a
file that changes its size. That an instance does nothing else is not only
claimed: `DownloadJob` states it as the property `ServesCleanup`, under the
mapping `SeenStatus` and `SeenFile`. Both modules save a meeting in one step;
what happens between the statements of `SaveMeeting` is the subject of
`Instance`. A feed that fails (`FeedFails`) and a request that fails
(`AskFails`) are both followed by a minute of waiting (`wait`, `WaitOver`) and a
new start, but only the second is counted (`repo/repo.go:336` and 366). A
handler looks at one meeting in one step: what happens between two of its
records is not told apart from what happens between two meetings.

### Cloud capacity

`ListChunk` is `GetIntervalMeetings` for days `n*ChunkDays` to
`(n+1)*ChunkDays` ago, both included; `listed` is a bag, since a meeting can be
listed twice. `ListFails` starts from today again, at most `Tries` times.
`Trim` visits the list from the most recent meeting on.

### CLI sync

`Loop` groups the actions of `DownloadJob` by what `DownloadOnce` returns in
the end; `GetFails` is an error of the query for the next record, which changes
nothing but what the command remembers. `RequeueFailed` returns
`ErrNoQueuedRecords`, after which the command exits if the previous error was
the same. Saving comes before downloading here,
in one process.

### Several downloaders

`SharedDownload` runs the download job in several processes over one database
and one folder. A file is its bytes here: byte *n* of a recording is the number
*n*, so an intact file is `<<1, 2, ...>>` up to its size. A process looks at the
file, opens it once Zoom has answered (`OpenFile`), and writes byte after byte.
What the library saw decides how: without a file, or without an answer to its
`HEAD` request, each byte is written at its place (`PlanFresh`; a gap reads as
zeros); a shorter file is appended to from the length it had (`PlanResume`), or
emptied and written anew when the server does not accept ranges (`PlanAnew`). Between any two of these steps
the other process may do the same. `shared` remembers the records that two
processes had in hand at once; the properties say that nothing is ever spoilt
outside it. That sharing does spoil files is what `MCSharedDownload` reaches as
soon as `\ shared` is left out of a property: both processes append the first
byte of a file of two before both transfers break, the next attempt accepts
`<<1, 1>>` by its length and marks it downloaded, and the meeting leaves Zoom
although nobody has byte 2. For shared records `ReleasedIntactUnlessShared`
promises the mark in the database and nothing of the file. Eviction and database errors are
left to `DownloadJob`.

### Token

`TokenCache` follows `GetToken` of each goroutine: `Begin` reads the cache,
`Issue` is Zoom's answer, `Store` decodes it into the shared structure and
`SetExpiry` writes `ExpiresAt`, two writes that another goroutine sees apart;
`Use` is the request that carries the token of that moment. Zoom accepts the
last token it issued, until its life is over. `Tick` is the passing of time;
`Spoil` an authorization by another process with the same credentials.
`crossed` remembers that the last token was issued across another caller.

### Status page and check

`WebApi` sets requests beside the running download job. A `/status` request goes
through `mcache`: `Has` is a look and, for an expired entry, a removal in a
critical section of its own; `Get` reads in another one (`Read`, or
`ReadNothing` if the entry is gone by now, which panics); `Set` looks and then
writes. `/check` takes the list of downloaded records and looks at one file per
step; its three calls of `os.Stat` on one file are one step. The report of Zoom
is kept in the same cache under the same discipline and is not told apart from
the next one.

## 3. What the runs show

| Run | Account and bounds | What TLC finds |
| --- | --- | --- |
| `download_faults` | 2 meetings, 5 records (two of them not wanted), every kind of failure, 2 restarts | `RemovalInHand`, `NoLoss`, `CompleteCopy`, the inductive invariant `IInv`, `ArchivedIsFinal`, refinement of `Archive` (`ImplementsArchive`) and of the instance of `Cleanup` (`ServesCleanup`) |
| `download_liveness` | the same records, one longer than the others, on a drive for two of them, broken transfers, refused requests, other owners, a restart, a record that always fails | `SpaceBeforeFetch`, `DownloadedIsOnDisk`, `OldestEvictedFirst`, `ReleasedUnlessMissed`, `EveryRecordArchived`, `AbandonedIsRequeued` |
| `instance_faults` | both jobs, 3 meetings, every kind of failure, a restart | `InstanceTypeOK`, `RowsLostOnlyByCut`, `OkMeansDownloaded`, `EarlyPurgeOnlyIfUnsaved`, `PurgeLosesOnlyNewRows` |
| `instance_loss` | both jobs, nothing fails | *violated* `NoLoss` |
| `cleanup_fleet` | 2 instances, a meeting too short to be saved, one retry, refused requests, a failing feed, damaged files, other owners, a signal | `TypeOK`, `NoSweepBeforeAllLoaded`, `CleanupEnds` |
| `cleanup_missing_file` | nothing fails | *violated* `LoadedMeansPresent` |
| `cloud_cap_trim` | 6 meetings, 3 tries, refused requests, other owners | `TypeOK`, `FitsCap`, `OldestGoFirst`, `CapEnds` |
| `cloud_cap_twice` | meetings on a common day of two chunks | *violated* `KeepsRecent` |
| `cli_sync` | every kind of failure, one restart | `CliTypeOK`, `ExitMeansComplete`, `CommandExits` |
| `shared_download` | 2 processes, a meeting with files of two bytes and one, breaks, refusals, a server with and without ranges, a restart | `SharedTypeOK`, `DamageNeedsSharing`, `FinalUnlessShared`, `ReleasedIntactUnlessShared` |
| `token_cache` | 3 callers, a life of 5 ticks, refused and lost answers, another process | `TokenTypeOK`, `ExpiryBounded`, `RequestsAccepted`, `StaleEnds` |
| `web_api` | 2 requests, 2 meetings with a video each, a drive for one file beyond the reserve, broken transfers, a restart | `WebTypeOK`, `LoneRequestReads`, `CheckFlagsOnlyEvicted`, `LastCatchesUp` |

The violated properties state what the documentation, or a comment, says of the
program; `findings` in `PROJECT.json` quotes it. The most serious is
`instance_loss`: the download job may finish the first records of a meeting
while `SaveMeeting` is still inserting the others, find all rows loaded, and
delete the meeting. `EarlyPurgeOnlyIfUnsaved` shows that a `SaveMeeting` under
way, or one that was cut short, is the only cause of a removal that comes too
early, and `PurgeLosesOnlyNewRows` that no failure adds a second way to lose a
stored record.

Several properties name an exception, and each exception happens:

- `cutShort` in `RowsLostOnlyByCut` and `OkMeansDownloaded`: after a stop or a
  failed statement inside `SaveMeeting` (`storage/sqlite/storage.go:62`) the
  meeting has a row, later feeds pass over it, its missing records are never
  downloaded, and the status page says "OK";
- `missed` in `ReleasedUnlessMissed`: a refused request keeps a downloaded meeting
  in Zoom for ever, although `README.md:13` promises its removal
  (`repo/repo.go:246` asks once);
- `Crowded` in `EveryRecordArchived`: complete or partial files of records that
  did not become downloaded are invisible to `freeUpSpace`; enough of them
  stop every later download. The reserve is compared before a download and not
  after it (`repo/repo.go:495`), so a file may not fit although the reserve was
  free: `download_liveness` has a longer file for which that happens, and
  `EveryRecordArchived` says that the failed transfer is made good;
- restarts in `DownloadedIsOnDisk`: a stop between `RemoveAll` and
  `UpdateRecord` (`repo/repo.go:525-528`) leaves a downloaded record without its
  file, for ever; the property says that each restart leaves one at most, and
  nothing else does;
- `shared` in `SharedDownload`, and `crossed` in `RequestsAccepted`: two
  processes with one record spoil its file, also that of a meeting which then
  leaves Zoom; two goroutines that authorize at once send a token that Zoom has
  replaced;
- `met` in `LoneRequestReads`: two overlapping status requests can make
  `Cache.Get` return nil, and the request panics.

Divergences from the documentation that a line of the code shows without a run:
`delete_skipped`, documented for short meetings (`config/config.go:29`), also
removes long ones without a wanted file (`repo/repo.go:172`). One meeting of the
day that nobody saves keeps the trash command from removing anything
(`cmd/service/api.go:382`), although `README.md:263` promises that it will.
`CheckConsistency` drops the value of `errors.Join` (`repo/repo.go:466`): the
`check` of `README.md:240` answers OK whatever it finds. The status page panics
until the first video is downloaded (`cmd/service/api.go:148`).

Bounds. Two meetings suffice for an order between meetings, one of them with two
wanted records for the order inside a meeting and for a save in two statements.
Files have two units, so that a partial file exists. The drive of
`download_liveness` holds fewer records than there are, so eviction happens
several times; one file has three units, so that with a reserve of one unit it
may not fit into what is free; and one meeting's files start at different times, so that the
first of them can be evicted before the last one arrives. Two restarts allow a
stop during the recovery from a stop. In `Cleanup` two instances make the first
answer stale while the second one is asked, two of the three meetings of the day
are saved, and the limit of ten retries is one. In `CloudCap` the chunk of 30
days is two, with two meetings on a day that two chunks share, one alone on
another such day, and an empty chunk before the last meeting. In
`SharedDownload` a file of two bytes can be resumed in the middle and a second
record makes the meeting's removal wait. In `TokenCache` three callers let one
use a token while two authorize; the margin of five minutes is two ticks, and
an answer and the way from `GetToken` to the request take at most one each. In
`WebApi` two requests overlap and the cached meeting lives for one tick. The
counters `crashes`, `retry` and `failed` are bounded by `MaxCrashes`,
`RetryLimit` and `Tries`; only the first bound is not in the code.

`CHECK_DEADLOCK FALSE` stands in the configurations of the three commands, which
end. The jobs of a service never do, and their runs check deadlock.

Fairness. `FairSpec` of `DownloadJob` assumes weak fairness of the goroutine
(`DownloadJob` loops for ever and each call returns), and strong fairness of a
granted token and of a completed transfer of each wanted record: Zoom is not
down for ever, and a record that is asked for again and again arrives, or fills
the drive where it does not fit. The code
retries without a limit, which is what turns these assumptions into progress;
records in `Mismatched` get no such promise of a usable file. A removal is asked
for once, so no fairness of it is assumed. Nothing is assumed about the
environment's saving or trimming. `CliFairSpec` says the same of the command's
loop, its folders and its database; the database must not fail on exactly those
calls that follow an empty queue, the query for the next record or the reset of
the failed ones. `CloudCap` assumes only that the process keeps running: its counters end
it. So does `Cleanup`, and there the counter is not enough: nothing limits the
retries of a failing feed (`repo/repo.go:336-345`). Fairness says nothing of the
feed, and `CleanupEnds` says what follows: the job ends, or from some point on it
does nothing but ask for the feed and wait. `FairSpec` of `TokenCache`
assumes that time passes, that goroutines run and call `GetToken` again, and that
each caller gets an answer and keeps it if it asks often enough; `StaleEnds` has its two
other conditions in its statement. `WebFairSpec` assumes that time passes and
that a request under way goes on; new requests and the job owe nothing.

## 4. What is proved

TLAPS checks the theorems of eight modules, for every account, every size of the
drive, every combination of options and failures, every number of processes,
instances, callers and requests, and any number of restarts. The assumptions are
those the modules name: finitely many meetings and records, positive sizes, the
domains of the constants, and for tokens that an answer and a use together take
no longer than the margin. Four theorems assume more: `SpaceBeforeFetchCorrect`
that neither the drive nor the database fails, `OldestEvictedFirstCorrect` that
the drive does not, `DownloadedIsOnDiskCorrect` and
`NoSweepBeforeAllLoadedCorrect` that the database does not. Without it the
properties are false: the code goes on when `freeUpSpace` fails, a folder that
`RemoveAll` cannot delete is passed over for a younger one
(`repo/repo.go:525-528`), an eviction whose update fails leaves a downloaded
record without its file, and a half-saved meeting looks loaded to the handler.

- `DownloadJobProofs`: `TypeCorrect`, `IInvCorrect`, `NoLossCorrect`,
  `CompleteCopyCorrect`, `ArchivedIsFinalCorrect`, `Refinement` of `Archive`,
  `RemovalInHandCorrect`, `ServesCleanupCorrect`, `SpaceBeforeFetchCorrect`,
  `OldestEvictedFirstCorrect`, `DownloadedIsOnDiskCorrect`.
- `InstanceProofs`: types, `RowsLostOnlyByCutCorrect`, `OkMeansDownloadedCorrect`,
  `EarlyPurgeOnlyIfUnsavedCorrect`, `PurgeLosesOnlyNewRowsCorrect`, and
  `CompleteCopy` and `ArchivedIsFinal` again, with records that appear one by one.
- `CliSyncProofs`: `CommandRefinesJob`, `CliTypeCorrect`,
  `ExitMeansCompleteCorrect`.
- `CleanupProofs`: `TypeCorrect`, `SweepsWhatIsHeldCorrect`,
  `NoSweepBeforeAllLoadedCorrect`, `CleanupAdvances`.
- `CloudCapProofs`: `TypeCorrect`, `OldestGoFirstCorrect`, `FitsCapCorrect`,
  `CapAdvances`.
- `SharedDownloadProofs`: `SharedTypeCorrect`, `DamageNeedsSharingCorrect`,
  `FinalUnlessSharedCorrect`, `ReleasedIntactUnlessSharedCorrect`.
- `TokenCacheProofs`: `TokenTypeCorrect`, `ExpiryBoundedCorrect`,
  `RequestsAcceptedCorrect`.
- `WebApiProofs`: `WebTypeCorrect`, `LoneRequestReadsCorrect`,
  `CheckFlagsOnlyEvictedCorrect`.

The arguments. `NoLoss` is not inductive: a step may remove a meeting because of
what `meetingRecordsLoaded` saw one step before. `IInv` adds what is used:

- `WholeMeetings`: the rows of a saved meeting are its selected records, so
  "all rows are downloaded" means "all wanted records are". This is the
  assumption that `SaveMeeting` is whole, and exactly what fails in
  `instance_loss`;
- `ArchivedStatus`: a record was obtained if and only if its row says
  `downloaded` or `deleted`, so the status column can be trusted as a memory;
- `InFlight`: the record in hand is neither, so no eviction and no second
  download hits it, and at `mark` its file is complete;
- `EvictsArchived`: eviction touches obtained records only, and an evicted file
  stays away;
- `PurgeDecided`: the decision taken at `loaded` still holds at `purge`: all of
  the meeting was obtained, its rows still say so, and an option asks for the
  removal.

`Archive` maps `obtained` to `archived`, `local` to the complete files under
status `downloaded`, and `released` to `purged`. The space properties add what
`freeUpSpace` has yet to visit: a downloaded record with a file is in `listed`.
`DownloadedIsOnDisk` counts: the records under status `downloaded` without their
whole file, the one under eviction aside, grow by one at a restart between the
two steps of an eviction and never otherwise.

`RemovalInHand` is the safety half of `ReleasedUnlessMissed`: in every state, a
meeting that was downloaded in full and is still in Zoom is about to be removed,
or is in `missed`, or lost a record to eviction before its last one arrived. The
last record to be marked brings its meeting to `loaded`; from there each way
out of `DownloadOnce` removes the meeting or records the miss, and all other
steps leave the three reasons in place (`Uninvolved`).

`ServesCleanup` maps each step of the job to one step of the instance that
`Cleanup` supposes, or to none; `IInv` supplies what the guards over there ask
for, a full file at the update to `downloaded` and loaded rows at a removal. The
mapped job is one instance beside an idle trash command, so it bounds what an
instance does to its records, its files and Zoom.

`JobInv` is the part of `IInv` that does not depend on how rows are written
(types, `ArchivedStatus`, `InFlight`, `EvictsArchived`, `CompleteCopy`); every
step of the job keeps it and the rows. So it carries over to `Instance`, where
the rows of a meeting are described by what `SaveMeeting` has yet to write, and
to `WebApi`, whose requests leave the job alone. What an instance's removal
loses is then what the decision at `loaded` could not see.

`CliSync`: each step is a step of the job or none, so `IInv` holds; besides it,
after an empty queue and until the next error no record is failed or under way
but the one in hand.

`Cleanup`: an instance that holds a meeting (it has rows of it, and has
downloaded each record it has a row of) never ceases to hold it, so what an
answer established stays true, however old the answer is. This needs no
assumption: `SweepsWhatIsHeld`. That to hold a meeting is to have all of it
needs a whole `SaveMeeting`, hence the condition of
`NoSweepBeforeAllLoadedCorrect`.

`CloudCap`: a listed meeting is never older than the start of the next chunk,
which bounds how often it is listed; the loop has visited a most recent part of
the list, and what was removed was visited beyond the limit. `FitsCap` adds
that the visited meetings have no more bytes, counted once, than `used`, and
that those of them still in Zoom and not refused fit in the limit. It is a statement about sums, whose laws (a sum
without a member, a sum over a larger set) are proved from the definition of the
community module's fold by induction over the subsets of a finite set
(`SubsetInduction`, from the well-founded order of strict subsets).

Both commands end. The prover cannot conclude `<>` from fairness, but what the
conclusion rests on is proved: `CapAdvances` and `CleanupAdvances` give each
state a tuple of natural numbers, `WorkLeft`, that every step of the command
lowers lexicographically and no step of anybody else raises. The one exception is
`FeedRetry` in `CleanupAdvances`, a feed that fails and the wait after it, which leave
the measure as it is: hence the second half of `CleanupEnds`. For `cloudcap` it
is the tries left, the phase, and the chunks or visits left, where the chunks
are bounded by the oldest meeting's day and the two empty ones behind it;
`HasNext` adds that the loop finds a meeting to visit until it has visited all.
For `trash` it is the tries left, the phase, the instances to ask, and the
meetings to check or to remove.

`SharedDownload`: two processes with one record share it; a process alone with
its record knows its file to be as long as the transfer has come, and intact
when it marks it.

`TokenCache`: the token Zoom issued last is hardly older than the answer a
caller still holds; without crossing, a caller that authorizes is alone.

TLC checks `IInv` in `download_faults`; the other invariants were checked on the
runs' accounts before they were proved.

Only model-checked: the liveness properties `ReleasedUnlessMissed`,
`EveryRecordArchived`, `AbandonedIsRequeued`, `CleanupEnds`, `CapEnds`,
`CommandExits`, `StaleEnds` and `LastCatchesUp`, since the prover has no rule
for `ENABLED`. Every invariant and every action property of the passing runs,
and both refinements, are proved, four under the conditions named above.

## 5. What is not modelled

- The web client, authentication, the terminal interface, flags, YAML, logs,
  packaging: no state that the properties speak of.
- `DeleteMeeting` and `Cleanup` of the store: only tests call them.
- `listMeetings`, `watchMeeting` and the page of statistics, `GetStats`, the
  rounding of sizes: they read rows and files and decide nothing.
- The page tokens of a listing (one answer here), and the report of Zoom, which
  shares the cache of the status page and its discipline.
- A stop inside `os.RemoveAll`, after the file and before its folder.
- The meetings that `cloudcap` never lists, because two empty chunks ended the
  listing before them (`client/client.go:202`): its properties speak of the listed
  ones, and the others stay in Zoom.
- A sync command with a record that fails for good: it never exits
  (`cmd/cli/main.go:131`), and `CommandExits` has no such record. What the command
  that cron starts beside it can do is the subject of `SharedDownload`.
- A wait between `GetToken` and the request that is longer than the margin
  of `Authorize` (`client/client.go:85`), as a long eviction could make it.
- Two downloaders together with eviction or a failing database: each is modelled
  without the other.
- A meeting that gets more recordings after its first sync: the account is
  fixed. What is added later is lost, since the meeting has a row
  (`repo/repo.go:190`).
- A type that two of the configured lists name. The record then comes twice, its
  second INSERT breaks the primary key, and the meeting is half saved like one
  whose `SaveMeeting` failed (`repo/repo.go:152`).

What could still be added: the last two items, as an account that changes and a
`Class` of several lists, and the composition of `SharedDownload` with eviction.
