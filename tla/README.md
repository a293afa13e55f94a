# Verification of flob

flob is a content-addressed blob store in Go. A client takes a `Store` with
`Stores.Use(id)` and calls `Add`, `Get`, `Open`, `Label` and `Erase` on blobs named by
their digest. Stores are isolated from each other, but content is kept once: all stores
of a root, a process or a bucket share the bytes of a digest. Nearly everything that is
hard about flob follows from that sharing, and from its wish to serve concurrent calls
with as little locking as possible.

This directory holds TLA+ models of the backends, of the HTTP client and server, of the
read-through cache, of the decorators and of the commands, the TLC configurations that
check them, and proofs that TLAPS checks.

## Inventory

| Component | State | Operations | Interacts with | What is hard | What makes it correct |
|---|---|---|---|---|---|
| `Store` interface (`store.go`, `error.go`, `digest.go`) | the keys that exist | the five calls | implemented by every backend and decorator | calls overlap | every answer was true at some moment of the call; a key appears by an `Add` and vanishes by an `Erase` |
| `OsStores` (`os.go`, `nlink*.go`) | files under `share/`, `repos/`, `stage/`, `locks/` | the five calls, `tryCleanup`, `moveStageToRepo` | other processes on the same root, through the file system and a flock per digest | `Erase`, `Label` and the reads hold no lock; crashes leave files behind | no wrong, lost, hidden or leaked blob; no error of the store's own making |
| Blob lock (`lock.go`, `OsFileLock`) | who holds `locks/<digest>` | `New`, `Lock`, `Unlock` | `Add` and `tryCleanup` | polled, cancellable, released by the death of a process | everyone who waits gets on |
| `MemStores` (`mem.go`) | two kinds of `sync.Map`, a mutex and a `uint` per blob | the five calls | goroutines | blobs are published before they are counted, and deleted under waiters | exact count, one blob per digest, the retry loop ends |
| `S3Stores` (`s3.go`) | objects `blob/<d>`, markers `refs/<d>/<store>` | the five calls, `PresignOpen` | the bucket, through requests that fail or arrive late | no lock at all; check and act are two requests | a marker always has its blob |
| `CacheStores` (`cache.go`) | a tap, an `io.Pipe` and a goroutine per `Open` | `Open`, `Read`, `Seek`, `Close` | the primary and the origin store | reader and goroutine wait for each other | only whole content is cached; nobody hangs |
| Decorators (`util.go`) | none | `Add` and the reads of another store | any store | check, then act; one store's error becomes another store's answer | every outcome was true at some moment of the decorated call |
| HTTP (`http.go`) | none, requests in flight | handler and client | a store; `CacheStore` through `http.ServeContent` | handlers that outlive their client, redirects, `Seek` before reading | outcomes survive the mapping to status codes and back; a broken request changes its own key at most |
| Commands (`cmd/flob`) | results per file, standard input | `addAll`, `addOutcome`, `ExitCode`, get, read, erase | any store | goroutines under a semaphore that share standard input; several outcomes in one code | the exit code tells what happened; the command ends |
| Configuration, traces, metrics (`cmd/configs`) | counters | `build`, `measure` | any store | which stores share data, deferred decrements | a fallback reads the data its config names; counters count what they say |
| Signing (`sigv4.go`), labels file (`labels.go`) | none | pure functions | `S3Stores`, `OsStores` | string formats | not a matter for these models |

`PROJECT.json` lists the hazards of this code, each at its line, with the properties that
would catch it.

## Modules

| Module | Models |
|---|---|
| `Store` | the calls (`Calls`), their outcomes (`Results`) and what a refused digest answers (`Refusal`) |
| `StoreContract` | the abstract specification of a store, from `store.go` |
| `OsStores` | `os.go`, `nlink_linux.go`, `nlink.go` |
| `OsStoresContract`, `MCOsStoresContract`, `MCOsStores` | history and refinement mapping to `StoreContract`; symmetry for TLC |
| `OsStoresInv`, `OsStoresProofs` | the inductive invariant of `OsStores`; the theorems, the refinement among them |
| `OsStoresLive` | fairness and liveness of `OsStores` |
| `MemStores`, `MemStoresInv`, `MemStoresProofs`, `MemStoresContract`, `MCMemStoresContract`, `MemStoresLive` | the same for `mem.go` |
| `S3Stores`, `S3StoresProofs`, `S3StoresContract`, `MCS3StoresContract` | the same for `s3.go` |
| `S3Sweep` | `S3Stores` with the sweep that `s3.md` describes |
| `HttpStatus` | the status codes of `http.go`, in both directions, and the proof that they lose no outcome |
| `HttpStores`, `HttpStoresContract`, `HttpStoresProofs`, `MCHttpStoresContract` | `http.go` over a store taken at `StoreContract`, its refinement of `StoreContract`, and the theorems |
| `CacheStore`, `CacheStoreProofs` | `cache.go`, and the theorems about it |
| `Decorators` | `util.go`, the wrappers of `cmd/configs/otel.go` and the fallback of `cmd/configs/store.go`, over stores taken at `StoreContract` |
| `Commands` | `cmd/flob/cmd/op.go`, `exit.go`, `arg.go`: composes `Decorators` into a process |
| `CommandsContract`, `CommandsProofs` | history variables of `Commands`, its properties, and the theorems |
| `CommandsSays` | what the repository says of the layers beyond what they do |

### The contract

`StoreContract` keeps the set `has` of keys (store and digest) that exist. A pending `Add`
of right content makes its key appear once (`Appear`), a pending `Erase` makes it vanish
(`Vanish`), and a call is answered (`Reply`) only if the answer is `Justified`: an `Add`
that reports success is the one that made the key appear, and every `ErrAlreadyExists`,
`ErrNotExist`, read, label or erasure was true at some moment between the call and its
answer (`seen`); `ErrAlreadyExists` also says that this `Add` wrote nothing, and that is
all that `ErrNotExist` says of an `Add`, which `HttpStore.Add` has for every 404. Any other
error is a permitted answer provided that the `Add` had no effect; that errors are rarer
than that is a matter of `AddsSucceed`, `ErasesSucceed` and `ReadsAnswer`.

Three constants say what kind of store it is. `Exclusive`: the writers of a key are
serialised. `Remote`: an error says nothing of the effect of the call, which may have
happened or may happen later (`Drift` of the keys in `loose`, which only the writers
`Add`, `Label` and `Erase` add to). `Refuse`: what is answered
to a malformed digest.

| Store | `Exclusive` | `Remote` | Malformed digest |
|---|---|---|---|
| `OsStores`, `MemStores` | yes | no | `ErrNotExist` for reads and `Label`, success for `Erase`, an error for `Add` |
| `S3Stores` | no | yes | the same |
| `HttpStores` | as the store behind it | yes | an error (400) for all |

The README of flob calls the semantics of the backends identical; this table is how they
differ. Without `Exclusive`, two `Add`s of a key can both succeed (`Appear` of a key that
exists) and a `Label` of a well-formed digest can bring an erased entry back (`Rewrite`).

### OsStores

The disk is `share` (the inode named by a digest), `dblob` and `labelled` (what the
directories hold), `content` (what the inodes hold), `repo` (which directory is at a
key's path), `orphans` (staged directories of dead processes). An action is one system
call that another process can observe; a call's own temp file and staged labels are part
of the step next to them. The actions of `Add` follow `os.go` from the check of a given
digest (`AddGiven`) through the lock, the second check and staging (`AddDup`), `os.Stat`
of the shared blob (`AddShare`), the two links (`AddLink`, `AddPublish`) and the copy
(`AddCopy`) to `moveStageToRepo` (`AddRename`, `AddStat`) and the deferred cleanup and
unlock (`AddCleanup`, `Unlock`).

`os.RemoveAll` is not atomic and runs without the lock, so it is modelled step by step as
the Go library does it (`RmTry`, `RmOpen`, `RmUnlink`, `RmClose`, `RmDir`): rmdir, open
and list, unlink each name through the open directory in any order, rmdir again. That a
directory can be refilled, or replaced by another, between these steps is the source of
most races. `os.Rename` refuses an existing directory, as Go's does even when it is empty.

Faults are a crash at any step (the flock and open files go, the files stay), the end of
the context while the lock is polled, and an I/O error of `Add` or `Label`.

### MemStores

`bs` and `es` are the two kinds of `sync.Map`, `mu` and `refs` the fields of a blob. An
action is one operation on a map or one critical section. `refs` is a `uint`:
`Decrement(0)` is `MaxUint`, and `TypeOK` says that this value is never reached. A blob
that nothing points to may be allocated again, which is what garbage collection amounts
to.

### S3Stores and S3Sweep

An action is one request. A request that fails (`Fail`) ends its call with an error, and
if it was a write it may be in `late`, from where it takes effect at any later time or
never (`Arrive`). `Open` and `PresignOpen` share the gate `HeadRef`; `GetBlob` is the
download, by the store or by the client that holds the URL. `S3Sweep` adds the sweep that
`s3.md` calls safe, which is not code of the repository. Two comments of `s3.go` are older
than its code: lines 16-17 say that `Erase` removes the shared blob when no marker remains,
and it deletes the marker alone; lines 430-431 speak of a lost deduplication race, which
needs a deletion of the blob that only the sweep does. The model follows the code.

### HttpStores

A client sends a request (`Send`), a goroutine of the server serves it (`Parse`,
`Fallback`, `Stream`) and the client decodes the answer (`Receive`). Between them a
connection may break at any moment (`Break`): the request never arrives, or an upload is
cut short, or only the answer is lost. The client has its error then, while the handler
goes on as one of the `Orphans`. The store behind the handlers is `StoreContract` itself,
with handlers for callers, local or `Remote` as it is: a remote one may answer an error to
a call that takes effect, at once or later (`Late`). With `Redirect` the store is a
`Presigner`, and so, by `FlagsAssumption`, one at the contract of `S3Store`, the only
`Presigner` there is: `Open` is answered with 307 and the client fetches the blob from the
URL (`Follow`), which the object store may refuse.

### CacheStore

For one digest: each reader has an origin position (`pos`), a tap, a pipe (`offer` is the
chunk that a `Write` waits with, `wend` and `rend` how the ends were closed) and a
goroutine that runs `Primary.Add` (`AddStart`, `AddRead`, `AddCommit`, or `AddFail` when
the context or the store ends it) and then closes the read end (`AddClose`). A reader that
`HttpHandler` opened (`served`) is used by `http.ServeContent`, which asks for the size by
seeking to the end and back (`Size`) before it reads. The stores behind it are taken at
their contract. Content is a sequence of distinct chunks, so content that was reordered,
repeated or cut is told from the whole; it has at least one chunk, and the empty blob is
not covered.

### Decorators and Commands

A call goes through one layer (`layer`): a trace ("plain"), the meter, `AllowDuplicates`,
`CheckExistence`, `PrepareDigest`, or one of the commands get, read and erase ("cli"),
which resolve their digest first. Below it is a backend, or a `FallbackStore`: `secondary`
says which data its secondary store has, the `same` as the primary under `SecondaryId`, or
a `fresh` store of its own, which is what `build` makes for a `mem` store whose secondary
is not set. `PrepareDigest` hashes with the algorithm it was made for: the digest it hands
on is the content's, or `Foreign`, which no store has a blob under. The stages of a call are program counters; each call of a backend is an
`Invoke` of `StoreContract`, answered by `BackendReply`. The backends are taken at the
weakest contract (`Remote`, not `Exclusive`), and `Others` changes any key at any moment, so
one caller meets everything that any number of other callers could do to it.

`Commands` puts `flob add` on top: the loop of `addAll` (`Start`) takes a place in the
semaphore for each file, the goroutine resolves its file (`Resolve`), calls `Add` (`Work`)
and gives the place back with its result; after the last one the results become an exit
code (`Finish`). The error of the command is the set of the outcomes that are joined in it,
so `ExitCode` finds an `ErrNotExist` among failures as `errors.Is` does. Standard input is
`drained` by the first `Add` that reads it to its end.
The process either adds files or, without files, is one whose clients call through layers
(`Use`); the two parts share no state but the backends, which `Others` moves anyway.

## Runs

| Run | Checks |
|---|---|
| `os_contract` | two callers, two stores, one digest, all operations, Linux: the contract, content, deduplication, sufficiency of the lock, no leak of the shared blob or of a link to it |
| `os_recovery` | one caller after up to two crashes, two digests: no `Add` or `Erase` fails, and the contract holds |
| `os_returns` | three callers on one lock, off Linux, one crash, cancellation or I/O error: content, sufficiency of the lock, entries stay, and every call returns |
| `mem_contract` | two callers, two stores, two digests, all operations: the contract, exact counts, one blob per digest |
| `mem_returns` | three callers: every call returns |
| `s3_contract` | two callers, two stores, two digests, one failed request: the contract, and no marker without a blob |
| `http_contract` | two clients, one key, redirects, one connection that breaks, over a remote store that does not serialise its writers (`S3Stores`): the contract of a remote store |
| `cache_tap` | two readers of a blob of two chunks, of programs or of `HttpHandler`: only whole content is committed, what a program reads to the end is cached, what is served over HTTP is not, no `Read` and no goroutine hangs |
| `commands` | one client through every layer, with and without a fallback, or `flob add` with up to two files: outcomes are true, the exit code tells what was written and what failed, standard input goes into one blob, every call and the command end |
| `os_races` | two findings: an `Erase` fails because its directory was refilled before the last rmdir, and a `Get` during it returns a raw error instead of `ErrNotExist` |
| `s3_sweep` | finding: a blob is swept after an `Add` has decided not to upload it |
| `layers_says` | four findings: `PrepareDigest` hides a digest that does not match, a fallback's `ErrNotExist` hides that its primary failed, a `mem` fallback without a secondary does not read the primary's data, and the in-flight counter is 0 while a store works |

What they show. Whatever the interleaving, the filesystem store never serves wrong or
partial content, never hides an entry that nobody erased, and on Linux never loses the
sharing of a digest; what the races cost are spurious errors. The comment on `Erase`
fears that `tryCleanup` may remove the shared blob before a concurrent `Add` renames its
directory into place. `OneCopy` shows that on Linux this does not happen: the `Add` holds
the lock and its link is counted. `os_recovery` shows the other side of the findings: the
errors need a concurrent caller, and nothing that a crash leaves behind provokes them.
`os_races` asks for a state in which both `RequestsSucceed` and `ReadsAnswer` fail, and one
`Erase` against a `Label` and a `Get` is enough for it. With `Ops = {"add", "erase"}`
`RequestsSucceed` fails in another way: an `Add` fails because an `Erase` removed the
leftover that stopped its rename before the stat that should have seen it.

`ServedNotCached` is a limit of the cache that no document mentions: behind `flob serve`, a
`CacheStore` never fills by reads, since `http.ServeContent` seeks before it reads and a
`Seek` stops the tap.

`AnswersTrue` states what the decorators do promise, for the digest that they hand on: a
fallback's `ErrNotExist` is true of the secondary store, and of the primary unless that one
failed. `CheckExistence` over a fallback answers `ErrAlreadyExists` for a blob that only the
secondary has, and the primary never gets it. Where a document or a comment of the
repository promises more, `CommandsSays` states it: that exit code 4 means that the store
answered (`NotExistIsAnswered`, against `exit.go`), that a fallback without a secondary
reads the primary's data (`SecondaryIsRead`, against the configuration's `store.go`), that a
given digest which does not match is refused (`MismatchIsTold`, against `store.go`), and
that the in-flight counter counts what is in flight (`InflightCounts`, against its
description). `denied` collects those that some state of a behaviour contradicts, and
`layers_says` shows a behaviour of one client that contradicts all four. `ExitTells` is what
the exit code of `flob add` does tell. The command's README says that it is 1 when something
failed; it is 4 when one of the `Add`s was answered with `ErrNotExist`, as over HTTP by a
404, since joined errors keep their class.

`StdinOnce` leaves open what a
second `-` adds: the empty blob, or, when the first one failed, the rest of the input.

**Bounds.** Two callers suffice for each race named in the code's comments; `os_returns`
and `mem_returns` have three, so that two wait while one holds. Two stores make sharing
matter; two digests make a given digest differ from the content's. Inodes, directories
and blobs are pools that are reused, and were chosen so that they never run out in any
of the passing runs: no behaviour is cut off for lack of one. `http_contract` has two
`Handlers`, so that a client may have to wait while an orphaned handler runs. That run has
the most permissive store behind the handler. That the handler keeps what a local store
promises beyond that is left to the theorem, as are `get`, whose way is that of `open`
without a redirect, and further handlers: they are out of TLC's time. It has one digest;
that a mismatch survives the status codes is proved in `HttpStatus`. `MaxFaults` bounds the
faults, `MaxCalls` the calls of the liveness runs. `attempts` is 5, as in the code;
`MaxUint` is any number larger than the counts that can be reached. `MaxFiles` is 2 and
`MaxParallel` 2: with one place two goroutines queue, with two they overlap, and 0 is the
flag's default. `commands` has one client, for which `Others` stands for all the rest, and a
`Foreign` digest beside the two of contents, which are the empty content and some other.
The numbers of callers, stores, digests and faults are arbitrary in the proofs.

**Symmetry.** Callers, stores, digests, inodes, directories, blobs and handlers are only
compared for equality. The liveness runs use no symmetry.

**Deadlock.** Only the liveness runs, whose clients stop calling, may stop.

**Fairness.** `OsStoresLive` and `MemStoresLive` assume weak fairness of each caller's
next step: the operating system and the Go scheduler run whoever can run. No strong
fairness is assumed of the lock, since `TryLockContext` polls every 100 ms and may always
come too late, nor of mutexes. Calls return because clients make finitely many.
`CacheStore` assumes weak fairness of the goroutine and of a `Write` that can return, and
that a client closes what it has opened, as `io.Closer` requires of it; it need not read
to the end. `Commands` assumes weak fairness of the loop, of each goroutine and of the
answers of the backends: `os_returns` and `mem_returns` show that their calls return, and
requests over the network fail in the end if nothing else.

## Proofs

All theorems hold for every value of the constants that satisfies the assumptions of the
modules: `None` is none of the other values (no call, no result, no handler, no exit
code), digests and directories (for `MemStores`, also stores and callers) are finite,
`MaxUint` exceeds the number of keys and callers, and `flob add` may call `Add`. Every
safety property of the passing runs is a theorem: their invariants, `OnlyEraseHides`, and the
four refinements of `StoreContract`.

**Invariants.**

- `OsStoresProofs`: `TypeCorrect`, `ContentSafe` (`RightContent`), `DedupSafe`
  (`OneCopy`), `LinksSucceed` (`LinkCannotFail`), `LeftoversGo` (`LeftoverIsReplaced`),
  `SpaceReclaimed` (`Reclaimed`), `LinksTidy` (`NoLitter`), `EntriesStay`
  (`OnlyEraseHides`). All follow from the
  inductive invariant `Inv` of `OsStoresInv`. The properties alone are not inductive:
  `OneCopy` survives a cleanup only because whoever is between `nlink2` and `remove` holds
  the lock and saw a count of one; the count is a cardinality, so the argument is that a
  second link would make it two; no link can be made without the lock; and unlinks
  through an open directory hit only directories that are at the path or detached from
  everything. `Inv` therefore says who owns each directory (a key, a staging caller,
  an orphan, an open `RemoveAll`), what the lock holder knows at each step, and that a
  whole blob stays whole.
- `OsStoresProofs`, recovery: `AddsRecover` (`AddsSucceed`) and `ErasesRecover`
  (`ErasesSucceed`). These are not invariants of the specification, as the findings show,
  and the theorems name what they need: the only faults are crashes, any number of them,
  and no two calls are on the same entry at the same time (`Apart`), which the run
  `os_recovery` has by having one caller. Calls of other entries, also of the same digest,
  may overlap. The invariant `Clear` says that a `RemoveAll` has open what is at the
  path, and has listed all that it holds, so its last rmdir finds an empty directory.
- `MemStoresProofs`: `CountExact` (`RefCount`), `SharedBlob` (`OneBlob`), `RetrySound`
  (`NoZombie`), `TypeCorrect`. `RefCount` is an equation between a count and the sizes of
  three sets: entries that point to the blob, Erases that have detached an entry and not
  yet decremented, and Adds that have stored an entry and not yet incremented. Each
  action moves one element between these sets. `Inv` adds who owns the mutex at each
  step, and that an `Add` past its wait works on the blob that is in `bs`.
- `S3StoresProofs`: `TypeCorrect`, `NeverDangling` (`CommittedReadable`). The invariant
  adds that whoever is about to put a marker, and every late marker, has its blob.
- `HttpStoresProofs`: the invariant under the refinement. A client's handler serves the
  client's own call, since a handler which is waited for is never free (`Waits`); the
  store is called with the request as it is, only with a digest that was sanitized, and
  what it has answered is right by its contract and stays right (`Serves`).
- `CacheStoreProofs`: `TypeCorrect`, `WholeContent` (`TapFaithful`), `ServingCachesNothing`
  (`ServedNotCached`), for any number of readers and any number of chunks but 0. That the
  content is whole at an end of file is not inductive: the invariant says that while the
  tap is on, the chunks the goroutine has got, with the one on offer, are in order and as
  many as the origin has given, that a tap that is on has an open write end, and that a
  `Read` waits at the pipe only through a tap that is on. Each part speaks of one reader,
  so the proof shows per action that it keeps the part of its reader and leaves the
  others alone (`OwnPart`).
- `CommandsProofs`: `LayersTellTruth` (`AnswersTrue`), `OneReaderOfStdin` (`StdinOnce`),
  `ExitCodeTellsTruth` (`ExitTells`), for any number of files, clients and digests and any `--parallel`. The
  invariant of a call ties its stage to what was asked of which backend (`Asks`), and what
  the backend saw in that inner call to the history of the call around it (`Recalls`): the
  Get of `CheckExistence` and the read of the secondary are about the same digest as the
  call, and a call that has fallen back has seen the key absent or its primary fail. The invariant of `flob add` adds that goroutines start in order (`Loop`) and that
  with standard input only one runs, and that it is known to be drained once one of them
  has succeeded (`Sequential`); a result of a goroutine that is done never changes, so the
  exit code stays true.
- `HttpStatus`: `CodesAreFaithful`, that every outcome the contract permits comes back
  from its status code.

**Refinements.** `Refinement` of `OsStoresProofs`, `MemStoresProofs`, `S3StoresProofs` and
`HttpStoresProofs` states `KeepsContract`, step by step: initial states map to initial
states, and each action is mapped to the action of `StoreContract` it implements or to
none. The keys change at `os.Rename` and at the unlink of `blob` for `OsStores`, at
`es.LoadOrStore` and `es.LoadAndDelete` for `MemStores`, at the requests that put or delete
a marker for `S3Stores`, and, for `HttpStores`, whenever the store behind the handlers
changes them. An answer is `Justified` because of the history: `HistoryInvariance` says
that `seen` has what is the case now, and whatever an earlier step of the call found and a
later one relies on (`Witnessed`, `Recalls`). For `S3Stores` the `loose` keys of the
contract are those of late requests; for `HttpStores` those of the store behind and of
orphaned handlers, so a write for a client that has gone is a `Drift`, and a write for a
client that waits is a step of its call. When a remote store answers an error, the call of
its client is answered in the same step (`Lost`), since whatever comes of it may come
later and the code that carries the error can only be 500. The proof for `HttpStores` uses no more of the store behind the handler
than `StoreContract`, and cites `CodesAreFaithful` for the way back.

Only model-checked, since the prover has neither fairness nor ENABLED: `EveryCallReturns`,
`ReadReturns`, `GoroutineEnds`, `WholeReadIsCached`, `CommandEnds`, `CallEnds`.

## Not modelled

Label values and sizes; formats (labels file, keys, paths, signatures); the durability of
writes that are not synced; I/O errors inside `os.RemoveAll`; `TryLock`, `memBlob.Inc`
and `MemStores.mu`, which nothing uses; over HTTP, label headers, ranges,
conditional requests and paths that `HttpStore` does not send; layers over layers, of
which each passes on what the one below answers; the decoding of config files and the
recursion of `build`, which does not end for a config that names itself; the commands
`hash`, `conf` and `serve`, which compute, print or wire; the operation counter and the
histogram, which nothing reads.

## Plan

Done: the contract, the three backends, HTTP, the cache, decorators and commands, their
runs, and proofs of all their safety properties and of the refinements of the contract.
Next, in this order:

1. What liveness rests on that is safety, as theorems: who may hold a lock or mutex while
   others wait for it (`OsStores`, `MemStores`), and who waits for whom at the pipe of
   `CacheStore`.
2. `CacheStore` against `StoreContract`, as the one store that has no contract yet.
3. Recovery of `OsStores` when other callers use the same entry but do not write it.
