# TLA+ models of rakoshare

This directory holds TLA+ models of the rakoshare client, with TLC
configurations that check them and TLAPS proofs about them. The sources are:

- `src/unnamed/part_000`: the control session (`ControlSession`).
- `src/unnamed/part_001`: the file store.
- `src/metainfo.go`: metainfo loading.

## The system and its parts

| Part | Source | What it does | Model |
|---|---|---|---|
| Peer table | `part_000`: `Run`, `hintNewPeer`, `connectToPeer`, `AcceptNewPeer`, `AddPeer`, `ClosePeer`, `DoMessage` | `cs.peers` maps a remote address to a `peerState`. The event loop `Run` spawns `connectToPeer` for every DHT or tracker address that is not in the table. Each connector goroutine (and the listener, through `AcceptNewPeer`) calls `AddPeer` on its own goroutine. The reader and writer tasks of a peer feed `peerMessageChan` and send `nil` when they die. The loop closes a peer on a bad message, on a `nil` sentinel and on a keep-alive timeout. | `PeerTable`, `PeerTableProofs` |
| Info-hash gossip | `part_000`: `SetCurrent`, `broadcast`, `ihMessage`, `DoHandshake` | The application goroutine calls `SetCurrent(ih)`, which sets `cs.currentIH` and `cs.rev`, saves the marker and broadcasts to every peer with `bs_metadata`. At the same time, the loop answers each extension handshake with `ihMessage(cs.currentIH, p)`. | `IHGossip`, `IHGossipProofs` |
| Current marker | `part_000`: `NewControlSession`, `SetCurrent` | `{bitshareDir}/current` holds the last IHMessage. It is restored at start-up, but the rev is kept only if `strings.Split(rev, "2")` has two parts. | `CurrentMarker`, `CurrentRegister`, `CurrentMarkerProofs` |
| Metadata announce, Quit, deadlock detector, timers | `part_000`: `DoMetadata`, `Quit`, `deadlockDetector`, `Run` | The loop sends on `cs.Torrents` and `trackerReportChan`. A detector panics the process after 15 s without a heartbeat. | not yet |
| File store | `part_001`: `NewFileStore`, `fileEntry.open`, `find`, `ReadAt`, `WriteAt`, `SetBad`/`SetPart`, `Cleanup` | Maps one byte range over many files. `find` uses a binary search. `.part` staging is handled by `SetBad` and `Cleanup`. | `FileStore` |
| Metainfo | `src/metainfo.go`: `NewMetaInfo*`, `RawInfo`, `saveToDisk`, `getMetaInfo` | Loads torrents from HTTP, magnet links, files or the string itself. Hashes the info dictionary, caches its encoding, and saves to disk. | `Metainfo`, `MetainfoProofs` |

The tracker client, the DHT, the listener, the `peerState` reader and writer,
and the bencode codec are not under `src/`. They appear only as the
environment of these models: addresses arrive, connections are lost, and tasks
die.

## Modules

### PeerTable

Variables:

- `peers`: `cs.peers`.
- `pc`: the setup goroutine of each connection identity.
- `open`: whether the socket is open.
- `caddr` and `cid`: the remote address and id.
- `tasks`: the reader and writer that still run.

Connections are model values of `Conn`. A finished, unreferenced identity is
reused (`Recycle`), so long histories fit in three identities.

Actions:

- `DhtPeers` and `TrackerPeers` use `hintNewPeer`.
- `connectToPeer`: each error return is its own disjunct. A self id closes the
  connection. A failed header write or read leaves the socket open, as the code
  does.
- `AcceptNewPeer`.
- `AddPeerCheck`: the dedupe scan and the cap test.
- `AddPeerInsert`: insertion and the start of both tasks.
- `PeerEOF`: the loop receives a `nil` sentinel, `DoMessage` returns `io.EOF`, and the loop calls `ClosePeer`.
- `PeerError`: `DoMessage` rejects a message, and the loop calls `ClosePeer`.
- `KeepAliveTimeout`.
- `ConnLost`.

`AddPeer` is split into two steps because it runs on connector goroutines,
unsynchronised with each other and with the loop. `ClosePeer` is a helper used
by every loop action that calls it. It deletes by address, as the code does.

### IHGossip

A fixed set of peers. The loop's `DoHandshake` has four steps:

1. Replace `theirExtensions` with an empty map.
2. Fill the map.
3. Read `cs.currentIH`.
4. Build and send the message. This step reads `cs.rev` and the peer's code.

The application's `SetCurrent` has three parts:

1. Assign `currentIH`.
2. Compute the new rev and save the marker.
3. Run `broadcast`, one peer per step.

`out[p]` records the IH messages sent to `p`, in order. A revision is a
counter and a hash chain. The chain stands for `sha1(ih + oldhash)` as an
injective function.

### CurrentMarker

Variables:

- `up`: the process runs.
- `currentIH` and `rev`: the in-memory values.
- `file`: `NoFile`, `TornFile` or an IHMessage.
- `lastSaved`: a ghost holding the last complete save.

Actions:

- `NewControlSession`: restore the marker. A missing or torn file fails to decode.
- `SetCurrent`: a complete save.
- `SetCurrentEncodeFails`: `os.Create` truncated the file and the encoder
  failed. The code assigns the error to `err` and never reads it (line 534),
  so the process goes on with the new hash and rev and a torn file.
- `SetCurrentTorn`: a crash after `os.Create` truncated the file and before `Encode` wrote it.
- `Crash`: any other death of the process, including `log.Fatal` when
  `os.Create` fails, which leaves the file as it was.

A revision is a counter and the number of `'2'` digits in the 40 hex digits
of its sha1 (0, 1, or 2 for "two or more"). That count is all the restore
reads of the hash, so the hash itself is not kept. The restore test
`RevParses` needs both parts to come out right:

- the decimal digits of the counter, computed by the recursive function `Digits` (`strconv.Itoa`);
- the position of the single `'2'`.

`CurrentRegister` is what the marker promises, with no files and no
revisions. It has three variables:

- `up`;
- the in-memory `currentIH`, `""` while stopped;
- `saved`, the hash a restart would restore.

Its actions:

- `Start` restores `saved`.
- `Set(ih)` sets `currentIH` and saves `ih`.
- `Stop` forgets `currentIH`.

The constant `Atomic` says how a save may fail. With `Atomic = TRUE` the
register is the design's: `Set` always saves `ih` and `Stop` keeps `saved`
(section 4.4 says the marker is persisted atomically, section 7 that failing
to write it aborts the process). With `Atomic = FALSE`, `Set` and `Stop` may
also leave `""`. Even then, a restart never restores a hash other than the
last one set.

`CurrentMarker` instantiates it twice, with `saved <- SavedIH` and
`currentIH <- LiveIH`. `SavedIH` is the marker's hash, or `NoIH` when the
file is missing or torn. `LiveIH` is `currentIH` while the process runs and
`NoIH` otherwise. Under this mapping:

- `NewControlSession` is `Start`.
- `SetCurrent` is `Set`.
- `SetCurrentEncodeFails` is a `Set` that leaves `""`.
- `SetCurrentTorn` is a `Stop` that loses the save.
- `Crash` is a `Stop` that keeps it.

`ImplementsRegister` (`Atomic = FALSE`) holds. `ImplementsAtomicRegister`
(`Atomic = TRUE`) does not: that is the `marker_not_atomic` run.

### FileStore

Entries are indexed `1..N`; the code indexes them `0..N-1`. A backing name
is a record with three fields:

- the entry's index;
- whether it has `.part`;
- whether `open` cut it to 60 characters.

`Long` is the set of entries whose path is long enough to be cut. File contents
are sequences over a small `Byte` set, and `disk` maps each name to its content
or to `Absent`. `Init` is the state of the files before the store is opened.
Each file may be missing, complete (non-zero bytes), or of the wrong length, and
a stale `.part` may be left over.

Actions (the store is used by one goroutine, so each method is one step):

- `NewFileStore`: `open` on every entry. Either every entry opens, or the
  `os.Create` of the first cut `.part` fails and no store is returned.
- `ReadAt(off, n)` and `WriteAt(off, data)`: the per-entry loop of the code.
  The loop is a recursive function `it[k]` over `0..N`. It starts from
  `ReadInit` or `WriteInit` (the loop state at `find(off)`), and each
  iteration is `ReadIter` or `WriteIter`: the loop's guard, then `ReadStep` or
  `WriteStep` on one entry. `WriteStep` cuts the chunk to the space left in the
  entry. After the loop, `ReadAt` pads with zeros and `WriteAt` tests the
  leftover bytes.
- `SetBad(from)`: `SetPart` (`copyfile` then `os.Truncate`) on every entry
  from `find(from)` that is not a `.part`.
- `Cleanup`: `fileEntry.Cleanup` on a copy of every entry. The `.part` is copied
  to the name without `.part` and then removed. `files` is left unchanged,
  because `range` hands each iteration a copy.

`last` records the last call and what it returned, for the properties. `View(o)`
is the reference layout: the byte at `o` is in the unique entry with
`offsets[i] <= o < offsets[i] + length`.

### Metainfo

A bencoded info dictionary is abstracted as follows:

- for each `InfoDict` key, whether it is absent, zero, or set;
- whether the dictionary also has keys that `InfoDict` does not declare.

Decoding into the struct drops unknown keys and makes an absent key zero.
Encoding writes every field except the `omitempty` ones that are zero. `sha1` is
an injective function.

Actions:

- `getMetaInfo(t)`: `NewMetaInfo` dispatches on the source kind:
  - a URL goes to `NewMetaInfoFromHTTP`;
  - a magnet goes to `NewMetaInfoFromMagnet`;
  - anything else is tried as content, and only if decoding fails is it read
    as a file.
- `RawInfo`: caches the encoding of `m.Info`.
- `saveToDisk`: `os.Create` either fails or truncates `{dir}/{hex ih}`, and then
  the encoder writes the file. A nil `Info` is encoded either as the zero
  `InfoDict` or not at all: the bencode library is outside `src/`, and both are
  allowed.

`loaded` is a ghost variable: the torrent that the last load decoded.

## Runs

| Run | Checks | Result |
|---|---|---|
| `peertable` (`MCPeerTable.cfg`) | `TypeOK`, `NoDeadEntry`, `IInv`, liveness `DeadPeerDropped` under `FairSpec` | pass |
| `peer_cap_race` | `PeerCap` | violated: two connectors both pass `len(cs.peers) >= MAX_NUM_PEERS` |
| `ihgossip` | `TypeOK`, `CurrentDelivered` | pass: once both goroutines are idle, every `bs_metadata` peer has been sent the current info-hash and rev |
| `stale_handshake_answer` | `LastIHCurrent` | violated: a handshake answer read before `SetCurrent` is sent after the broadcast |
| `currentmarker` | `TypeOK`, refinement `ImplementsRegister` | pass: over complete saves, failed encodes, torn writes, crashes and restarts, a restart restores the last hash set or none, never an older one |
| `marker_not_atomic` | `ImplementsAtomicRegister` | violated: after a start, a `SetCurrent` whose encode fails leaves the session running with the new hash and no readable marker. This is neither a save nor a stop of the design's register. A crash between `os.Create` and `Encode` (`SetCurrentTorn`) is the same kind of step. |
| `rev_regresses` | `RevisionNeverRegresses` | violated: the restore keeps a rev only if its single `'2'` is a non-leading digit of the counter. In the trace the saved rev `1-<hex>` has one `'2'`, in the hash: the split gives two parts, `Atoi` fails on the first, and the counter restarts at 0 |
| `filestore` | `TypeOK`, `EntryFull`, `ReadWriteRoundTrip`, `SetBadPreservesData` | pass. A successful read returns the files' bytes, and zeros past the end. A successful write lands at the right offsets. `SetBad` keeps every byte. An open entry that is not on a `.part` names its real file, which has the entry's length. This holds at every offset, boundaries and the zero-length file included. |
| `cleanup_keeps_part_names` | `CleanupRenamesEntries` | violated: `Cleanup` ranges over copies, so the entries keep the removed `.part` names |
| `cleanup_long_name` | `CleanupRestoresPaths` | violated: a name cut to 60 characters is restored to the cut name, not to the file's path |
| `metainfo` | `TypeOK`, `RawInfoConsistent`, `IInv` | pass. The `rawInfo` cache always hashes to `InfoHash`, over any order of loads, `RawInfo` calls and saves. `IInv` is the inductive invariant of the proof. |
| `infohash_reencoded` | `InfoHashIsSha1OfInfo` | violated: the hash is taken over the re-encoded struct. A torrent without `private` (scenario 1) gets another info-hash. |

Every property of a passing run also has a mutant in `PROJECT.json`. A mutant
is a plausible bug in the mapped code, and TLC finds it:

- `ClosePeer` keeps the entry, or writes `nil` instead of deleting.
- The sentinel is taken for a keep-alive.
- The rev counter counts down.
- `broadcast`'s test is inverted.
- The marker is opened without `O_TRUNC`, so a failed encode leaves the old
  marker, and a restart brings back an older hash (the refinement mutant).
- `ReadStep` does not subtract the entry's offset.
- `SetPart` forgets the copy.
- `WriteAt` does not cut a chunk to the space left in the entry, so a write
  lengthens a file (caught by `EntryFull`).
- `fs.files` is indexed from 0.
- `RawInfo` caches the struct, or the whole metainfo, instead of the encoded info.
- The hash is taken over the source bytes while `RawInfo` re-encodes.

### Bounds

**PeerTable:** 3 connections, 2 addresses, 2 ids and a cap of 1.

- Two connectors can race on one free slot, which exposes the cap race.
- Two connections to one address are needed for the delete-by-address bug.
- Identity reuse lets connections come and go without bound.
- The violation runs use symmetry over connections and addresses. The liveness run does not, because TLC cannot combine symmetry with liveness checking.

**IHGossip:** 2 peers, 2 info-hashes, 2 `SetCurrent` calls and 2 handshakes per peer.

- A second handshake, arriving while a broadcast is running, empties and refills a peer's table.
- Two sets make an older answer distinguishable from the current one.

**CurrentMarker:** saved counters 1, 2 and 12, with `MaxRev` 14.

- `Itoa(12)` is the only kind of counter whose rev can survive the restore: one `'2'`, not first.
- `2` has its `'2'` first, so `Atoi("")` fails.
- Counters up to 14 cross into two digits.

**FileStore:** file lengths 1, 0 and 2 (total 3), with the third file long
enough for its name to be cut. The other parameters are bytes `{0, 1}` and
buffers of 1 or 2 bytes.

- Every offset from 0 to the end is tried.
- A 2-byte buffer crosses the zero-length file, and at offset 2 or 3 it runs
  past the end.
- Offset 1 is both the end of the first file and the position of the
  zero-length file, which is where `find` is ambiguous.
- The passing run takes about 25 s. The file contents start missing, complete, or of
  the wrong length, so every branch of `open` is taken.

**Metainfo:** four torrents:

- scenario 1, with no `private` key;
- one with every key;
- one with every key and an unknown key;
- one with no info dictionary.

Sources: two URLs (one failing), three paths (torrent, garbage, missing) and
two magnets (one unparseable). These cover every branch of the loaders.

### Fairness

`DeadPeerDropped` assumes weak fairness of `PeerEOF`. Once a task has queued
its sentinel, Go's `select` in `Run` picks uniformly among the ready cases, so
the loop eventually receives it. No other fairness is assumed. Connection
attempts, for example, may stop at any time.

The gossip runs and the marker runs set `CHECK_DEADLOCK FALSE`, because their
bounded call budgets run out and the system then stops.

### Disagreements seen while modelling and not kept as runs

The run list keeps one question per hazard. TLC also showed the following,
with invariants that are no longer part of the project:

- `AddPeer`'s duplicate-id scan races in the same way as its cap test.
- `AcceptNewPeer` has no self-id test.
- `DoHandshake` answers a peer without `bs_metadata` under id 0.
- `ClosePeer` deletes by address whatever entry is there. The
  `close_by_address` run of earlier versions checked that an open, read
  connection is always in the table under its address. Its shortest
  counterexample did not involve `ClosePeer` at all: two connectors to one
  address both pass `AddPeer`'s checks and the second insert overwrites the
  first (the race of `peer_cap_race`). With the action property "a step that
  deletes the entry of an open, read peer closes that peer", TLC's shortest
  counterexample again starts with that overwrite. With the overwrite excluded
  by an action constraint, it fails in 9 states:
  1. `c1` is admitted at `a1`.
  2. `PeerError` closes `c1` and deletes its entry.
  3. `c2` is admitted at `a1`.
  4. `c1`'s reader sentinel arrives, and its `ClosePeer` deletes `c2`'s entry.
- A torrent without `info` loads with no error.
- Saving a magnet-loaded metainfo writes a file whose content does not have the
  info-hash it is named after.
- `SetBad` at a file's first byte also stages the file before it, because
  `find` picks the earlier entry at a boundary.

## Proofs (TLAPS)

`PeerTableProofs` proves, for every value of the constants allowed by
`PeerTableAssumption`:

- `IInvariant`: `Spec => []IInv`.
- `TypeCorrect`: `Spec => []TypeOK`.
- `DeadEntriesRemoved`: `Spec => []NoDeadEntry`.

`NoDeadEntry` is not inductive on its own. A `ClosePeer` of connection `c`
deletes the entry under `caddr[c]`, and that might not be the entry that
holds `c`. `IInv` therefore adds three facts:

- every entry is stored under its own connection's address;
- it was inserted by a setup goroutine that has returned;
- only returned setups own tasks.

With these facts, stopping a task of `c` removes the only entry that could
lose its last task.

The proof is organised as follows:

- `SetupStepIInv` and `ClosePeerIInv` cover the two families of steps.
- `NextIInv` has one step per action.
- The temporal theorems combine these steps by PTL.

TLC also checks `IInv` as an invariant of the `peertable` run.

`MetainfoProofs` proves `RawInfoIsHashed`: `Spec => []RawInfoConsistent`,
for any sources, contents and magnets. It needs no assumption on the
constants. `RawInfoConsistent` alone is not inductive, because it says nothing
about a metainfo whose cache is still empty. The inductive invariant `IInv`
states that the metainfo the program holds is one of two things:

- nil;
- a record whose `InfoHash` is sha1 of the encoding of its `Info` (when it has
  one), and whose cache, once set, is that encoding.

The lemmas `ContentFresh`, `HTTPFresh`, `FileFresh`, `MagnetFresh` and
`ResultsFresh` show that every load returns such a record, with nothing
cached. `NextIInv` has one step per action. TLC checks `IInv` as well, in the
`metainfo` run.

`MetainfoProofs` also proves `TypeCorrect` (`Spec => []TypeOK`) and
`IInvariant` (`Spec => []IInv`). The lemmas `EncodeType` and `DecodeType`
type the codec. `ContentType` and `ResultsType` type every load result.
`NewMetaInfoFromContent` was written as `IF`/`ELSE IF`, the order of the
code's early returns. Its earlier `CASE` had arms that overlap for a value
that is not a torrent, and the meaning of such a `CASE` does not fix which
arm applies.

`IHGossipProofs` proves, for every peer set, set of info-hashes and bounds
allowed by `IHGossipAssumption`:

- `IInvariant`.
- `TypeCorrect`: `Spec => []TypeOK`.
- `CurrentIsDelivered`: `Spec => []CurrentDelivered`.

`CurrentDelivered` speaks only of quiescent states, so it is not inductive.
Its strengthening `IInv` says something of every `bs_metadata` peer in every
state: either it has been sent an IH message with the current hash and rev
(`Delivered`), or a goroutine still owes it one (`Owed`). A goroutine owes
the peer a message in any of these cases:

- `SetCurrent` is between its assignments.
- `SetCurrent` still has the peer to broadcast to.
- The loop is answering the peer's handshake with the current hash.

`IInv` also ties `SetCurrent`'s argument to `cs.currentIH`. `NextIInv` has
one step per action. `broadcastOne` and `SendIH` split on whether the peer
is the one being sent to. `AppendKeeps` says that an append keeps what a
queue held.

`CurrentMarkerProofs` proves, for every set of info-hashes, saved counters
and bound allowed by `CurrentMarkerAssumption` and `MarkerFileAssumption`
(a missing or torn file is not a complete marker):

- `TypeCorrect`: `Spec => []TypeOK`.
- `Refinement`: `Spec => ImplementsRegister`, the register whose saves may
  be lost. Its model includes the unchecked encode error of line 534.

`TypeOK` is inductive. The proof needs no decimal digits, because a restore
either keeps a rev or resets it, and both are revisions. The refinement is
proved in two steps:

- `InitRegister`: an initial state maps to an initial register.
- `NextRegister`: under `TypeOK`, every step maps to a `Start`, a `Set`, a
  `Stop` or a stutter of the register. A failed encode is a `Set` that
  leaves `""`.

The design's atomic register is not implemented, so nothing is proved about
it; `marker_not_atomic` shows the counterexample. An earlier version proved
that a running session's hash is always the marker's. It leaves out the
failed encode, after which the process runs on with a torn marker, so it was
withdrawn.

PTL then combines them with the invariant.

`FileStoreProofs` proves, for every list of file lengths, set of long
names, byte set and buffer bound allowed by `FileStoreAssumption`:

- `IInvariant`: `Spec => []IInv`.
- `TypeCorrect`: `Spec => []TypeOK`.
- `WholeFilesKept`: `Spec => []EntryFull`.
- `RoundTrip`: `Spec => []ReadWriteRoundTrip`.
- `SetBadKeepsData`: `Spec => SetBadPreservesData`.

The assumption asks for at least one file (`find` has no entry to pick
otherwise) and that `Absent` is not itself a file content.

`IInv` is `TypeOK /\ EntriesNamed /\ EntryFull`. `EntriesNamed` says that
entry `i` is backed by a name with index `i`, so that two entries never share
a file. `EntryFull` says that after `open` an entry that is not a `.part`
holds a whole real file. Both are needed: `View` reads each entry's bytes
from `disk[files[i]]`, and `SetBad` keeps the bytes only because the file it
copies has the entry's full length.

The loops are the heart of the proof. `Off` and the loop functions `it` are
recursive functions, unfolded with `FiniteNatInductiveDef` of
`NaturalsInduction` (`OffUnfold`, `ReadLoopUnfold`, `WriteLoopUnfold`). Each
loop has an invariant: `RInv` for `ReadAt` (the bytes read so far are the
view from `off`, and while bytes remain, the entry of iteration `k` starts at
or before the current offset) and `WInv` for `WriteAt` (every byte already written reads back from
the new disk, what is left is a tail of the buffer, and the full entries keep
their length). `ReadStepInv` and `WriteStepInv` show that one iteration keeps
them, and `ReadLoopInv` and `WriteLoopInv` extend this to every `k` by taking
the least `k` where it fails (`LeastElement`), which avoids the induction
theorems' operator parameter. `ReadAtStep`, `WriteAtStep`, `SetBadStep` and
`CleanupIInv` then cover the actions, and `NextIInv` has one step per action.
`ReadWriteRoundTrip` is not inductive; it is proved from `IInv` and the
previous state, using only that `ReadAt` and `WriteAt` set `last`.

For the proof the model was rewritten without changing what it says:
`FullByte` names the non-zero byte a complete file is filled with, the steps
use `IF`/`ELSE` where they had a `CASE` over overlapping conditions, and each
loop's start and iteration are named operators (`ReadInit`, `ReadIter`,
`WriteInit`, `WriteIter`).

Some things stay with TLC only:

- The liveness property `DeadPeerDropped`. The provers cannot reason about
  `ENABLED` and fairness.
- `RevParses` and `RevisionNeverRegresses`. Their value depends on what the
  recursive function `Digits` computes for every counter, and that needs
  induction over data.
- The violation runs. They show that a property fails, which is TLC's job.

## Not modelled, and the plan

The modules already written are listed above. Also not modelled:

- In `metainfo.go`, `Size` only encodes and changes no state. `SessionInfo` and
  `MetaDataExchange` are types with no operation.
- In the file store, `ensureDirectory`, `Close` and the `path.Clean` defence
  change no modelled state. Planned work, in order:

1. `Cleanup`'s error, which is only the last entry's, has no property: the
   spec leaves error reporting there unspecified.
2. The keep-alive check `lastReadTime.Second() != 0`, and `DoMessage` on a one-byte message.
3. `DoMetadata` blocking on `cs.Torrents`, the rechoke send on `trackerReportChan`, and `deadlockDetector`. Then `Quit` racing connector goroutines.
4. A composition of `PeerTable` with `IHGossip`, so that broadcasts run over a changing table.
5. More proofs: an abstract peer-table specification refined by `PeerTable`.
