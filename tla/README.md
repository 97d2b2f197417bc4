# nPlayer libass/FFmpeg bridge: specifications

nPlayer has old copies of libass and FFmpeg linked into its main executable.
This repository rewrites the executable of one known version: the calls of a
library's API are redirected into a payload that is added to the executable,
and the payload decides, while the application runs, whether such a call goes
to a new library in a bridge dylib (NEW) or to the old code (OLD).

The modules here specify that: the assembly the payload consists of, the
manifests that describe a version, the rewriting of its executable, the files a
run of `npa-patch` leaves, and the builds that make the dylibs. TLC checks them on small instances,
TLAPS proves the most important results for every instance.
Line numbers refer to the sources of the commit this directory was written for.

## 1. The system

### 1.1 Components

| component | source | state | operations |
|---|---|---|---|
| dispatch payload at run time | `npabridge/payload.py` (the assembly it emits) | one state word and one slot per API for each unit; per thread a frame, registers, an exclusive monitor | call, dispatch, bootstrap, wait, resolve, publish, return |
| payload builder | `npabridge/payload.py` | cursors over the data blob, the code, the strings | place units, blocks, strings; refuse |
| main rewriter | `npabridge/macho.py`, `encode_branch` in `npabridge/manifest.py` | the words of the text, the list of intended writes | preflight, phase A, phase B |
| verifier | `npabridge/verify.py` | none: a list of verdicts on files | `verify_main`, `verify_bridge`, `verify_artifact` |
| `npa-patch` | `npabridge/patch.py`, `npabridge/package.py` | files: source, bridges, two temporaries, output; a work directory | extract, check, package, verify, publish, clean up |
| manifest | `npabridge/manifest.py`, `manifests/*.json` | immutable: dylibs, domains, APIs, call sites, extra sites, conflicts | load, select, flatten to units |
| target ABI, assembler binding | `npabridge/target_abi.py`, `npabridge/toolchain.py` | none | validate constants; assemble |
| Keystone bootstrap | `tools/keystone.py` | archive, source tree, two edited CMake files, library | fetch, unpack, edit, build, copy |
| dependency builds | `deps/build_deps.py`, `deps/build_ffmpeg.py`, `deps/build_ffmpeg_core.py` | lock files, archive cache, source trees, static libraries, closure files, reports | reset, extract, fetch, unpack, compile, verify, report |
| bridge build | `npabridge/build_bridge.py` | dylibs and their reports | load a closure, link, verify; verify only |
| bridge dylibs | `bridge/*.c` | none but what the libraries keep | forward a call, map pixel formats |
| developer tools | `dev/` | layout files between phases | run one phase; probe; smoke test |

### 1.2 How they interact

`npa-patch` drives everything that happens on the host: it extracts the main,
selects the manifest by its hash and flattens the selected dylibs into units;
preflight looks at every word that is going to change; phase A reserves two
segments for the payload and writes the layout file; the builder assembles the
payload for the addresses of that layout; phase B writes it, and the branches,
into a copy; packaging puts the main and the bridges into a copy of the bundle;
the verifier takes all of it apart again, and only then is it published.
The bundle and the temporaries are shared with whatever else runs in the same
directory, the bridges with whoever builds them.

The builds come before all of that. `make bootstrap deps bridge` runs five
programs one after the other, which know of each other only by the files they
find: archives, trees, libraries, dylibs. Each takes for complete what is there.

On the device only the payload runs. Every thread of the application can be in
any veneer at any time. Threads share the state words (accessed by `ldar`,
`ldaxr`, `stxr` and `stlr`) and the slots (accessed by plain `ldr` and `str`),
and they ask dyld which image a symbol is in.

### 1.3 What is hard

* Races: first calls of one unit, calls while it is being resolved, two units
  at the same time, exclusive stores that fail for no reason, plain loads of
  slots another thread stored.
* Partial failure: a symbol in the middle of a unit that is missing or that is
  found in another image; a tool that fails between two files.
* Staleness: a bridge that is rebuilt between its check and its copy, the
  layout file of another selection, sizes predicted before the addresses are
  known.
* Crashes: a killed run leaves temporaries, into which `zip -r` would merge; an
  interrupted build leaves archives, trees and libraries of any age.
* Sequences: selections in any order and with repetitions, manifests that load
  and cannot be used, builds of one closure alone after a pin has changed.
* Boundaries: the last byte of a page, the range of a branch, the byte before a
  basename.

`hazards` in `PROJECT.json` lists them line by line, with the property that
would fail, or the reason why there is none.

### 1.4 What makes each part correct

| part | properties |
|---|---|
| protocol | a unit is served by one image, ever (`OneImagePerUnit`); NEW means all slots, one image, the right name (`NewIsOneNamedImage`); calls arrive with their registers (`CallIntegrity`); one initializer (`OneInitializer`); a decision is final (`PublishedIsFinal`); calls are served (`EveryCallServed`); all of it is one arbitration (`ImplementsArbitration`) |
| builder | words apart and reachable (`WordsApart`, `WordsReachable`), text apart (`TextApart`), no needless refusal (`RefusalsJustified`) |
| scan | exact verdict, reads inside, ends (`VerdictExact`, `ReadsInside`, `ScanEnds`) |
| rewriter and verifier | exact output (`OutputExact`), exact acceptance (`AcceptedExact`), preflight anticipates phase B (`PreflightSuffices`), good files pass (`RejectionsJustified`) |
| manifest | the right one is used, and nothing behind a malformed one (`FirstMatch`), defaults can be selected (`DefaultsSelectable`), a call site has one owner, and the units are those of the dylibs asked for (`OneOwner`), a well-made manifest that declares its conflicts is never refused by the payload builder (`DeclaredEnough`) |
| builds | a full build gives what the lock files pin (`MadeIsPinned`), nothing else is ever unpacked (`UnpackedIsPinned`), built or reported on (in `MakeInv`), the core's report names a version that is in the RELEASE of what was built (`CoreReportInRelease`), a build recovers (`MakeRecovers`) |
| pixel formats | one to one and in order (theorem `KeptInOrder`), NONE for all else (`NothingElseMapped`) |
| `npa-patch` | only whole, verified artifacts appear (`PublishedWhole`, `CheckedThenPublished`), inputs survive (`InputsPreserved`), no litter (`OwnedTemporaries`, `CleanAfterSuccess`), a later run succeeds (`RerunPublishes`) |

## 2. The modules

```
Arbitration <--refines-- Dispatch -- DispatchProperties -- DispatchProofs
                            :                \-- MCDispatch
             NamedFor: BasenameScan -- BasenameScanProofs, MCBasenameScan
             slots:    PayloadLayout -- PayloadLayoutProofs, MCPayloadLayout
ManifestSelect -- ManifestProofs, MCManifest
BranchCode -- Rewrite -- RewriteProofs, MCRewrite
PatchRun -- PatchProperties -- PatchProofs, MCPatch
MakeAgenda --- KeystoneBuild -\
          \--- ClosureBuild --- MakeBridges -- MakeProgress -- MakeProofs, MCMake
PixelFormat
```

The dotted links are what one module takes for granted and another one shows.
`Dispatch` has a function from APIs to slots; that distinct APIs have distinct
words, in reach of the veneers, is `PayloadLayout`. `Dispatch` has a constant
`NamedFor`, the images that bear the basename of a unit; that the resolver finds
out exactly this is `BasenameScan`. `Rewrite` has a payload with a branch back
to the old code in every veneer; what the rest of the veneer does is `Dispatch`.
`PatchRun` has a rewritten main as a record of the units rewritten in it; what
`verify_main` accepts as such is `AcceptedExact` of `Rewrite`. `PayloadLayout`
and `Rewrite` start from units whose symbols and call sites are distinct, which
is what `ManifestSelect` lets through (`OneOwner`). `MakeBridges` composes the
bootstrap and the closures and makes the dylibs that `ChangeBridge` of
`PatchRun` replaces at any time.

### 2.1 Dispatch

One action is one stretch of instructions with at most one access to shared
memory or one call of dyld, and `pc` names the block it begins in, so every
interleaving of accesses is there. The copies of a block for the APIs of a unit
differ by index only, so a thread has `at`, the API whose copy it executes.

* The LL/SC pair of `bootstrap_<unit>` is two actions. `monitor` is the
  reservation; a store to the word by any other thread breaks it, and
  `StxrFail` may happen at any time, as the architecture allows.
* State words are single locations with acquire and release accesses and are
  taken as sequentially consistent. Slots are not: a thread is certain to see
  the store of a slot only if it has acquired a state word that was released
  after it (`released`, `seen`). Otherwise a load may return the zero the data
  blob starts with. Dropping the release in `Publish` violates `CallIntegrity`.
* `dlsym` answers nothing or the symbol in any image, `dladdr` may fail or leave
  out the base or the path: every answer of dyld is tried at every API.
* x0-x7 and x30 are one value, the caller's or clobbered. A call of dyld
  clobbers it, the frame restores it. Floating-point arguments are not in the
  frame; no API of the manifest has any.

`Arbitration` is what the payload promises, without threads' registers and
memory: a unit is decided once, at some time after its first call, and every
call is served as decided. The mapping takes the decision of a unit from its
word and first slot.

### 2.2 PayloadLayout

Three loops over a cursor: the units in the data blob, the blocks, the strings.
A block is its encoded size, a string its length. Addresses in the data page
are kept by their low twelve bits, which is what an `adrp` leaves. The range
checks of `adr` and `adrp` are left to the assembler; those of branches are
in `Rewrite`.

### 2.3 BasenameScan

The loop over `dli_fname` instruction by instruction, in byte addresses
relative to the path, with the set of addresses it has read. The design says
the comparison covers the final component "of any path"; a path that is the bare
basename is refused, because there has to be a byte for the slash before it.
dyld reports absolute paths, so nothing depends on it.

### 2.4 ManifestSelect

`select_manifest` over a directory, `_select` and `_validate_units`. A manifest
is a record of what its JSON file says. A unit is a pair of positions, of a
dylib and of a domain in it, because order and repetition are the point: a
selection is a sequence with repetitions, and units come out in manifest order.
`built` is passing `_validate_units`, the first thing the payload builder does.
The checks of single JSON fields are left out; those that relate fields (ids,
defaults, conflicts) are `Loads`.

What the code does that a reader might not expect, and the model shows: a
malformed manifest stops every version that sorts behind it; a selected dylib
that carries no domain is dropped without a word; two dylibs that share a
domain and declare no conflict load, and are refused only when both are selected
and the payload builder finds two owners (`reason = "units"`).

### 2.5 BranchCode, Rewrite

A word is an opcode and a displacement in words modulo the width of the
immediate. `HalfRange` is how far a branch reaches: 2^25 words on arm64, any
positive number in the proofs, 8 in the run. The patcher encodes
(`EncodeBranch`), the builder's checks decode (`Target`).

An image is the words of `__TEXT,__text`, the weak dylibs and the payload's
veneers. `CheckExtra` ... `VerifyMain` follow preflight, the phases and the
verifier site by site. Two things the tool does not control: `StaleLayout`,
phase B on a layout file that was there already (`dev/tools/phase_b.py`), and
`Ship`, the file between phase B and the verifier, which may come out with
another word, other dylibs or another payload.

Where the Mach-O library puts segments and load commands is not modelled.
Veneers are where `job.apis` says; in the code the addresses come from the
layout, which both phases and the verifier read.

### 2.6 PatchRun, PatchProperties

Each element of `Runs` executes `patch_ipa` and, in it, `package_ipa`, any
number of times. Everything between two accesses to the shared directory is one
action. `Raise` follows the nesting of the `try` statements: in the zip, in the
packaging, or outside of both. `Kill` ends a run at any step and runs no handler
(the handlers catch `Exception`, which a signal or Ctrl-C is not). Tools fail
(`zip` with or without having written the archive), bridges are rebuilt, broken or removed at any time (`ChangeBridge`).
A temporary has the name of its output and one or two `.tmp-` in front.

`PatchAssumption` says that nobody names a source or an output `.tmp-...`: a
source that is named like the temporary of its own output would be deleted
(`patch.py:162`), and none of the refusals covers that.

### 2.7 MakeAgenda, KeystoneBuild, ClosureBuild, MakeBridges, MakeProgress

A command is a list of operations that is worked off from the front; an operation
may put operations of its own there. The unit is what an interruption can
separate: whatever leaves two different disks behind when it is stopped in the
middle is two operations (`Download` and `Downloaded`, `EditPolicy` and
`RewritePolicy`, `Move` and `Hash`, `Reset` and `Removed`). `Interrupt` ends a
command anywhere, `BadDelivery` has a server deliver something else, `BadLink` a
toolchain link a dylib that breaks a rule, `Repin` is a commit that changes a pin
between two commands. One command runs at a time.

A source is its version, and so are its archive, tree and library; a dylib is
the versions of what was linked into it. The archives of a source come and go
together. A build in a tree from which something is missing may fail or not
(`torn`, `source = "partial"`): both are tried.

`Release` is the look of the core closure at the tree it is about to build. The
code asks whether the pinned version is a substring of the file RELEASE
(`build_ffmpeg_core.py:216-218`), so a tree 4.4.10 passes for the pin 4.4.1. Which
versions occur in which RELEASE is the constant `NamedIn`, of which
`ReleaseAssumption` says only that a version occurs in its own. `Commits` lists
the changes of pins that may be tried.

`Damaged` names the files a build takes for complete and cannot get over
without `make clean`: a truncated Keystone archive or tree, a policy file that
was cut off while it was edited, a cached archive that is not what the lock file
pins. That last one is met in ordinary use. The archives of libass and its
dependencies carry no version in their names, so after a change of such a pin
the archive in the cache is refused by every later build. `MakeRecovers` says
that there is nothing else, and `library # "none"` in `MadeIsPinned` is as much
as can be said of a library whose copy was cut short: nothing looks at it again.

`MakeProgress` has the inductive invariant of the builds (`MakeInv`), which the
run `make` checks and `MakeProofs` proves. Its second half is a map of `make
bootstrap deps bridge`: a place in it is the list of the operations from there on
(`BuildPlace`, `ClearCore`, `LinkPlace(n)`), and the stages say what the disk
holds at each place. `OnWay` adds what holds there in a build that nothing
disturbs, and `Smooth` what an operation needs so as not to fail.

### 2.8 PixelFormat

`npa_modern_pixfmt` as a function of an integer, with its two theorems. There
is nothing to run.

## 3. The runs

| run | states | bounds | shows |
|---|---|---|---|
| `dispatch_safety` | 28,633 | 3 threads (symmetric), 1 unit of 2 APIs, 3 images (the application, the bridge, a twin that bears the same basename) | all safety of one unit, and the inductive invariant |
| `dispatch_units` | 69,250 | 2 threads, units of 2 and 1 APIs, fair | finality, refinement of `Arbitration`, every call is served |
| `payload_layout` | 27,878 | 1 to 3 units of 1 to 511 APIs, 5 data addresses; up to 3 blocks and 3 strings | placement, refusals at both sides of the page limit |
| `basename_scan` | 10,894 | every path of up to 6 characters | verdicts, reads, termination |
| `rewrite` | 230,905 | 3 words, branches of 8 words' range, 1 or 2 call sites, up to 2 extra sites, every small text | exactness of what is written and accepted |
| `patch_apart` | 302,922 | 2 runs, 2 bridges, 2 faults, different outputs (one may read what the other publishes) | published artifacts, inputs, clean-up |
| `patch_again` | 16,124 | 1 run called again and again, 3 faults, fair | leftovers of killed runs do no harm |
| `patch_same_output` | violation | 2 runs, one output, no fault | see 5 |
| `manifest_select` | 282,466 | every manifest of 2 dylibs over 7 registries of 2 domains, the three-dylib shape of the shipped manifest, up to 3 files, 5 selections | which manifest, which units, which refusal |
| `make` | 1,526,040 | 2 libass sources, one bridge for each closure, one pin changes once, that of the core FFmpeg to a version that occurs in the old RELEASE or to one that does not, 2 faults, 6 commands, fair | builds over leftovers of any age |
| `make_core_alone` | violation | the same, no fault, the core's closure alone | see 5 |
| `make_scaler_alone` | violation | the same, no fault, the scaler's closure alone | see 5 |

Why the bounds are enough. Three threads give an initializer, a waiter and a
latecomer, which is every role of the protocol; two APIs give a first one, which
records the base, and a last one, which publishes; two units, of different
sizes, are decided in either order or at the same time. Where the protocol is proved these
bounds do not matter. The API counts of `payload_layout` are those of the
manifest and those around what a page holds. Six characters hold the basename
with a slash, with something before it and with something after it. Three words
of text allow a site, an extra site and a bystander, and the range of the
branches is such that one of the veneers is out of reach of one of the words.
Two bridges make a stale member of an archive visible; two or three faults allow
a kill, a kill of the run that cleans up after it, and a change of a bridge.
`MCPatch` assumes (and TLC evaluates) that the runs that pass meet `OutputsApart`,
the hypothesis of the theorems. Manifests of two dylibs hold every way two
of them can clash, and three are needed for a full dylib and the two it
replaces. Two sources of libass have a first, which an interruption can leave
built, and a last, which writes the closure file. In `make`, one pin moving
once (`MaxMoved`, `Commits`) makes everything older than it stale; the third
version (`MaxVersion`) is only there to be a substring of the first in a RELEASE;
two faults
interrupt a command and the one that repairs it, or spoil a delivery and
interrupt the check of it.

The type invariants of the protocol, the layout, the scan, the rewriting and the
builds are conjuncts of `DispatchInv`, `LayoutInv`, `ScanInv`, `RewriteInv` and
`MakeInv`, which the runs check.

`CHECK_DEADLOCK FALSE` is said where a build, a scan or a rewriting ends.

**Fairness.** `dispatch_units` has weak fairness of every thread's steps inside
the payload: iOS keeps scheduling runnable threads, and waiters `yield`. It has
strong fairness of the exclusive store for as long as a thread keeps trying, since an
uncontended `stxr` does not fail for ever. There is no time-out in the code: if
the initializer is suspended or killed the waiters spin, which the design
accepts. `basename_scan` has weak fairness of the one thread. `patch_again` has
weak fairness of a run's own steps (a process that was started keeps running)
and none of invocations, faults or kills. `make` has weak fairness of the steps
of the command that runs, none of commands, commits or faults.

## 4. The proofs

No bound on threads, units, APIs, images, paths, texts, manifests or the range
of branches, runs, dylibs, IPAs or faults; the assumptions are the named
`ASSUME`s of the modules.

**DispatchProofs.** `DispatchInv` is the type invariant and, per thread,
`ControlInv` (where it is, whose block, what its frame keeps), `MonitorInv` (an
unbroken reservation means the word is still UNINITIALIZED: this makes the
initializer unique), `ResolverInv` (the slots before the current API hold its
symbols of the recorded base, in memory and in the resolver's view), `CallInv`,
and per unit `UnitInv` (one resolver; a NEW unit has all its slots released with
its word). `OneImagePerUnit` alone says nothing about threads that are still
resolving, so it is not inductive. From `DispatchInv` follow the safety
properties, the action property and `Refinement`: initial states map to
initial states, a publication is `Decide`, a branch out is `Serve`, all other
steps of the payload stutter.

`CallsGoForward` counts the steps a call has left once its unit is published or
its own thread is deciding it: at most `3 * Count + 5`, fewer after each step of
its thread, unchanged by the others. This needs the invariant again: without
`MonitorInv` a late `stxr` could succeed on a published word, and without
`ControlInv` the veneer re-entered from `finish` could be that of another unit.
A call that is not `Settled` waits for a thread that is, by `SoleInitializer`, or
finds the word UNINITIALIZED and may itself become that thread.

**PayloadLayoutProofs.** `LayoutInv` says of each list that what has been placed
is aligned, in order and ends before the cursor, and that strings come after
code. Order gives disjointness; a step extends it by one piece, whatever the
sizes, so no induction over lists is needed. Nor does `RefusalsJustified` need
one, which compares the page with the sum of the sizes of all units: the
invariant `Tight` says that each unit begins where the one before it ends, so
the offsets, with the cursor at the end, are themselves the list of partial sums
that the recursive function `Sums` is defined by.

**BasenameScanProofs.** `ScanInv` says where `x4` is in each block and which
characters have been compared. `ScanCountsDown` is about a number: what the two
loops can still do (`StepsLeft`), which every step makes smaller.

**RewriteProofs.** `RoundTrip` shows that what can be encoded decodes to the
same target, for any width. `RewriteInv` says which sites and extras preflight
has seen at each point, that phase B's buffer differs from the baseline exactly
in the sites it has passed (`Rewritten`), and what the output is made of.
`Overlap` is the condition under which two rewrites meet in one word; without it
preflight's view of a word is still phase B's.

`OwnInv` adds, for a run over its own layout, that
every word rewritten so far differs from the baseline: then a second rewrite of
it fails its comparison, phase B ends only without overlap, and what it writes
meets every check of the verifier (`RejectionsJustified`).

**ManifestProofs.** `ManifestInv` says what the files before the current one
were, and that a selection in progress comes from a manifest that loads. What
remains is about single manifests, whatever their size: that the loader's checks
imply those of `_select` for the defaults, that a payload is built for units
whose sites have one owner each, and what `_validate_units` is still needed for.
A selection can be refused there for a fault of the manifest itself: a symbol that
is no identifier, a name that is not ASCII, a domain without APIs or named twice
by one dylib, a symbol or site that occurs twice in the registry. `WellMade`
excludes these, and then `DeclaredIsEnough` shows that two of the dylibs selected
share a domain and that neither declares it: since no API occurs in two domains,
two owners of a site are two units of one domain.

**PatchProofs.** `PatchInv`, which assumes nothing of the outputs, is the type invariant
and: a run under way was given an executable that no run has made (so a patched
IPA is never patched again); past `FindBridges` its output is none of its
inputs; every file in a hidden name belongs to a run that will still rename or
remove it, or to one that was killed. `InputsPreserved` and `OwnedTemporaries`
follow. `PatchAssumption` is about names: no dylib is called like the main's
member, no IPA or output like a temporary, no given IPA like a dylib.
`FileAssumption` is that the given files are IPAs.

Publication needs the hypothesis `OutputsApart`: no two runs have one
output, none writes over an IPA it was not given as its source, and a decrypted
IPA contains no bridge yet. `ApartInv` follows one bundle from `ExtractBundle`
to `Publish` and says in which file it is at each step; that no other run writes
to that file comes from the names of temporaries, which differ when outputs do.
`PublishedWhole`, `CheckedThenPublished` and `CleanAfterSuccess` follow. The
hypothesis is needed: without it `patch_same_output` is a counterexample.

`RunsGoForward` ranks the steps of `patch_ipa` by how far they are from its end:
whatever a run does, also in its handlers, lowers the rank or takes a dylib off
the list of those to copy. `UndisturbedRunsPublish` follows a run over good dylibs
with no fault to come (`OnCourse`): every test it makes is passed, so it enters no
handler and is either on course or published. It needs `InputsApart` besides
(no output is a dylib, or the source of another run): a run that publishes over
what another is about to read can stop it. The instance of `patch_apart` meets
both (`ApartIsMet`).

**MakeProofs.** What an operation of a build may rely on is what the operation
before it has left, so the invariant is about the command that is still to be
done: `Chained` says which operation comes right before which in it (an unpacking
right after the fetch, move or hash of the same source; the steps of the core
closure, from its look at RELEASE to its report, in their order), and `Ready`
says what holds when an operation is next (the cached archive is the pinned one
before it is unpacked; the pin occurs in the RELEASE of the tree, and later of the
tree the library was built from, of the core FFmpeg). Neither would survive a step alone: putting operations in front needs
the chain, and taking one off needs what it established. Types,
`UnpackedIsPinned` and `CoreReportInRelease` follow, for any sources, dylibs,
commands of the known programs, faults, changes of pins and `NamedIn`. That the
report of the core names what was built (`CoreReportNamesSource`) follows only if
no version occurs in the RELEASE of another one, which the theorem has as its
hypothesis and `make_core_alone` shows to be needed.

`MadeIsPinned` is about a whole command, at whose end nothing is left to tell what
was done. So `Progress` says, for each list of operations that `make bootstrap
deps bridge` can have left, what the disk holds by then: `LibassMade` before the
scaler's closure begins, all trees either absent or pinned from the reset on
(`TreesPinned`), the libraries before the nth, and so on to the dylibs. Each stage
has a lemma (`KeystoneStageStep` ... `BridgeStageStep`): a step that does not end
the command leads to another place of the stage or to the first of the next one,
and leaves alone what earlier stages have made, because closures share no source.
That a tree of an older commit is not taken for the pinned one rests on the reset
alone; without it (the mutant `RemovedLibraries`) `Progress` fails at the first
library. `SourceAssumption`
is that the closures share no source, which is why the core FFmpeg has a name of
its own in its lock file (`build_ffmpeg_core.py:8-12`).

`UndisturbedBuildSucceeds` walks the same places with `faults = 0`. `NoStop` says
that an operation that is `Smooth` does not fail, and for each place a lemma says
that it is: the archive is in the cache and pinned or not there (`CacheGood`), what
was just delivered is there (`Ready`) and so is pinned, the tree of the core FFmpeg
is whole (no tree is torn after the reset), the libraries and closure files are
there to be loaded, and a dylib that is checked was linked without a fault. In the
bootstrap `KeystoneWay` keeps what `Damaged` excludes, place by place: a truncated
archive matters only until it has been unpacked, a torn policy file only until it
has been edited. Leftovers of any other kind are never looked at.

**PixelFormat.** By cases over the ranges of the C function.

**Model-checked only.** That something happens at last: `EveryCallServed`,
`ScanEnds`, `RerunPublishes`, `MakeRecovers`. Fairness and ENABLED are out of the
prover's reach. What is proved of them is that what is under way is not set back
and ends in nothing but the end they promise (`CallsGoForward`, `ScanCountsDown`,
`RunsGoForward` with `UndisturbedRunsPublish`, `UndisturbedBuildSucceeds`). TLC's
part is that the steps are taken and, for calls, that one of the threads that race
for an UNINITIALIZED word wins. Every other property of a passing run is a theorem.

## 5. What was found

`patch_same_output`: the package says that artifacts are published only after
their contents were checked (`package.py:3-5`, `patch.py:3-8`). Two runs with one
output share `.tmp-<output>`. A run can verify its own package, have it replaced
by the other's, and publish that; it then reports digests of a file it has not
left. With different outputs, and for any sequence of killed runs with one
output, the property holds.

`make_core_alone`: `build_ffmpeg_core.py:8-13` names the old tree that is built
under a new pin as the hazard the file prevents. The test for it is one for a
substring, so when the pin goes from 4.4.10 to 4.4.1, or from 4.4.8 to 4.4, and
the core closure is built by itself, the old tree is accepted, built, and reported
as the new version (`CoreReportNamesSource`).

`make_scaler_alone`: the lock files "pin every dependency" (`README.md:176`), and
`build_ffmpeg_core.py:11-13` knows that a tree that is there is used as it is.
Only that build looks at the tree before it takes it. `deps/build_ffmpeg.py` run by
itself after its pin has changed compiles the old tree and writes a report that
names the new version. dav1d's tree is used unchecked in the same way by the
core build. `make deps` starts with a reset of all trees and is not affected
(`MadeIsPinned`).

Observed and not counted as findings: a word named both as a call site and as an
extra site, or by two extra sites, passes preflight and fails in phase B
(`macho.py:409`); an extra site whose replacement is its expected word can never
pass the verifier (`verify.py:442`); the verifier accepts B and BL at every site
(`verify.py:495`), though phase B preserves the opcode; `verify_main` raises
outside of its checks when the data segment is missing (`verify.py:375`); a
dylib that fails its checks leaves the report of an older one beside it
(`build_bridge.py:94`); the files named `Damaged` in 2.7.

## 6. Not modelled

* What LIEF, ldid, zip, clang and Keystone do inside.
* The checks of `verify.py` that compare tables of two files (bindings, exports,
  segments, entry point) and the single criteria of `verify_bridge`.
* `target_abi.py` and `toolchain.py`, which keep no state.
* The environments, cross files and configure arguments of the builds,
  `--verify-only` of the two FFmpeg closures, `uv sync`, `make clean`, and lock
  files that are malformed. Two builds at once: nothing in the code provides for
  it.
* `_validate_encoded_invariants`, `_validate_encoded_branches` and
  `_validate_resolve_checks` in `payload.py`. They compare the generated
  instructions with patterns and keep no state. The order of
  instructions they guard is that of `Dispatch` and `BasenameScan`.
* The two passes of `payload.py:957-992`, which predict the size of the payload
  and compare the prediction with what comes out. `PayloadLayout` and `Rewrite`
  start from addresses that are settled.
* The wrappers in the bridge dylibs that only forward a call.
* The device side of the smoke test.

## 7. Plan

Done, in this order: the dispatch protocol with its abstract specification and
proofs; `npa-patch` over a shared directory; the placement of the payload; the
basename scan; the rewriting and its verification; the manifests; the builds;
pixel formats; the proofs about `npa-patch`, about the verifier's rejections and
about the builds; the safety halves of the liveness properties.

What could follow:

1. `--verify-only` of the FFmpeg closures, with reports that name a pin the
   libraries were not built from.
2. The single criteria of `verify_bridge`, over exports, imports and
   initializers as sets.
