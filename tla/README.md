# k2hftfuse in TLA+

A verification project for k2hftfuse, the FUSE file system that turns what
processes write into its files into lines, and hands the lines to k2hash,
to plugin programs or to output files.  The modules here model the daemon's
own logic, TLC checks them on small instances and TLAPS proves the main
results for every value of the constants.  Source paths below are relative to
`src/src/` of the repository.

## The system

| component | source | state it keeps | operations |
|---|---|---|---|
| FUSE callbacks | `k2hftfuse.cc` | `fi->fh`, the rule pointer of an open file | open, create, write, flush, release, fsync, getattr, readdir, truncate, chmod, chown, utimens, access, init, destroy; the exit signal handler |
| write manager | `k2hftman.cc` | `wbstackmap` (file handle to write buffer), `run_thread`, three spin locks | Push, Flush, Close, CheckPush, CloseAll, the timeup thread, Initialize, Clean |
| write buffer | `k2hftwbuf.cc` | per file: an input buffer per pid, the stack of finished lines | Push (StringPush, BinaryPush), StackPush, IsStackLimit, Pop |
| rule map | `k2hftinfo.cc` | `RuleMap` (path to rule with owner, mode, times, size, plugin) | FindPath, GetFileHandle, CreateFile, SetOwner, SetMode, TruncateZero, SetTimespec, Processing |
| configuration loader | `k2hftinfo.cc`, `k2hftiniparser.cc` | the rules and limits read at start | LoadIni, LoadYaml |
| matching rules | `k2hftinfo.cc` | none | build_k2hft_match_pattern, convert_to_output |
| plugin manager | `k2hftplugin.cc` | running and stopped plugins, pids, pipe descriptors | watch thread, RunPlugins, RunAddPlugin, StopPlugins, Write |
| descriptor cache | `k2hftfdcache.cc` | path to descriptor, inotify watches | Find, Register, Write, the inotify thread |
| server process | `k2hftfusesvr.cc`, `k2hftsvrinfo.cc` | receive loop, output formats | Processing, main loop, SIGHUP |
| line layout | `k2hftstructure.h` | none | packing and walking lines of a value |

How they interact.  libfuse runs one worker thread per request.  A write goes
`h2htpfs_write` -> `K2hFtManage::Push` -> `K2hFtWriteBuff::Push`; at each end
of line `StackPush` converts the line by the rule and stacks it.  Then
`CheckPush` asks `IsStackLimit` and, if so, pops the whole stack as one batch
and gives it to `K2hFtInfo::Processing`, which sets it into k2hash and writes
each line to the plugin's pipe (`K2hFtPluginMan::Write`) or to the output file
(`K2hFtFdCache::Write`).  The timeup thread pops the stacks whose first line is
too old.  A release forces the tail of its pid out and pops in any case.
`Clean`, called by `h2htpfs_destroy` or by the exit signal handler, joins the
timeup thread, pushes everything with `CloseAll`, stops the plugins and frees
the rules.  On another host k2hftfusesvr takes the batches out of the message
queue and writes or forwards them.

What is hard here: four kinds of threads pop one stack, most of the work is
done after a spin lock has been given back, objects are used through pointers
found earlier, the input buffer has no lock of its own, shutdown by a signal
runs beside the requests, and descriptors and plugin processes are replaced
under their users.  The list `hazards` in `PROJECT.json` has each of these at
its line.

What makes each component correct:

* write manager and buffer: a finished line is taken over once and put out
  once (or given up for a reason that is logged); the order of a writer holds
  in every batch; the backlog is bounded; a line goes out in the end; a close
  and a shutdown leave nothing behind.
* rule map: a handle that was given out is the live rule of its path; every
  caller gives the lock back.
* plugin manager: one process per running plugin; a write goes to the live
  process or fails; nothing runs after the stop; a pid that is signalled is the
  plugin's.
* descriptor cache: a descriptor is used only while it is open, for the file it
  was opened for; a removed file is noticed in the end.
* server process: every line of a message is processed once; the loop ends.
* loaders and rules: the INI and YAML forms of one configuration give the same
  rules; the pattern algorithms do what their reference definition says.

## Modules

| module | what it is |
|---|---|
| `LineConduit` | abstract specification: lines are accepted, pending, emitted or given up |
| `WriteStack` | the write path: workers, timeup thread, shutdown |
| `MCWriteStack` | instances of `WriteStack` for TLC |
| `WriteStackProofs` | types and steps of `WriteStack`, the join of the timeup thread, the backlog, what unmounts and releases leave |
| `WriteStackLines` | every finished line is in exactly one place, the order of lines, and `WriteStack` implements `LineConduit` |
| `FdCache` | the cache of open output files and its inotify thread |
| `MCFdCache` | instances of `FdCache` for TLC |
| `FdCacheProofs` | no descriptor lost, no entry left without a look, only files that have gone dropped |
| `PluginMan` | plugin processes, the watch thread, start and stop |
| `MCPluginMan` | instances of `PluginMan` for TLC |
| `PluginManProofs` | a plugin has one process, and the running list knows it |
| `LineAssembly` | bytes become lines |
| `SvrLoop` | `LineAssembly` composed with the message queue and the server |
| `MCSvrLoop` | instances of `SvrLoop` for TLC |
| `SvrLoopProofs` | the lines are the bytes between two ends of line; the server keeps their order, leaves no good one out, and puts out the bytes that were written |
| `SequenceFacts` | lemmas about `FlattenSeq`, `SelectSeq` and least numbers, for `SvrLoopProofs` and `LoaderProofs` |
| `RuleMap` | rules, handles and attributes of the files under `prule_lockval` |
| `Daemon` | `RuleMap` composed with start-up, mount, signals and shut-down |
| `DaemonProofs` | live rules, sizes and permissions in each step of `RuleMap`; handles stay good, sizes count, changes are allowed, the parts go after their users, nothing is left at the exit |
| `MCDaemon` | instances of `Daemon` for TLC |
| `Loader` | the INI and the YAML loader, against what a configuration means |
| `MCLoader` | configurations for TLC |
| `LoaderProofs` | what is loaded is what the configuration says; the plugins of the list are alive |

### WriteStack

State.  `wbmap` is the domain of `wbstackmap`; `stack[f]` is the `Stack` of the
buffer of file handle `f`; `tail[f]` is the set of pids whose input buffer on
`f` is not empty; `done[f][p]` counts the lines `p` has finished on `f`; `hand[a]`
is the batch a thread has popped and not processed to the end; `valmap` is the
timeup thread's own map of batches; `wlock` is `wstack_lockval`; `pc`, `tpc` and
`cpc` are the steps of the workers, the timeup thread and `Clean`.  `out`, `lost`
and `dropped` record what became of the lines and are never read by a guard.

Atomicity.  A critical section with nothing blocking in it is one step
(`Push`'s search, `Pop`, `StackPush`); the two sections that hold
`wstack_lockval` over several effects, the scan of the timeup thread and
`CloseAll`, take one step per effect.  The read of the stack size without the
lock in `IsStackLimit` is folded into the check: it can only answer TRUE
earlier, and the pop that follows takes what is there.

A line is named by file, pid and number.  Its bytes are abstracted; which
lines a rule drops or an output refuses is a nondeterministic choice on the
files in `Filtered` and `Failing`.  For a rule that transfers to k2hash, a
batch goes out in one call; the model puts it out line by line, which allows
more interleavings and nothing else.

Assumed of the kernel and libfuse: a pid has one request in progress (FUSE
passes the id of the calling thread), a release comes once, when no request on
the description is in progress, with the pid of some process; libfuse's worker
threads block the exit signals, so the handler runs in the main thread and the
join does not wait for itself.  That pid need not be the one of a writer: descriptors are
inherited, and the kernel sends a release on its own account.

Bounds.  `MaxLines[p]` lines of process `p` per file, two processes or two files,
`StackLineMax = 1`.  In `two_writers` one process finishes two lines and the other one: a stack
reaches the limit and exceeds it, a batch has one and two lines, a second writer pushes between
the check and the pop, one release carries the pid of its writer and the other that of either, and both writers, the timeup thread and the cleaner can hold batches of one
file at once.  Two lines of one writer are enough to see a reordering, and two places to see a
line doubled.  `refines` shares one descriptor between two processes, one line each, with an
output that fails and a shutdown by a signal; `release_pid` has the same descriptor and one line
each; `live` has one writer with two files, one of which
fails.

Fairness.  `Fairness` asks weak fairness of each worker, of the timeup thread, of
the cleaner and of time.  `wstack_lockval` is a spin lock, so for the two steps
that take it strong fairness is assumed: the timeup thread gives it back
after one scan and then sleeps at least 100ms (`k2hftman.cc:96`).  Nothing obliges
a process to write or close, or anybody to stop the daemon.

### What the runs show

| run | question | outcome |
|---|---|---|
| `two_writers` | interleavings of two writers, the timeup thread and an unmount on one file | lines once and in order, bounded backlog, finished lines do not outlast the descriptors of their writer, `CloseAll` comes after the timeup thread and leaves nothing behind |
| `refines` | does the write path implement `LineConduit`, with failing output and a shutdown by a signal? | yes |
| `release_pid` | does the last close leave nothing behind, whatever pid it comes with? | not the unfinished line of another process (finding) |
| `live` | does every line go out, in the sense of the fair `LineConduit`, do requests return, does `Clean` end? | yes, with the timeup thread |

Disagreements between the code and what it says that show in the model and have no run.
The timeup thread is wanted when "stocked lines is over zero or has timeup time"
(`k2hftman.cc:332`) and `TimeupWorkerProc` leaves when there is no timeup time (`:88`): with TRANSLINECNT
alone a line below the limit waits until the next one or the close.  A shutdown by a signal deletes
buffers that a request has looked up (`LeaveFreed`, `LoseLine`), against "only growing up"
(`k2hftman.h:32`).
A batch may hold more lines than TRANSLINECNT:
`IsStackLimit` looks after the push and `Pop` takes the whole stack
(`k2hftwbuf.cc:388`, `:420`), while the sample configurations of the tests call it the
"transfer line count limit at one time".  After a shutdown by a signal has passed a buffer in `CloseAll`, a request that is
still served may write another line to it, which nobody puts out.

### FdCache

`FdCache` models the descriptor cache with its three kinds of actors: writers
(`K2hFtFdCache::Write`, from whatever thread processes a batch), the watch thread
(`WorkerThread`) and other programs that unlink, rename, recreate or chmod the
output files.  `curfwmap[p]` is the entry of path `p`; `fdt` is the descriptor table,
explicit because the code keeps descriptor numbers after it has given the lock
back; `ready` and `kick` are what epoll would report; `wpc`/`wr` and `tpc`/`batch`/
`cfd`/`cpath` are the steps and locals of the threads.  `lockval` is held over several
steps by `AddAllFileWatchEpoll` only; the other critical sections are one step.
`MCFdCache` holds the instances.

Assumed of the kernel: the lowest free number for a new descriptor, number 1 for
the first watch of an inotify instance, edge triggered epoll for the watches.  A
file that has gone from its path does not come back, and two paths are never
links to one file.  The branch of `GetFileWatch` that reopens an entry whose
`opened_fd` is invalid is left out: no entry in the map is ever in that state.
Running out of descriptors is modelled (`MaxFd`), `Close` is modelled at unmount,
when nobody writes.

| run | question | outcome |
|---|---|---|
| `fd_cache` | one file, up to three changes by others, failing open, inotify and epoll, a watch thread that fails to start or to wait | no descriptor lost, every new entry looked at, only files that have gone are dropped, a watched removal is noticed while the thread goes on, `Close` ends |

Disagreements that show in the model and have no run.  The number of a watch is closed as if it were
a descriptor; with two files and two removals it is one that is open on another file.  A
removal between the open of a file and its watch is never noticed (`k2hftfdcache.cc:347`).
`k2hftfdcache.h:82` says
that `GetFileWatch` returns a "READER LOCKed K2HFTFW"; it gives the lock back, and
`Write` uses `opened_fd` (`k2hftfdcache.cc:609`) while the watch thread may close it and
delete the entry (`ReadFreedFd`, and `ReadFd` followed by `DropWatch`).  `KickSignal` may
come before the new thread has blocked SIGUSR2 in `MakeSignalFd`; the default action of
the signal then ends the daemon (`alive`).  The liveness properties hold up to that.
When `MakeSignalFd`, the `epoll_ctl` of the signal or `epoll_pwait` fails, the watch thread ends
(`StartFails`, `WaitFails`; `k2hftfdcache.cc:135`, `:145`, `:200`) without a word to anybody:
`Initialize` has returned true, `run_thread` stays set, files are opened and cached as before and
removals are noticed no more, so that lines go to files that nobody sees.
`WatchedRemovalNoticed` holds up to that too; the other properties hold with it.

Bounds.  Three changes allow a file to be replaced, and its successor to be touched
and replaced again; four descriptor numbers are standard output, a file and its
watch, and one more that a writer opens for itself; six are enough for two paths.
With one path the number of the watch that is closed is always standard output or the entry's own.
With three paths it may be the inotify instance of another entry, and a third entry may
then get the same number; `OnlyRemovedIsDropped` and `WatchedRemovalNoticed` leave out the entries
this can happen to (`Alone`, `Wd`).  For the safety properties one path is no loss, they are
proved for any number of paths, writers and descriptors.  Fairness: each thread goes on when it can, and the spin
lock, which is held for a moment only, is got in the end (strong fairness of the
steps that take it).  Nothing has to fail, and `epoll_pwait` is interrupted only when it has nothing to report
(`WaitInterrupted`).  The signal descriptor is not in the descriptor table, so that `NoFdLeak` says nothing of
it: it is left open when `epoll_ctl` fails.

### PluginMan

`PluginMan` models the plugin processes and the threads that start and stop them: the
main thread (`RunPlugins` in `Initialize`, `StopPlugins` in `Clean`, the join of the watch
thread), the watch thread (`WatchChildrenExit`) and workers (`RunAddPlugin` for a created
file, and `Write` for a plugin whose output file was replaced).  `pl[p]` has the members
`pid`, `pipe_input` (open or not) and `auto_restart` of a plugin; `run_plugin` and
`stop_plugin` are the two lists; `proc` is the kernel's table of children, `hup` and
`killed` the pending signals.  `pc`, `arg` and `new` are the step, plugin and process of
each thread; `phase` is how far the main thread is.  `lockval` is held over several steps
by `RunPlugins` only.  The members of a plugin are not under the lock, so every
read of `pid` in `KillPlugin` is a step of its own.  `MCPluginMan` holds the instances.

Assumed: process ids are not used again; the daemon runs in the foreground (`-f`, as in
the repository's README.md:24; a fork after `Initialize` would leave the threads
behind); requests are over when `Clean` runs.
The condition the first children wait for, and what is written to the pipes, are
left out.

| run | question | outcome |
|---|---|---|
| `plugins` | one plugin of the configuration, each start of which may fail, beside one that a worker creates and restarts | the first has one process, but for those whose start failed after the fork, and is listed under the id of a child; it is restarted when it exits; an unmount ends |

A start may fail at any time for the plugins in `MayFail`: before the child exists
(`FailStart`: `Register` or `fork`), or after it (`OpenFails`).  In the second case
`RunPluginProcess` returns `K2HFT_INVALID_PID` (`k2hftplugin.cc:476`) and the child runs on: no list
has it, `StopPlugins` does not stop it, and since the plugin is still in the stop list
the next exit of any child starts another one, with the same named pipe.  `lost` is the
history of these children.  The properties count them out, and say that nothing else leaves a
second process, that none of them is ever listed, and that the plugin is still restarted.

The safety properties are about the plugins only the main thread and the
watch thread start (`Plain`).  For a plugin that `Write` restarts they do not hold: the
killed plugin stays in `stop_plugin` while `Write` sets `auto_restart` and lists a new
process, so the watch thread starts a second one; and a process that has been reaped
before it is listed stays listed.  More disagreements the model shows and no run
is spent on: a plugin that exits just before `StopPlugins` may be running when its object is
freed; `KillPlugin` checks the member `pid` and reads it again for each signal, so that
a plugin that exits meanwhile makes it `kill(-1, SIGHUP)` (`astray`); a child that dies
before it has opened its pipe leaves its parent in `open(2)` with the lock (`Blocked`); a
plugin whose start fails waits for the next exit of another (`failed`), against the
"run as soon as possible" of `k2hftplugin.cc:202`; when a plugin does not start at all,
`Initialize` frees the plugins that run.  Not in the
model: `RunPlugin` resets `pipe_input` without closing it (`k2hftplugin.cc:658`), so that each
restart loses a descriptor.  The liveness properties name these cases.

Bounds.  Three processes are the two plugins and one restart of either (or a start that
failed and its repetition), and the fourth fork fails; `MayFail` is the plugin of the
configuration; one exit by itself, one replaced file, and any number of exits by signals.
Fairness: threads go on, children open their pipe and die of SIGKILL; strong fairness
for the spin lock, which `RunPlugins` holds as long as it starts plugins.  Nothing has to fail.

### RuleMap

`RuleMap` models the rules and attributes of the files and the callbacks that use them.
`RuleMap[p]` is the address of the rule of path `p` and `rules[i]` what is at an address:
what `stat` shows, the size and the time, and whether a plugin reads the output.
`prule_lockval` is the lock; `call`, `pc` and `fi` are the request, the step and the found
handle of each worker; `handles` are the open files, with the address the kernel hands
back; `adding` is an addition to `AccumSize` between its read and its write.  `Config`,
`DirMode` and `cleaning` are the flag, the mode of the mount point and the step of
`K2hFtInfo::Clean`.  `failed`, `put`, `overlapped` and `raced` are histories.

Each lookup or change under the lock is one step, and the callbacks have one step for each
of them: the file, the handle, the parent directory, the change.  That is where other requests
go in between.  `CreateFile` keeps the lock while the plugin of a new file starts (step
`plugin`).  `SetTimespec` takes no lock: a walk that runs while the map changes is `torn`, and
may then miss its file or write to a freed rule.  The addition to `AccumSize` has no lock either,
and is a read and a write.  A path is the sequence of its names, and the path of every directory above it is a path too
(`PathAssumption`); permissions are sets of bits.  A rule for a directory starts with the size
of a page, one for a file with 0 (`k2hftinfo.cc:1131`, `:1804`); `SizeBounded` is about files.

`FindPath` and `ReadDir` are two loops over the same map.  The first stops at the first key that is the
path or goes on below it, the second goes on, and passes over a name it has already listed; both depend on
the order of the keys (`MapOrder`, in which the key of a directory comes before the keys below it).
`ListingAgrees` compares them: names and attributes, also where a rule is the directory of other rules.

When the plugin of a new file cannot be started, the rule is deleted and `RuleMap` keeps its
address (`k2hftinfo.cc:2692-2705`); the path is then in `failed`.  What a later look reads there is
nothing the program has written: a condition on it may come out either way (`Shown`), and a write to
it changes no rule.  An address that was freed is not given out again.

`SizeBounded` bounds the size from both sides by what went through `Processing` since the last
truncation, which is counted when the addition reads (`put`), one step before it is written.  Above: no
value counts twice, unless one was under way at the truncation (`raced`).  Below: no value is lost but
those that met another one under way (`overlapped`).  A value whose output has failed counts too, as in
the code.

Assumed of the kernel: it keeps changes of one file apart, and creations in one directory, and
opens a file only after a lookup has found it.

### Daemon

`Daemon` extends `RuleMap` with the program around it: the main thread goes through the nine
parts of `Initialize` (`main`), of which any in `Failures` may fail, mounts, serves, and ends
through `Clean`, called by the signal handler, by `h2htpfs_destroy` or by the destructor
(`caller`), whichever is first.  `conf_lockval`, `exit_lockval` and `run_thread` are the code's;
`thread` says which of the threads run, `has` what has to be given back, `children` whether
plugins run.  `StopPlugins`, the Close of the descriptor cache and `CloseAll` are one step each
here; `PluginMan`, `FdCache` and `WriteStack` have their insides.  `MCDaemon` has the
instances, which run `RuleMap` inside of `Daemon`, so that rules are loaded, used and freed
in the order of the program.

| run | question | outcome |
|---|---|---|
| `daemon` | three users' requests beside a timeup thread, failing parts and plugins, an unmount or a signal | handles stay, listings agree with lookups, sizes lose and double no more than what overlaps, changes are made by those who may, requests are answered, what is taken is given back after its users, the main thread does not hang |
| `top_create` | does every callback give the lock of the rules back? | not a create right under the mount point (finding) |
| `background` | do the threads run in the process that serves? | not without `-f` (finding) |

Disagreements that show in the model and have no run.  After a signal the handler asks for
`fusermount -u` once, in the background, and nobody looks at the answer (`k2hftfuse.cc:294`): with an
open file the mount point stays, without rules, although the comment at `:264` calls this "a
procedure for terminating k2hftfuse successfully".  When the plugin of a new file does not start,
the rule is deleted and the map keeps its address (`k2hftinfo.cc:2699`; `failed`).
When the timeup thread cannot be created, `Initialize` returns with `conf_lockval` held
(`k2hftman.cc:342`) and `Clean` waits for it for ever (`"timeup"` in `Failures`).  Additions to
`AccumSize` that overlap lose one, and one that is under way at a truncation brings the old size
back, against "AccumSize means transferred byte data." (`k2hftinfo.cc:2836`).

Bounds.  Two workers, three requests out of thirteen, so that two overlap and a third meets what they
left; one value from the timeup thread; three users (the super user, an owner, another); a
directory with a rule, a file in it, one to create, a directory whose rule forbids others to
write, one that is only on the way to a rule, and a path under that.  The addresses are as many
as can ever be needed (`MaxRules`).  `daemon` leaves out the failure of the timeup thread, and of the
plugins at start, which `PluginMan` has.  It checks no deadlock, because the process ends and
requests stop at the bound; `RequestAnswered` and `MainGoesOn` say what must not stop.
Fairness is weak and of all threads together: as long as some thread of the daemon, or
fusermount, can go on, one does.  Nothing in the daemon goes round in circles by itself, so a
thread that is passed over would in the end be the only one left to run.  Nobody has to ask, to
unmount or to send a signal.

### LineAssembly and SvrLoop

`LineAssembly` models how `StringPush` and `BinaryPush` make lines of the bytes one process
writes to one file.  `data` holds the bytes of the current call that have not been looked at,
`cache` and `size` are `CacheBuff` up to `CacheBuffPos` and `CacheBuffSize`, `stack` is the
stack of the file; `call` says where Push is.  A step is one line, block or rest, so another
thread may pop the stack between two lines of one write.  `written`, `forced` and `taken`
are histories for the properties: the bytes with the cuts between writes, the places of
the releases, the lines stacked.

`SvrLoop` extends it with the rest of a line's way: `Send` is `Pop` and the transaction to
the server, `msgs` the queue, and `Receive`, `Collect`, `SkipLine`, `PutPlugin`, `WriteFile`
and `Transfer` are the main loop and `Processing` of k2hftfusesvr.  `cnt` and `pLines` are
the code's; `pLines` is the place of the line in its message.  `collected` is the content of
`pFileOutput`, as names of lines; `put` is the output, `refused` the lines an output did not
take.  `MCSvrLoop` has the instances: eight pairs of configurations of the two programs.

| run | question | outcome |
|---|---|---|
| `lines` | does what is written come out, however it is cut? | the lines are those of the bytes, put out once and in order; in plain text and binary mode the output is what was written |

`LinesMatchReference` compares the lines with a definition of a line that knows no
buffer: where the ends are, among the bytes and cuts of the history; `at` is the end of each stacked
line.  `BytesArrive` says the same of the bytes of the output.  The first also says what
a reader might not expect: a CRLF that is cut between two writes is two ends of line and
gives an empty line (the comment "for cut CRLF" at `k2hftwbuf.cc:166` notwithstanding), and
one that is not cut loses its line feed.

The model shows disagreements that have no run of their own.  Behind a line that does not convert,
`continue` (`k2hftfusesvr.cc:343`, `:367`) skips the step to the next line, so that the lines behind it are not put
out (`SkipLine`; `GoodLinesArrive` is stated up to that).  Two lines without a
byte to put at the start of a message (two zero bytes written by a process) make `Processing`
call `realloc` with size 0 on a block; it frees the block, its NULL is reported as "Could not
allocate memory, but continue..." (`k2hftfusesvr.cc:393`), and the freed pointer is used again.
That is undefined, and the model stops in the step `undefined`.  With BINTRANS and a FORMAT
other than `%L`, `ConvertOutput` refuses every line, so that nothing is put out (configuration
`Refuses`).

Bounds.  Three bytes out of four kinds, in all cuts into writes and with all releases: a
CRLF cut and whole, with a byte after or before it, lines of one to three writes, a buffer that has
to grow for the terminator only, a block filled exactly and exceeded, a line just over the
limit, and messages of up to three lines, of which any may be empty.  The sizes of buffer and block
are two bytes.  The properties are invariants, so no
fairness is assumed.

### Loader

`Loader` models the reading of the configuration, which is written twice in the code: `LoadIni`
walks over lines, `LoadYaml` over the events of libyaml, which also reads JSON.  A configuration
(`doc`) is a main section and groups of rules; `AsIni` and `AsYaml` write it down in each form as the
tokens the loader meets, `rest` is what is left of them, and `at` the function or loop the loader is in.
`members`, `RuleMap`, `pTmpRule`, `AllowMatchs`, `DenyMatchs` and `is_dir_rule` are the code's;
`stop_plugin` is the list of the plugin manager, to which a plugin is given as it is read, and
`freed` the places in it whose object has been deleted since.  What one key does is the same code in both
loaders and one operator here; what differs is when the loaders look at what.
Values are members of `Words`; `MCLoader` has the configurations.

The reference definition is `MeantMembers` and `MeantRules`, which do not read in order but compare places
(`Places`, `Before`): the last value that means something
counts, of several rules for a target the last, of the patterns those that make an exception to the default.
`Plain` says for which configurations `LoadYaml` does the same.

| run | question | outcome |
|---|---|---|
| `config` | is what is loaded what the configuration says, in both forms? | yes; impossible ones are refused and leave nothing (YAML: for plain ones); no rule has a deleted plugin, and the manager only those that a rule replaces |
| `yaml_rules` | does YAML mean the same for rules with ALLOW? | no, the patterns are lost (finding) |

More differences that show in the model and have no run.  `LoadYamlMainSec` clears the key before
it looks whether it was a directory rule, so that `RULE_DIR` arrays of the sample become file rules
(`k2hftinfo.cc:1498`).  `LoadYamlRuleSec` goes on after it has called `Clean` for an output that is not
found, and the load succeeds without rules (`:1927`); it looks at the end of each array, so that an output
named in a later array is refused.  `LoadYamlTopLevel` never sets `is_set_main`, and a second main section
is read (`:1421`).  A list of one string or of three (`NotTwo`) is refused in YAML (`:2051`); in INI the first is a pattern
and the second is skipped with a warning.  A second PLUGIN in a rule deletes a plugin that the manager has in its
list and will start (`:1007`), and so does the `Clean` above; `PluginsLive` takes in both: no rule is left with a
deleted plugin, and of those in the list only replaced ones are deleted (`Replaced`), but for the YAML
configurations outside of `Plain`.
`Clean` resets neither `IsBinaryMode` nor the expiration time.

Not in the model: INCLUDE of INI files (`k2hftiniparser.cc`), keys that only store a number, sections of other
programs, and files libyaml itself finds wrong.

Bounds.  Every main section out of six, before or after up to two rules out of eight, in one array or
two, as files or directories, and with a second main section: 4716 configurations in two forms.
Two rules are enough to overwrite a target, to name an output of an earlier or later rule, and to meet a
plugin twice.  Loading is sequential and ends, so there is no fairness, and no deadlock to look for at
its end.

## Proofs

`WriteStackProofs` proves `TypeCorrect` and `StepsCorrect` together, because a
step keeps the types only if a request that is served names an open file, which is
part of `StepOK`.  `StepOK` says which data goes with which step of each thread;
it is what rules out that a pop overwrites a batch somebody still holds.
`TimerJoined` needs one more invariant, `JoinInv`: as long as the daemon is up,
`run_thread` is FALSE only if the thread had already left, so the path of
`CleanStart` that skips the join is taken only when there is nothing to join.

`WriteStackLines` proves `LinesExactlyOnce` first.  The places that hold lines form one
family of sequences; five lemmas say what a family keeps when a new line is
appended, a line is given up, a head is taken off, a sequence moves to an empty
spot, or is given up as a whole.  Each action is one or two of these (a processed
line is a head taken off and appended to the output).  The move needs its target
to be empty, which is where `StepOK` comes in.  The inductive invariant `OnceInv`
says that the family has no line twice, none that was given up, and as a
whole exactly the finished lines.

`BacklogBounded` rests on `BacklogInv`: over a stack that is larger than the limit there is a
worker between `StackPush` and `CheckPush`, or `CloseAll` is at it.  `BacklogBound` accepts any request that has the
file in its hand, but not every one of them is certain to look at the stack again.  `BufferInv` beside it says that a file with lines waiting is in
`wbstackmap`, so that whoever looks for it finds it.

`UnmountFlushes` assumes `~SignalExit`, because without it the property is false, and TLC shows it:
after a signal `CloseAll` runs beside requests that are still served, and deletes the buffers they have
found.  `CloseInv` then says that `CloseAll` meets no request (an unmount waits for them) and leaves
nothing behind where it has been.

`ReleaseFlushesAll` has no hypothesis.  `ReleaseInv` follows the care for what a process has left on a
file: as long as a finished line of it is in the stack, it has a descriptor, or a worker is on the way to
pop that stack, by force if it serves a release, or `CloseAll` is (`LineCare`); and as long as its unfinished
line is in the input buffer, a descriptor is open or the release that forces it out is under
way, if releases carry no other pid (`TailCare`).  What a release with another pid leaves behind is
the finding of `release_pid`.

What the same module says about order builds on the effects that this proof distinguishes: every
step of `Next` is a `LineStep` of one of seven kinds, or leaves the lines alone.  `OrderInv`
adds to `BatchesInOrder` that the stack of a file has lines of that file only and that
what has left it is older (`Newest`).  Neither property is inductive alone: that a new line goes behind all
others of its writer is `OnceInv` (its number has not been given yet), that a popped
batch goes before what is stacked later is `Newest`.  `WritePathImplementsConduit` then takes
the same seven kinds one by one: stacking a line accepts it, putting it out or failing to emits it or
gives it up, and moving a batch is a stutter, since a line is pending wherever it waits.

The proofs about `WriteStack` assume `OpensAssumption`, `LimitAssumption` and `NameAssumption`
besides these; sets of files, processes and descriptors may be infinite.

`FdCacheProofs` proves all the safety properties of `FdCache` for any paths, writers, descriptors and
changes from outside, and whatever fails; it assumes nothing but the types of the constants
and that no path is the null path.  `NoFdLeak` needs that a watch is put only on an entry that has
none (`LockInv`: what is in `todo` stays so while `AddAllFileWatchEpoll` holds the lock) and that
a writer which opened the file for itself is about to write (`WriterInv`); that the number of a
watch closes somebody else's descriptor does not matter for it.  `KickedUntilWatched` is one half of
`LookInv`, which also says that `todo` has whatever has not been looked at, and rests on `TriedInv`.  For
`OnlyRemovedIsDropped`, `EntryInv` says that the files at a path are numbered upwards,
`WatchInv` that an inotify instance has an entry and watches a file not older than the entry's, so that a
file which was moved away cannot be older than the entry; `FoundInv` carries what the thread has
found over the time it does not hold the lock, in which nobody else can touch an entry with that
descriptor and a file that has gone stays gone.

`PluginManProofs` proves the types and both safety properties of `PluginMan` for any plugins,
workers and numbers of processes, exits and requests.  `StepOK` says what each thread is in
the middle of.  For the plugins that only the main and the watch thread start, `PlaceInv` says
that each is in exactly one place: once in the stop list and nowhere else, with all its processes
reaped (`InStopList`); in the stop list and being started by one thread, whose new process
is the only one not reaped (`BeingStarted`); or once in the running list under the id of
that process (`InRunList`).  A process that is listed may have been reaped only if the watch
thread has it in its hand (`Tracked`).  `OneProcess` and `RunListIsChildren` are each too
weak alone: that a fork finds no process left comes from where the plugin was taken from.
Children whose start failed with the open of the pipe are in `lost` from that step on:
`Own` and `Kept` leave them out, and `StepOK` says that no thread has one in hand.
For plugins that a worker restarts (not in `Plain`) both are false, as said above.

`DaemonProofs` first shows of each step of `RuleMap` that it keeps `InfoInv`, and then puts the
steps together, for any rules, paths, users, requests and workers and any set of parts that
`Initialize` may fail to get.  `HandleStays` is not inductive: that a handle is the address of its
path's rule depends on what the workers have found and not yet handed out (`HandleInv`), on
`create` looking before it inserts and nobody creating in the same directory meanwhile
(`Apart`, which the kernel promises), and on addresses in the map being those made so far
(`MapInv`).  That the rule of a handle is not freed when a plugin fails is `PlugInv`: the rule whose
plugin is being started has its path to itself, no handle and no addition under way.  `MapInv` also says that no rule is out of the map, which is why `Clean` frees all
of them.  Around it, `StartInv` says that nobody uses anything until fuse_main has mounted, so
that an Initialize which fails may free at once; `CallerInv` that Clean goes through once;
`TimeupInv` that a timeup thread with a value in hand has not been joined; `HasInv` and
`EndInv` what has been taken and given back at each step of the main thread.  The step of a
thread moves only its own part of these, and the steps that leave the rules alone
(`MainAside`) are proved without looking at them.

`SizesCount` takes `SizeInv`: for each addition under way, what it has read is below what went through
`Processing`, since its own value is counted already, and short of it by no more than the values that met
another one and itself; the same bound holds for the size meanwhile, whoever writes last.  `ChangesAllowed` takes `AllowInv`: the callbacks check in
one critical section and change in another, and in between nothing may take the permission away.
For `chmod` and `chown` that is so because the owner of a file is changed only by its owner, for a
creation because directories are never changed; a rule freed by a plugin that failed is nobody's
permission any more.  `ListingsAgree` needs no invariant of the steps: it is about two loops over any map
and any order of its keys in which a directory comes before what is in it.  `ListingMeans` shows that the
first key of a name below a directory (`FirstOfName`; that there is one, `HasFirst`, is the well-foundedness of the numbers) has the
attributes that `FindPath` finds for the name, a rule or the mount point's.

One thing is assumed: `UsersFirst` needs `"plugins" \notin Failures`: when `RunPlugins` fails half way, the
rules are freed while the plugins started so far run (listed among the hazards).  A failure of the
timeup thread is covered, although no run has it: the main thread then never comes to
its exit.

`SvrLoopProofs` covers both sides of the queue, for any set of configurations, any sizes of
the buffer and of a block, and any number of bytes.  `AssemblyInv` has the types,
`BufferHolds`, that a block not being taken has room for a byte (`BlockOpen`: otherwise a piece of no
bytes would be cut off for ever), and that no more lines are stacked than bytes were written
(`Counts`), which bounds the length of a message.  `BufferIsLargeEnough` is then a matter of
`AppendStringBuff` alone.  `LinesKeepOrder` needs the lines that are put out and those collected
after them as one sequence (`Outgoing`): it is sorted, and everything in it is
behind the walk (`OrderInv`).  In `LinesArrive`, `DoneInv` says that the counter of the loop and
`pLines` go together until a line does not convert, and that every line before `pLines` was
handled, unless the buffer for the file has been freed, from where only `undefined` is reached.

`LinesAreTheBytes` rests on `LinesInv`: what Push still looks at is the end of what was
written, in one write (`Remaining`); between two lines the cache holds the bytes since the last end of line
(`Collecting`); when a line is complete the cache is that line, its end the last byte looked at or the carriage
return before it (`Completed`).  Each says up to which byte the lines have been stacked, with a function that
gives the end of each stacked line, so that a step adds one line or none.  In binary mode `Aligned` is needed as
well: the last end is a whole number of blocks behind the last release.

`BytesReachOutput` adds `FlowInv`: the lines ever stacked are those of the messages one after the other, with a
function for where each message begins (`Placed`), and what goes out are the lines of the messages without a gap
up to where `Processing` is (`Walked`, which needs that the buffer was not freed).  So the nth line put out is the
nth line stacked (`PutIsTaken`), and `TakenBytes` says what the first n of those amount to.  There, and in the
lemmas about `FlattenSeq`, induction is by the least counterexample (`LeastNumber`, from `WFMin` of the library,
which needs no operator as a parameter).

`LoaderProofs` covers every configuration: any number of groups and rules, keys in any order and
number, any values, and any outputs.  `LoadInv` gives the loader a spot in the configuration at every step:
what is left to read (`rest`) is the text from there on (`IniLeft`, `YamlLeft`, `InRule`), and what has been
read is loaded as it is meant: the members are those the main keys so far mean (`MainSoFar`), `RuleMap` has the
rules of the places passed (`Ruled`), and the rule at hand is what its items so far mean (`RuleSoFar`).
Reading a token moves the spot by one.  A spot is behind a rule or a group and not before one, because
a group without rules writes no text: the next token then comes from whichever group is
the next that has any, and that it does is shown by the least number of a group that has one.

Two families of lemmas carry it.  One says what one more entry does to the reference:
the last value that counts, the file name that a later type clears, the patterns, the last rule for a target
(`RulesGrow`, which the code does with `PutRule`).  The other says what the text from a spot begins with.
In YAML the patterns are dropped at the end of an array, so they may be there or not until
then (`Listed`, `Stripped`), and a configuration with the main keys behind the arrays must not be binary, which is in
`Plain`.  In the rules a plugin is known by its name in the list (`Named`), which `AddPluginInfo` only ever extends.

For the plugins, `Outcome` says that every deleted one is replaced in the configuration (`Frees`): the rule at hand
has the name of its plugin from one of the keys read so far, so that the PLUGIN that deletes it is another.  That the
rules have live plugins of their own is an invariant by itself, `PluginsInv`, and holds for every configuration in
both forms, also for YAML outside of `Plain`: the rule at hand is `Apart` from the map, a plugin is new when it
is given to a rule, and `Clean` leaves no rule with what it deletes.

`DocAssumption` is what the theorems assume of a configuration: keys and values are known words, and every
rule has a TARGET.

Only model-checked, and why.  Liveness under fairness is out of the prover's reach:
`ImplementsFairConduit`, `RequestReturns` and `CleanEnds` of `WriteStack`, `WatchedRemovalNoticed` and
`CloseEnds` of `FdCache`, `ExitedPluginRestarts` and `CleanEnds` of `PluginMan`, `RequestAnswered` and
`MainGoesOn` of `Daemon`.  Every other property of a passing run is proved.

## Plan

What was planned first is done: `WriteStack` over `LineConduit`, `FdCache`,
`PluginMan`, `LineAssembly` and `SvrLoop`, `RuleMap`, start-up and shut-down (`Daemon`), the
loaders of the daemon (`Loader`), and proofs of every property that is not a liveness property.  What is left, in
this order:

1. `WriteStack` composed with `FdCache` and `PluginMan` in place of the nondeterministic output.
2. The rest of `PluginMan`: the condition the first children wait for (`ExecPlugins`) and the
   writes to the pipes.
3. `build_k2hft_match_pattern` and the format strings of the server, as pure operators, and the
   server's own loaders.

## Not modelled

Logging (`k2hftdbg.cc`) and the option parser keep no state that anything depends on.  The packing of
bytes into structures is layout.  k2hash, chmpx, fullock, libfuse, libyaml, regex and the kernel are
external, and modelled only from how the code uses them.  The server's loaders are the daemon's a third
and fourth time, with keys that each store one value.
