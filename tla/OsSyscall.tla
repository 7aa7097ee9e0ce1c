----------------------------- MODULE OsSyscall -----------------------------
(***************************************************************************)
(* The emulated Linux system calls (src/os_emulation/ossyscall.cpp): the   *)
(* exception handler that ecall reaches, its table of file descriptors and *)
(* the end of its anonymous mappings.  The host is the environment: it     *)
(* opens files with its lowest free descriptor, and may fail or do a       *)
(* transfer in part.  Of the data only the number of bytes is kept.        *)
(***************************************************************************)
EXTENDS Integers, FiniteSets, FiniteSetsExt, SequencesExt

CONSTANTS
    Paths,            \* the names programs open: sequences of path elements
    HostFiles,        \* the files that exist, as elements below the root
    HostFds,          \* the descriptors the host has for them
    HostErrors,       \* how a transfer or a truncation may fail there
    Numbers,          \* the system call numbers programs use
    MaxFd,            \* programs use descriptors up to it
    Lengths, Iovs,    \* buffer lengths; sequences of them
    Word,             \* 2^32
    AnonymousBase,
    MapLengths, MaxMaps,
    MaxInput,         \* characters typed
    KNOWN_SYSCALL_STOP, UNKNOWN_SYSCALL_STOP

ASSUME OsAssumption ==
    /\ Word \in Nat /\ AnonymousBase \in 0 .. Word - 1 /\ MapLengths \subseteq 0 .. Word - 1
    /\ HostFds \subseteq Nat
    /\ Lengths \subseteq Nat /\ Iovs \subseteq Seq(Nat)
    /\ MaxFd \in Nat /\ MaxMaps \in Nat /\ MaxInput \in Nat

VARIABLES
    fs_root,          \* TRUE: a file system root is set
    fd_mapping,       \* a sequence; descriptor i is element i + 1
    anonymous_last, brk_limit,
    a0,               \* the register with the result
    state,            \* running; stopped on the exception; trapped, for good
    host,             \* the host's open descriptors
    input,            \* characters waiting in the terminal
    typed,
    moved,            \* bytes the last call moved from or to memory
    maps              \* regions given out: <<first, length>>

vars == <<fs_root, fd_mapping, anonymous_last, brk_limit, a0, state, host, input, typed, moved, maps>>

FD_UNUSED == -1
FD_INVALID == -1
FD_TERMINAL == -2

TARGET_EINVAL == 22
TARGET_ENOSYS == 89

\* The program's numbers for the errors of the host that are told apart here.
errno_map == [ENOENT |-> 2, EIO |-> 5, EBADF |-> 9, EMFILE |-> 24]

\* An error without a number there is -1.
result_errno_if_error(errno) == IF errno \in DOMAIN errno_map THEN -errno_map[errno] ELSE -1

\* The handlers of the system calls, by number.
rv_syscall_count == 244
rv_syscall_args ==
    [n \in 0 .. rv_syscall_count - 1 |->
        CASE n = 46 -> "ftruncate" [] n = 56 -> "openat" [] n = 57 -> "close" [] n = 63 -> "read"
          [] n = 64 -> "write" [] n = 65 -> "readv" [] n = 66 -> "writev" [] n = 93 -> "exit"
          [] n = 214 -> "brk" [] n = 222 -> "mmap" [] OTHER -> "default"]

\* A negative result is an error number; the status it turns into is positive.
status_from_result(result) == IF result < 0 THEN -result ELSE 0

\* What handle_exception writes to a0: the status only if it is negative.
Return(status, result) == a0' = IF status < 0 THEN status ELSE result

Finish(result) == Return(status_from_result(result), result)

Stop(handler_stops) == state' = IF handler_stops \/ KNOWN_SYSCALL_STOP THEN "stopped" ELSE "running"

(***************************************************************************)
(* The table of descriptors                                                *)
(***************************************************************************)
targetfd_to_fd(targetfd) ==
    IF targetfd \in 0 .. Len(fd_mapping) - 1 THEN fd_mapping[targetfd + 1] ELSE FD_INVALID

allocate_fd(table, val) ==
    LET free == {i \in DOMAIN table : table[i] = FD_UNUSED}
    IN  IF free = {} THEN Append(table, val) ELSE [table EXCEPT ![Min(free)] = val]

\* The descriptor allocate_fd has returned.
Allocated(table, new) == Min({i \in DOMAIN new : i > Len(table) \/ table[i] # new[i]}) - 1

\* Mutant: the entry keeps its host descriptor.
close_fd_Keep(table, targetfd) == table

close_fd(table, targetfd) ==
    IF targetfd <= Len(table) THEN [table EXCEPT ![targetfd + 1] = FD_UNUSED] ELSE table

\* Each ".." takes the element before it along, at the front only itself.
filepath_to_host(path) ==
    FoldLeft(LAMBDA kept, element : IF element # ".." THEN Append(kept, element)
                                    ELSE IF kept = <<>> THEN kept ELSE Front(kept),
             <<>>, path)

file_open(path) ==
    LET new == Min(HostFds \ host)
    IN  \/ /\ ~fs_root
           /\ fd_mapping' = allocate_fd(fd_mapping, FD_TERMINAL)
           /\ Finish(Allocated(fd_mapping, allocate_fd(fd_mapping, FD_TERMINAL)))
           /\ UNCHANGED host
        \/ /\ fs_root /\ host # HostFds /\ filepath_to_host(path) \in HostFiles
           /\ host' = host \cup {new}
           /\ fd_mapping' = allocate_fd(fd_mapping, new)
           /\ Finish(Allocated(fd_mapping, allocate_fd(fd_mapping, new)))
        \/ /\ fs_root /\ (host = HostFds \/ filepath_to_host(path) \notin HostFiles)
           /\ Finish(result_errno_if_error(IF host = HostFds THEN "EMFILE" ELSE "ENOENT"))
           /\ UNCHANGED <<fd_mapping, host>>

(***************************************************************************)
(* Transfers.  `run` is a call under way: its result, the bytes moved, the *)
(* input left, and whether a short count has ended it.                     *)
(***************************************************************************)
\* What the host's read and write may return.
HostCounts(len) == (0 .. len) \cup {result_errno_if_error(e) : e \in HostErrors}

write_io(fd, len) == IF fd = FD_TERMINAL THEN {len} ELSE HostCounts(len)

\* The terminal adds a newline when it has no more characters.
read_io(fd, len, chars) ==
    IF fd # FD_TERMINAL THEN HostCounts(len)
    ELSE {IF len <= chars THEN len ELSE chars + 1}

\* Mutant: an error replaces the count so far.
Transfer_LastError(run, count, len, chars) ==
    [result |-> IF count >= 0 THEN run.result + count ELSE count,
     moved |-> run.moved + (IF count >= 0 THEN count ELSE 0),
     input |-> chars, done |-> count < len]

Transfer(run, count, len, chars) ==
    [result |-> IF count >= 0 THEN run.result + count
                ELSE IF run.result = 0 THEN count ELSE run.result,
     moved |-> run.moved + (IF count >= 0 THEN count ELSE 0),
     input |-> chars,
     done |-> count < len]

\* The calls one more buffer may lead to.
Extend(op, fd, run, len) ==
    LET left == IF op = "read" /\ fd = FD_TERMINAL
                THEN IF len <= run.input THEN run.input - len ELSE 0
                ELSE run.input
        counts == IF op = "read" THEN read_io(fd, len, run.input) ELSE write_io(fd, len)
    IN  IF run.done THEN {run} ELSE {Transfer(run, count, len, left) : count \in counts}

\* The calls that the buffers `iov` may lead to, one buffer after the other.
Runs(op, fd, iov) ==
    LET after[n \in 0 .. Len(iov)] ==
            IF n = 0 THEN {[result |-> 0, moved |-> 0, input |-> input, done |-> FALSE]}
            ELSE UNION {Extend(op, fd, run, iov[n]) : run \in after[n - 1]}
    IN  after[Len(iov)]

DoTransfer(op, targetfd, iov) ==
    /\ IF targetfd_to_fd(targetfd) = FD_INVALID
       THEN /\ Return(0, -TARGET_EINVAL)
            /\ moved' = 0
            /\ UNCHANGED input
       ELSE \E run \in Runs(op, targetfd_to_fd(targetfd), iov) :
              /\ Finish(run.result)
              /\ moved' = run.moved
              /\ input' = run.input
    /\ Stop(FALSE)
    /\ UNCHANGED <<fd_mapping, anonymous_last, brk_limit, host, typed, maps>>

(***************************************************************************)
(* System calls                                                            *)
(***************************************************************************)
do_sys_read(targetfd, len) == DoTransfer("read", targetfd, <<len>>)
do_sys_write(targetfd, len) == DoTransfer("write", targetfd, <<len>>)
do_sys_readv(targetfd, iov) == DoTransfer("read", targetfd, iov)
do_sys_writev(targetfd, iov) == DoTransfer("write", targetfd, iov)

\* Descriptors relative to a directory are not implemented, which the program
\* is not told.
do_sys_openat(at_cwd, path) ==
    /\ IF at_cwd THEN file_open(path)
       ELSE Return(TARGET_ENOSYS, 0) /\ UNCHANGED <<fd_mapping, host>>
    /\ Stop(~at_cwd /\ UNKNOWN_SYSCALL_STOP)
    /\ moved' = 0
    /\ UNCHANGED <<anonymous_last, brk_limit, input, typed, maps>>

do_sys_close(targetfd) ==
    /\ IF targetfd_to_fd(targetfd) = FD_INVALID
       THEN Return(0, -TARGET_EINVAL) /\ UNCHANGED <<fd_mapping, host>>
       ELSE /\ Finish(0)
            /\ host' = host \ {targetfd_to_fd(targetfd)}
            /\ fd_mapping' = close_fd(fd_mapping, targetfd)
    /\ Stop(FALSE)
    /\ moved' = 0
    /\ UNCHANGED <<anonymous_last, brk_limit, input, typed, maps>>

do_sys_ftruncate(targetfd) ==
    /\ IF targetfd_to_fd(targetfd) = FD_INVALID THEN Return(0, -TARGET_EINVAL)
       ELSE IF targetfd_to_fd(targetfd) = FD_TERMINAL THEN Finish(result_errno_if_error("EBADF"))
       ELSE \E result \in {0} \cup {result_errno_if_error(e) : e \in HostErrors} : Finish(result)
    /\ Stop(FALSE)
    /\ moved' = 0
    /\ UNCHANGED <<fd_mapping, anonymous_last, brk_limit, host, input, typed, maps>>

do_sys_brk(new_limit) ==
    /\ brk_limit' = new_limit
    /\ Return(0, new_limit)
    /\ Stop(FALSE)
    /\ moved' = 0
    /\ UNCHANGED <<fd_mapping, anonymous_last, host, input, typed, maps>>

\* Mutant: the end of the region is taken for its last byte.
NextRegion_Last(last, length) == (last + length - 1) % Word

NextRegion(last, length) == (last + length) % Word

do_sys_mmap(length) ==
    /\ Len(maps) < MaxMaps
    /\ Return(0, anonymous_last)
    /\ anonymous_last' = NextRegion(anonymous_last, length)
    /\ maps' = Append(maps, <<anonymous_last, length>>)
    /\ Stop(FALSE)
    /\ moved' = 0
    /\ UNCHANGED <<fd_mapping, brk_limit, host, input, typed>>

do_sys_exit ==
    /\ Finish(0)
    /\ Stop(TRUE)
    /\ moved' = 0
    /\ UNCHANGED <<fd_mapping, anonymous_last, brk_limit, host, input, typed, maps>>

\* The status TARGET_ENOSYS is positive: the program gets the result, zero.
syscall_default_handler ==
    /\ Return(TARGET_ENOSYS, 0)
    /\ Stop(UNKNOWN_SYSCALL_STOP)
    /\ moved' = 0
    /\ UNCHANGED <<fd_mapping, anonymous_last, brk_limit, host, input, typed, maps>>

\* A number outside of the table is an exception of the simulator.
syscall_unknown ==
    /\ state' = "trapped"
    /\ UNCHANGED <<fd_mapping, anonymous_last, brk_limit, a0, host, input, typed, moved, maps>>

Type ==
    /\ typed < MaxInput
    /\ typed' = typed + 1
    /\ input' = input + 1
    /\ UNCHANGED <<fd_mapping, anonymous_last, brk_limit, a0, state, host, moved, maps>>

\* Standard input may be mapped to a file of the host, before the program runs.
MapStdin ==
    /\ HostFds # {}
    /\ host = {Min(HostFds)}
    /\ fd_mapping = <<Min(HostFds), FD_TERMINAL, FD_TERMINAL>>

Init ==
    /\ fs_root \in BOOLEAN
    /\ MapStdin \/ (host = {} /\ fd_mapping = [i \in 1 .. 3 |-> FD_TERMINAL])
    /\ anonymous_last = AnonymousBase
    /\ brk_limit = 0
    /\ a0 = 0
    /\ state = "running"
    /\ input = 0 /\ typed = 0 /\ moved = 0
    /\ maps = <<>>

TargetFds == -1 .. MaxFd

handle_exception(number) ==
    LET handler == rv_syscall_args[number]
    IN  \/ number >= rv_syscall_count /\ syscall_unknown
        \/ /\ number < rv_syscall_count
           /\ \/ handler = "read" /\ \E fd \in TargetFds, len \in Lengths : do_sys_read(fd, len)
              \/ handler = "write" /\ \E fd \in TargetFds, len \in Lengths : do_sys_write(fd, len)
              \/ handler = "readv" /\ \E fd \in TargetFds, iov \in Iovs : do_sys_readv(fd, iov)
              \/ handler = "writev" /\ \E fd \in TargetFds, iov \in Iovs : do_sys_writev(fd, iov)
              \/ /\ handler = "openat" /\ Len(fd_mapping) <= MaxFd
                 /\ \E at_cwd \in BOOLEAN, path \in Paths : do_sys_openat(at_cwd, path)
              \/ handler = "close" /\ \E fd \in TargetFds : do_sys_close(fd)
              \/ handler = "ftruncate" /\ \E fd \in TargetFds : do_sys_ftruncate(fd)
              \/ handler = "brk" /\ \E limit \in MapLengths : do_sys_brk(limit)
              \/ handler = "mmap" /\ \E length \in MapLengths : do_sys_mmap(length)
              \/ handler = "exit" /\ do_sys_exit
              \/ handler = "default" /\ syscall_default_handler

Next == UNCHANGED fs_root /\ ((state # "trapped" /\ \E number \in Numbers : handle_exception(number)) \/ Type)

Spec == Init /\ [][Next]_vars

(***************************************************************************)
(* Properties                                                              *)
(***************************************************************************)
\* The host descriptors that are open are the ones in the table, each under one
\* descriptor of the program: none leaks, and a close cannot hit another file.
DescriptorsOwned ==
    /\ host = {fd_mapping[i] : i \in DOMAIN fd_mapping} \cap HostFds
    /\ \A i, j \in DOMAIN fd_mapping : i # j /\ fd_mapping[i] \in HostFds => fd_mapping[i] # fd_mapping[j]

\* A transfer that moved bytes reports how many, whatever stopped it; one that
\* reports an error moved none.
BytesReported == moved > 0 => a0 = moved

\* Two regions of mmap overlap only after a region from the first of them on has
\* reached the end of the address space.
MappingsDisjoint ==
    \A i, j \in DOMAIN maps :
        i < j /\ (\A k \in i .. j - 1 : maps[k][1] + maps[k][2] < Word) =>
            (maps[i][1] .. maps[i][1] + maps[i][2] - 1)
            \cap (maps[j][1] .. maps[j][1] + maps[j][2] - 1) = {}
=============================================================================
