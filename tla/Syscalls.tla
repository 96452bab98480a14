------------------------------ MODULE Syscalls ------------------------------
(***************************************************************************)
(* kernel/syscall/syscall_handler.c, which int 0x80 reaches, the functions *)
(* of kernel/syscall/syscall_implementations.c that are not modelled in    *)
(* Tasks, and the calls a program makes through usr/include/larch.h.       *)
(***************************************************************************)
EXTENDS Terminal

CONSTANTS Texts,          \* what programs write
          Calls,          \* the numbers they call, known to the kernel or not
          MaxWritten,     \* bound: letters between two clears
          MaxRow,         \* bound: the row the cursor gets down to
          MaxForks        \* bound: calls of sys_fork

ASSUME SyscallsConstants == MaxWritten \in Nat /\ MaxRow \in Nat /\ MaxForks \in Nat

SYS_EXIT == 1
SYS_WRITE == 3
SYS_ALLOC == 6
SYS_FREE == 7
ERROR == -1               \* 0xFFFFFFFF

VARIABLES eax,            \* what the last call returned
          next_pid        \* of syscall_implementations.c

syscall_vars == <<terminal_vars, eax, next_pid>>

SyscallsInit == TerminalInit /\ eax = 0 /\ next_pid = 1

Returns(value) == eax' = value /\ UNCHANGED terminal_vars

\* sys_alloc is defined nowhere; it may return anything.
sys_alloc == \E address \in {0, 4096} : Returns(address)

\* arg1 points to text, or is null; arg2 is the length, which a write returns
\* whatever it showed.
syscall_handler(num, null, text) ==
  \/ num = SYS_EXIT /\ Returns(0)
  \/ num = SYS_WRITE /\ terminal_write(null, text) /\ eax' = Len(text)
  \/ num = SYS_ALLOC /\ sys_alloc
  \/ num = SYS_FREE /\ Returns(0)
  \/ num \notin {SYS_EXIT, SYS_WRITE, SYS_ALLOC, SYS_FREE} /\ Returns(ERROR)

\* The result is put where the program finds eax.
syscall_int80_handler(num, null, text) ==
  syscall_handler(num, null, text) /\ UNCHANGED next_pid

\* larch.h: a program's call, with any number, its own or the kernel's.
syscall(num, null, text) ==
  /\ Len(written) + Len(text) <= MaxWritten /\ TERMINAL.y + Len(text) <= MaxRow
  /\ syscall_int80_handler(num, null, text)

sys_fork ==
  /\ next_pid <= MaxForks
  /\ Returns(next_pid) /\ next_pid' = next_pid + 1

sys_exec == Returns(ERROR) /\ UNCHANGED next_pid
sys_getpid == Returns(1) /\ UNCHANGED next_pid
sys_waitpid == Returns(0) /\ UNCHANGED next_pid

SyscallsNext ==
  \/ \E num \in Calls, null \in BOOLEAN, text \in Texts : syscall(num, null, text)
  \/ terminal_clear /\ UNCHANGED <<eax, next_pid>>
  \/ sys_fork \/ sys_exec \/ sys_getpid \/ sys_waitpid
=============================================================================
