------------------------------ MODULE Userland ------------------------------
(***************************************************************************)
(* What programs would use.  exec_user_program of                          *)
(* kernel/userspace/elf_loader.c composes the loader with the system       *)
(* calls: it hands the entry point to int 0x80 as the number of a call.    *)
(* The other parts share no state with it or with each other, so a         *)
(* behaviour exercises one.                                                *)
(***************************************************************************)
EXTENDS Elf, Syscalls, Vfs, Library, Permissions

VARIABLE part

HALF_PAGE == 2048         \* Elf's unit of addresses

\* A null entry point counts as a failure.  Otherwise the other registers hold
\* anything when the interrupt is taken.
exec_user_program ==
  /\ pc \in {"done", "failed"}
  /\ pc' = "returned"
  /\ IF pc = "failed" \/ elf.entry = 0
       THEN eax' = 0 /\ UNCHANGED <<terminal_vars, next_pid>>
       ELSE \E null \in BOOLEAN, text \in Texts :
              syscall_int80_handler(HALF_PAGE * elf.entry, null, text)
  /\ UNCHANGED <<elf, i, page, table, mem, free>>

Init ==
  /\ part \in {"exec", "calls", "vfs", "library", "permissions"}
  /\ ElfInit /\ SyscallsInit /\ VfsInit /\ LibraryInit /\ PermissionsInit

Next ==
  /\ \/ /\ part = "exec"
        /\ exec_user_program \/ (ElfNext /\ UNCHANGED syscall_vars)
        /\ UNCHANGED <<vfs_vars, library_vars, permission_vars>>
     \/ /\ part = "calls" /\ SyscallsNext
        /\ UNCHANGED <<elf_vars, vfs_vars, library_vars, permission_vars>>
     \/ /\ part = "vfs" /\ VfsNext
        /\ UNCHANGED <<elf_vars, syscall_vars, library_vars, permission_vars>>
     \/ /\ part = "library" /\ LibraryNext
        /\ UNCHANGED <<elf_vars, syscall_vars, vfs_vars, permission_vars>>
     \/ /\ part = "permissions" /\ PermissionsNext
        /\ UNCHANGED <<elf_vars, syscall_vars, vfs_vars, library_vars>>
  /\ UNCHANGED part

Spec == Init /\ [][Next]_<<part, elf_vars, syscall_vars, vfs_vars, library_vars, permission_vars>>
-----------------------------------------------------------------------------
(* When exec_user_program returns something other than 0, every PT_LOAD      *)
(* segment of the program is in memory, its file bytes and then zeros,       *)
(* except for a segment that has a page in common with a later one: mapping  *)
(* that page again replaces the frame.  What it returns then is the error of *)
(* an unknown system call, and nothing has been written to the terminal: no  *)
(* entry point of a program is the number of a call.                         *)
ExecLoadsWhole ==
  pc = "returned" /\ eax # 0 =>
    /\ \A n \in DOMAIN elf.phdrs :
         Load(n) /\ (\A m \in n + 1 .. Len(elf.phdrs) : Load(m) => PagesOf(n) \intersect PagesOf(m) = {})
           => Loaded(n)
    /\ eax = ERROR /\ written = Letters(Banner)
=============================================================================
