---- MODULE Helpers ----
(* Severities and their names, the texts of errno and the system call mmap
   (log_severity.h, log_severity.c, strerror.c, direct_mmap.h). *)
EXTENDS Integers, Sequences

CONSTANTS SYS_NERR,  \* entries of the table of texts, 135
          Ulong      \* the values of an unsigned long, 2^32 where mmap2 is used

------------------------------------------------------------------------------
(* Severities. *)

NUM_SEVERITY == 9
CIC_LOG_TRACE == 0
CIC_LOG_EMERGENCY == 8
CIC_LOG_FATAL == 9

\* The list has an entry for each severity up to EMERGENCY, none if there is no
\* memory; cell i is what was written there.
log_severities(memory) ==
    IF memory THEN [i \in CIC_LOG_TRACE .. CIC_LOG_EMERGENCY |-> i] ELSE <<>>

\* Slip: the last severity has no name.
log_severity_nameShort(s) ==
    IF s \in CIC_LOG_TRACE .. CIC_LOG_EMERGENCY
    THEN <<"TRACE", "DEBUG", "INFO", "NOTICE", "WARNING", "ERROR", "ERROR", "ALERT",
           "EMERGENCY">>[s + 1]
    ELSE "UNKNOWN"

log_severity_name(s) ==
    IF s \in CIC_LOG_TRACE .. CIC_LOG_FATAL
    THEN <<"TRACE", "DEBUG", "INFO", "NOTICE", "WARNING", "ERROR", "ERROR", "ALERT",
           "EMERGENCY", "FATAL">>[s + 1]
    ELSE "UNKNOWN"

------------------------------------------------------------------------------
(* Texts of errno. known are the numbers the C library has a text for; a text is
   <<its kind, its number>>, the empty text <<>>. *)

\* The library fails for a number it does not know (POSIX), or says "Unknown error"
\* and no number (Windows); both become the empty text.
str_error_adaptor(errnum, known) == IF errnum \in known THEN <<"text", errnum>> ELSE <<>>

str_error_internal(errnum, known) ==
    LET str == str_error_adaptor(errnum, known)
    IN  IF str = <<>> THEN <<"Unknown error", errnum>> ELSE str

Overwritten == <<"anything", 0>>

\* Every call of str_error_internal formats into the same bytes, which belong to nobody
\* when it returns: each entry of the table points there. The caller finds what was
\* written there last, or whatever has been put on the stack since.
str_error(errnum, known) ==
    LET last == IF errnum >= 0 /\ errnum < SYS_NERR THEN SYS_NERR - 1 ELSE errnum
    IN  {str_error_internal(last, known), Overwritten}

------------------------------------------------------------------------------
(* mmap. The system calls give where in the file the mapping starts. *)

EINVAL == -1

\* External: mmap takes bytes, mmap2 takes pages.
SYS_mmap(offset, pagesize) == IF offset >= 0 /\ offset % pagesize = 0 THEN offset ELSE EINVAL
SYS_mmap2(pages, pagesize) == pages * pagesize

\* Slip: mmap2 is asked whatever the offset.
direct_mmapUnchecked(arch, offset, pagesize) ==
    IF arch = "mmap2" THEN SYS_mmap2((offset \div pagesize) % Ulong, pagesize)
    ELSE SYS_mmap(offset, pagesize)

direct_mmap(arch, offset, pagesize) ==
    IF arch = "mmap2"
    THEN IF offset < 0 \/ offset % pagesize # 0 THEN EINVAL
         ELSE SYS_mmap2((offset \div pagesize) % Ulong, pagesize)
    ELSE SYS_mmap(offset, pagesize)
====
