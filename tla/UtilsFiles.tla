----------------------------- MODULE UtilsFiles -----------------------------
(***************************************************************************)
(* filemode of framework/wazuh/utils.py: a file's st_mode as the ten     *)
(* characters of "ls -l", through the table _filemode_table.  A mode is  *)
(* a natural number and the stat constants are their octal values.       *)
(***************************************************************************)
EXTENDS Naturals, Sequences, Bitwise

S_IFLNK == 40960   \* 0o120000
S_IFREG == 32768   \* 0o100000
S_IFBLK == 24576   \* 0o060000
S_IFDIR == 16384   \* 0o040000
S_IFCHR == 8192    \* 0o020000
S_IFIFO == 4096    \* 0o010000
S_ISUID == 2048
S_ISGID == 1024
S_ISVTX == 512
S_IRUSR == 256
S_IWUSR == 128
S_IXUSR == 64
S_IRGRP == 32
S_IWGRP == 16
S_IXGRP == 8
S_IROTH == 4
S_IWOTH == 2
S_IXOTH == 1

E(bit, char) == [bit |-> bit, char |-> char]

\* Fault variant of FilemodeTable: the owner's execute bit tested before
\* its combination with set-user-ID.
FilemodeTableXFirst ==
    << <<E(S_IFLNK, "l"), E(S_IFREG, "-"), E(S_IFBLK, "b"), E(S_IFDIR, "d"),
         E(S_IFCHR, "c"), E(S_IFIFO, "p")>>,
       <<E(S_IRUSR, "r")>>, <<E(S_IWUSR, "w")>>,
       <<E(S_IXUSR, "x"), E(S_IXUSR + S_ISUID, "s"), E(S_ISUID, "S")>>,
       <<E(S_IRGRP, "r")>>, <<E(S_IWGRP, "w")>>,
       <<E(S_IXGRP + S_ISGID, "s"), E(S_ISGID, "S"), E(S_IXGRP, "x")>>,
       <<E(S_IROTH, "r")>>, <<E(S_IWOTH, "w")>>,
       <<E(S_IXOTH + S_ISVTX, "t"), E(S_ISVTX, "T"), E(S_IXOTH, "x")>> >>

\* _filemode_table: one table per character, its (bit, char) pairs in the
\* order they are tried (stat.S_IXUSR | stat.S_ISUID is their sum, the two
\* bits being distinct).
FilemodeTable ==
    << <<E(S_IFLNK, "l"), E(S_IFREG, "-"), E(S_IFBLK, "b"), E(S_IFDIR, "d"),
         E(S_IFCHR, "c"), E(S_IFIFO, "p")>>,
       <<E(S_IRUSR, "r")>>, <<E(S_IWUSR, "w")>>,
       <<E(S_IXUSR + S_ISUID, "s"), E(S_ISUID, "S"), E(S_IXUSR, "x")>>,
       <<E(S_IRGRP, "r")>>, <<E(S_IWGRP, "w")>>,
       <<E(S_IXGRP + S_ISGID, "s"), E(S_ISGID, "S"), E(S_IXGRP, "x")>>,
       <<E(S_IROTH, "r")>>, <<E(S_IWOTH, "w")>>,
       <<E(S_IXOTH + S_ISVTX, "t"), E(S_ISVTX, "T"), E(S_IXOTH, "x")>> >>

\* filemode(mode): for each table, the char of the first pair whose bits
\* are all set in mode (mode & bit == bit, then break); "-" when the loop
\* ends without a break (for/else).
Filemode(mode) ==
    [i \in DOMAIN FilemodeTable |->
        LET t    == FilemodeTable[i]
            hits == {j \in DOMAIN t : (mode & t[j].bit) = t[j].bit}
        IN IF hits = {} THEN "-"
           ELSE t[CHOOSE j \in hits : \A k \in hits : j <= k].char]

=============================================================================
