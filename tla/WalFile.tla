-------------------------------- MODULE WalFile --------------------------------
(***************************************************************************)
(* The file wal/current.wal as a sequence of slots, one line each, written *)
(* through descriptors that append or stand at a position: what a write    *)
(* does to the file and what read_wal (src/agent/storage.rs) gets out of   *)
(* it.  Offsets matter where two writers truncate the file under each      *)
(* other.                                                                  *)
(***************************************************************************)
EXTENDS Naturals, Sequences

CONSTANT Hole      \* a slot of zero bytes, which a write past the end leaves

\* The file after out was written through f: at the end in append mode, else
\* at the position of f, over what is there, or past the end.
Written(file, f, out) ==
    LET start == IF f.append THEN Len(file) ELSE f.pos
        end   == start + Len(out)
        size  == IF out = <<>> \/ end < Len(file) THEN Len(file) ELSE end
    IN  [k \in 1..size |->
            IF k \in (start + 1)..end THEN out[k - start]
            ELSE IF k <= Len(file) THEN file[k] ELSE Hole]

\* Faulty variant: every write goes to the beginning of the file.
Rewound(f, out) == f

\* The descriptor after that write.
Advanced(f, out) == [f EXCEPT !.pos = @ + Len(out)]

\* What read_wal parses: a line behind zero bytes is skipped with them.
Recovered(file) ==
    {file[k] : k \in {j \in 1..Len(file) :
                        file[j] # Hole /\ (j > 1 => file[j - 1] # Hole)}}
===============================================================================
