------------------------------ MODULE Quarantine ------------------------------
(***************************************************************************)
(* The durable store of withheld responses (FileQuarantineStore in          *)
(* screening.py) and the operator's purge of it (cli.py).                   *)
(*                                                                          *)
(* A file is named after the digest of its content, so a digest is modelled *)
(* by the content it names, and what matters of a file is whether it is     *)
(* there and whole.  The steps of put, a temporary file and a rename, are   *)
(* separate: Enforcement takes them as steps of a call, and the purge and   *)
(* the process's death come between them.  The purge is a process of its    *)
(* own, which decides, asks the operator, and then deletes file by file.    *)
(***************************************************************************)
EXTENDS Naturals, FiniteSets, FiniteSetsExt

CONSTANTS
    Payloads,  \* contents of flagged responses, each standing for its digest
    Size,      \* the size of each
    Budget,    \* ATB_QUARANTINE_BUDGET_BYTES
    Events     \* mishaps to consider: "short", "beside"

ASSUME StoreAssumption == /\ IsFiniteSet(Payloads)
                          /\ Size \in [Payloads -> Nat]
                          /\ Budget \in Nat
                          /\ Events \subseteq {"short", "beside"}

VARIABLES blobs,  \* the file under each digest's name: see Blobs
          temps,  \* contents a temporary file exists for
          purge   \* the files the purge in progress has yet to delete, {} for no purge

store == <<blobs, temps, purge>>

\* rotten: of full size but not what its name says, or unreadable.
\* short: a write that stored less than it was given.
Blobs == {"absent", "good", "rotten", "short"}

Files == {"temp", "blob"} \X Payloads

-----------------------------------------------------------------------------
\* get: the content, verified against its digest, or nothing.
Get(p) == blobs[p] = "good"

\* total_bytes: temporary files do not count, corrupt blobs do.
Used == MapThenSumSet(LAMBDA p : Size[p], {p \in Payloads : blobs[p] \in {"good", "rotten"}})

Fits(p) == Used + Size[p] =< Budget

\* put: nothing to do for a good blob; a corrupt one is written anew.
AlreadyStored(p) == Get(p) /\ UNCHANGED store

\* Over budget, or the directory cannot be listed.
Reject(p) == ~Get(p) /\ UNCHANGED store

WriteTemp(p) == /\ ~Get(p)
                /\ Fits(p)
                /\ temps' = temps \cup {p}
                /\ UNCHANGED <<blobs, purge>>

\* One os.write, whose count is not looked at.
Written == {"good"} \cup (Events \cap {"short"})

\* os.replace gives the file its name, whatever stood under it.
Rename(p) == /\ p \in temps
             /\ temps' = temps \ {p}
             /\ \E content \in Written : blobs' = [blobs EXCEPT ![p] = content]
             /\ UNCHANGED purge

\* An OSError of open, write, fsync or replace; replace raises when a purge took
\* the temporary file.  Whatever is left of it is removed.
FailWrite(p) == /\ temps' = temps \ {p}
                /\ UNCHANGED <<blobs, purge>>

\* External: the file system loses or garbles what it held.
Damage(p) == /\ blobs[p] = "good"
             /\ blobs' = [blobs EXCEPT ![p] = "rotten"]
             /\ UNCHANGED <<temps, purge>>

-----------------------------------------------------------------------------
\* The files a purge may delete when `blocked' are the contents open
\* escalations are about: temporary files, and blobs no such row needs.
Eligible(blocked) == ({"temp"} \X temps)
                        \cup ({"blob"} \X {p \in Payloads \ blocked : blobs[p] # "absent"})

\* The purge reads the chain and the directory, and prompts; the operator's
\* answer shows in what it does next.
Scan(blocked) == /\ purge = {}
                 /\ purge' = Eligible(blocked)
                 /\ purge' # {}
                 /\ UNCHANGED <<blobs, temps>>

Exists(f) == IF f[1] = "temp" THEN f[2] \in temps ELSE blobs[f[2]] # "absent"

\* Files go in name order, the temporary ones (".tmp-") before the blobs.
Foremost(f) == f[1] = "blob" => \A g \in purge : g[1] = "blob"

Unlink(f) == /\ f \in purge
             /\ Foremost(f)
             /\ Exists(f)
             /\ purge' = purge \ {f}
             /\ IF f[1] = "temp"
                THEN temps' = temps \ {f[2]} /\ UNCHANGED blobs
                ELSE blobs' = [blobs EXCEPT ![f[2]] = "absent"] /\ UNCHANGED temps

\* The operator declines, a file to delete is gone (unlink raises), or the
\* command is stopped.
EndPurge == /\ purge # {}
            /\ purge' = {}
            /\ UNCHANGED <<blobs, temps>>

StoreInit == /\ blobs = [p \in Payloads |-> "absent"]
             /\ temps = {}
             /\ purge = {}

StoreTypeOK == /\ blobs \in [Payloads -> Blobs]
               /\ temps \subseteq Payloads
               /\ purge \subseteq Files
=============================================================================
