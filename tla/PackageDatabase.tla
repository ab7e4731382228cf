-------------------------- MODULE PackageDatabase --------------------------
(***************************************************************************)
(* dpkg's database as the programs of the appliance see it through the     *)
(* commands they run.  One command at a time holds dpkg's lock; it treats  *)
(* one package after another, and a command that finds the lock taken      *)
(* fails at once.  apt-get upgrade unpacks and then configures; dpkg       *)
(* --unpack and dpkg --configure do one of the two.                        *)
(***************************************************************************)
EXTENDS Naturals, FiniteSets

CONSTANTS
  Package,   \* the packages either channel may change
  None,      \* no process
  MaxFaults  \* bound: commands that fail

VARIABLES
  version,   \* the version of each package whose files are on the disk
  half,      \* the packages that are unpacked and not configured
  dpkg,      \* the command that holds the lock
  faults     \* bound: commands that have failed

dpkgVars == <<version, half, dpkg, faults>>

NoCommand == [by |-> None, unpack |-> {}, configure |-> {}]

DatabaseInit ==
  /\ version = [p \in Package |-> 0]
  /\ half = {}
  /\ dpkg = NoCommand
  /\ faults = 0

Locked == dpkg # NoCommand

Launch(who, unpack, configure) ==
  /\ ~Locked
  /\ dpkg' = [by |-> who, unpack |-> unpack, configure |-> configure]
  /\ UNCHANGED <<version, half, faults>>

UnpackOne ==
  /\ \E pv \in dpkg.unpack :
       /\ version' = [version EXCEPT ![pv[1]] = pv[2]]
       /\ half' = half \cup {pv[1]}
       /\ dpkg' = [dpkg EXCEPT !.unpack = @ \ {pv}]
  /\ UNCHANGED faults

ConfigureOne ==
  /\ dpkg.unpack = {}
  /\ \E p \in dpkg.configure :
       /\ half' = half \ {p}
       /\ dpkg' = [dpkg EXCEPT !.configure = @ \ {p}]
  /\ UNCHANGED <<version, faults>>

DatabaseStep == UnpackOne \/ ConfigureOne

\* The command has treated every package.
Succeeds(who) ==
  /\ dpkg.by = who
  /\ dpkg.unpack = {} /\ dpkg.configure = {}
  /\ dpkg' = NoCommand
  /\ UNCHANGED <<version, half, faults>>

\* A maintainer script fails, the disk is full, the timeout of the caller is
\* over: what has been done stays.
Fails(who) ==
  /\ dpkg.by = who
  /\ faults < MaxFaults
  /\ faults' = faults + 1
  /\ dpkg' = NoCommand
  /\ UNCHANGED <<version, half>>
=============================================================================
