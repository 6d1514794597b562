---- MODULE Reads ----
(***************************************************************************)
(* The requests of src/s3.rs that only read, each among writers: a client  *)
(* that lists a bucket page by page (Listing) or one that gets an object   *)
(* (Retrieval).  They hold no lock and change nothing, so readers do not   *)
(* affect each other: there is one of them at a time.                      *)
(***************************************************************************)
EXTENDS Listing

CONSTANTS Content, Size, Time, Get, Largest, Bad, None

VARIABLES current, get, stage, part, answer, overwritten

R == INSTANCE Retrieval

ASSUME KeyAssumption == KeysAreStrings
ASSUME QueryAssumption == QueriesAreWellFormed /\ Query # {}
ASSUME ChangesAssumption == Changes \in Nat
ASSUME SizeAssumption == Size \in [Content -> Nat]
ASSUME TimeAssumption == Time \subseteq Nat
ASSUME LargestAssumption == Largest \in Nat
ASSUME GetAssumption == R!GetsAreWellFormed /\ Get # {}
ASSUME NoneAssumption == None \notin R!Response

retrieval == <<current, get, stage, part, answer, overwritten>>

\* No listing, and no get: the request has ended before it began.
NoListing == /\ present = {} /\ ask = CHOOSE q \in Query : TRUE
             /\ phase = "done" /\ after = <<>> /\ always = {} /\ ever = {}
             /\ received = <<>> /\ stable = {} /\ changed = 0 /\ pages = 0

NoGet == /\ current = None /\ get = CHOOSE g \in Get : TRUE
         /\ stage = "done" /\ part = R!NoPart("ignored")
         /\ answer = R!NoBody(404) /\ overwritten = FALSE

ReadsInit == \/ Init /\ NoGet
             \/ R!Init /\ NoListing

ReadsNext == \/ Next /\ UNCHANGED retrieval
             \/ R!Next /\ UNCHANGED vars

ReadsSpec == ReadsInit /\ [][ReadsNext]_<<vars, retrieval>>

----
\* The types of both.
ReadsTypeOK == TypeOK /\ R!TypeOK

\* Stated in Retrieval: conditional headers hold for the version served.
ServedMeetsConditions == R!ServedMeetsConditions

\* Stated in Retrieval: a part is the part asked for.
PartIsAsAsked == R!PartIsAsAsked

\* Stated in Retrieval: no response has more bytes than it announces.
AnnouncedLengthHolds == R!AnnouncedLengthHolds
====
