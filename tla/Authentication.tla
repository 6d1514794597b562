---- MODULE Authentication ----
(***************************************************************************)
(* The two things that src/auth.rs decides: which secrets the requests are *)
(* checked against (Credentials), and what the body of an upload that has  *)
(* been accepted is checked for (Upload).                                  *)
(*                                                                         *)
(* An accepted request carries its signing key away with it, never looks   *)
(* at the credentials again and changes none of them.  So the two are      *)
(* followed apart: the keys, or one upload from its acceptance on.         *)
(***************************************************************************)
EXTENDS Credentials, Upload

VARIABLE scene  \* "keys" or "upload", for good

\* A request that declares nothing about its body is over before it begins.
NoUpload == /\ sent = <<>> /\ header = "absent" /\ md5 = FALSE /\ wire = <<>>
            /\ received = <<>> /\ decoder = NewDecoder /\ stored = <<>>
            /\ answer = "InvalidArgument" /\ faulty = FALSE

\* Which keys there are does not matter to an upload.
Idle == file = None /\ root = CHOOSE x \in {RootOf(g) : g \in Given} : TRUE

AuthInit == \/ scene = "keys" /\ Init /\ NoUpload
            \/ scene = "upload" /\ Init /\ Idle /\ UploadInit

AuthNext == \/ scene = "keys" /\ Next /\ UNCHANGED <<scene, upload>>
            \/ scene = "upload" /\ UploadNext /\ UNCHANGED <<scene, vars>>

AuthSpec == AuthInit /\ [][AuthNext]_<<scene, vars, upload>>

----
\* The types of both.
AuthTypeOK == scene \in {"keys", "upload"} /\ TypeOK /\ UploadTypeOK
====
