----------------------------- MODULE BucketTable -----------------------------
(***************************************************************************)
(* The credentials of one bucket in the configuration database, shared by  *)
(* the server and by commands: internal/config/repo.go and encrypt.go,     *)
(* cmd/bucket.go and the bucket requests of internal/api/handlers.go.      *)
(* Some processes have the master key in their environment and some do     *)
(* not; those that have it have the same one.                              *)
(*                                                                         *)
(* A credential is what was typed in or nothing ("blank"), and the number  *)
(* of times it is encrypted.                                               *)
(***************************************************************************)
EXTENDS Naturals

CONSTANTS
    Editors,     \* commands that change the bucket
    NoBucket,    \* the row has been deleted
    Unread       \* an editor has not read the row

Texts == {"secret", "blank"}

VARIABLES
    bucketRow,   \* the row's credential, or NoBucket
    blanked,     \* a request of the API has written the row
    editing      \* per editor: the credential it read, as it sees it

tableVars == <<bucketRow, blanked, editing>>

Plain(text) == [text |-> text, layers |-> 0]

(* Encrypt encrypts whatever it is given, an empty string too.  What       *)
(* Decrypt refuses, decryptCreds leaves as it is.                          *)

Encrypted(c, keyed) == IF keyed THEN [c EXCEPT !.layers = @ + 1] ELSE c

Decrypted(c, keyed) == IF keyed /\ c.layers > 0
                       THEN [c EXCEPT !.layers = @ - 1] ELSE c

(* A command has inserted the row; a POST of the API leaves what PutBucket *)
(* leaves.  The id is new: a row once deleted never comes back.            *)

TableInit ==
    /\ \E keyed \in BOOLEAN : bucketRow = Encrypted(Plain("secret"), keyed)
    /\ blanked = FALSE
    /\ editing = [d \in Editors |-> Unread]

-----------------------------------------------------------------------------
(* Commands.  bucket update is two database calls: it reads the row and    *)
(* writes every column of it, with new credentials or those it read.       *)

ReadBucketRaw(d) ==     \* seeded: GetBucket without decryptCreds
    /\ editing[d] = Unread /\ bucketRow # NoBucket
    /\ \E keyed \in BOOLEAN :
         editing' = [editing EXCEPT ![d] = [keyed |-> keyed, credential |-> bucketRow]]
    /\ UNCHANGED <<bucketRow, blanked>>

ReadBucket(d) ==
    /\ editing[d] = Unread /\ bucketRow # NoBucket
    /\ \E keyed \in BOOLEAN :
         editing' = [editing EXCEPT ![d] =
                        [keyed |-> keyed, credential |-> Decrypted(bucketRow, keyed)]]
    /\ UNCHANGED <<bucketRow, blanked>>

WriteBucket(d) ==
    /\ editing[d] # Unread
    /\ IF bucketRow = NoBucket THEN UNCHANGED bucketRow     \* "not found"
       ELSE \E c \in {editing[d].credential, Plain("secret")} :
              bucketRow' = Encrypted(c, editing[d].keyed)
    /\ editing' = [editing EXCEPT ![d] = Unread]
    /\ UNCHANGED blanked

DeleteBucket ==     \* also a request; nothing asks whether a pair refers to it
    /\ bucketRow # NoBucket
    /\ bucketRow' = NoBucket
    /\ UNCHANGED <<blanked, editing>>

(* PUT of the API.  AccessKey and SecretKey are marked json:"-": whatever  *)
(* the body says, both are empty in the row that is written.               *)

PutBucket ==
    /\ bucketRow # NoBucket
    /\ \E keyed \in BOOLEAN : bucketRow' = Encrypted(Plain("blank"), keyed)
    /\ blanked' = TRUE
    /\ UNCHANGED editing

TableNext == \/ \E d \in Editors : ReadBucket(d) \/ WriteBucket(d)
             \/ DeleteBucket \/ PutBucket

-----------------------------------------------------------------------------
(* Properties.                                                             *)

Credential == [text : Texts, layers : 0 .. 1]

(* A row, and what an editor holds, is encrypted once at most, and an      *)
(* editor with the key holds plain text.                                   *)

TableTypeOK ==
    /\ bucketRow \in Credential \cup {NoBucket}
    /\ blanked \in BOOLEAN
    /\ editing \in [Editors -> [keyed : BOOLEAN, credential : Credential] \cup {Unread}]
    /\ \A d \in Editors : editing[d] # Unread /\ editing[d].keyed
                            => editing[d].credential.layers = 0

(* Whatever processes with and without the master key have updated the     *)
(* row, from whatever earlier copy of it, a process that has the key reads *)
(* what was typed in - unless a request of the API wrote the row: that     *)
(* loses the credentials.                                                  *)

CredentialsStayReadable ==
    bucketRow # NoBucket =>
        LET c == Decrypted(bucketRow, TRUE)
        IN  c.layers = 0 /\ (c.text = "blank" => blanked)

=============================================================================
