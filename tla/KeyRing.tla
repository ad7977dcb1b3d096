-------------------------------- MODULE KeyRing --------------------------------
(***************************************************************************)
(* The disk store of keyring.rs (`Test`): a folder with one file per key,  *)
(* shared by every ring of one chain id, so that keys may be added while   *)
(* the chain (chain/cosmos.rs) signs with one, while the folder is listed, *)
(* and while others are added.  add_key truncates the file before it       *)
(* writes the key; send_tx reads the configured key anew each time it      *)
(* needs it; keys reads one file after the other.                          *)
(*                                                                         *)
(* A key name is the sequence of its parts between dots.  The keys are     *)
(* numbered: the n-th add_key stores the key n.                            *)
(***************************************************************************)
EXTENDS Naturals, Sequences, FiniteSets, SequencesExt

CONSTANTS
    Names,      \* the names of keys
    KeyName,    \* config.key_name
    MaxAdds,    \* bound: calls of add_key
    MaxOpen     \* bound: those under way at a time

ASSUME KeyAssumption ==
    /\ Names \subseteq Seq(STRING) \ {<<>>} /\ KeyName \in Names
    /\ MaxAdds \in Nat /\ MaxOpen \in Nat

VARIABLES
    files,      \* the folder: file stem |-> the key in it
    adding,     \* the calls of add_key whose file is open
    sending,    \* where send_tx is, or how the last one ended
    reads,      \* the keys this send_tx has read
    listing,    \* where keys() is, or how the last one ended
    due,        \* the files there were when it began
    listed,     \* the pairs collected
    (***********************************************************************)
    (* History, for the properties.                                        *)
    (***********************************************************************)
    added,      \* the names add_key was called with
    done,       \* the calls that were answered by Ok
    late,       \* the calls that began while another had their file open
    sendSince,  \* how many calls there were when send_tx began
    sendMixed,  \* and whether two of them were then at work on its key
    listSince   \* how many there were when keys() began

adds   == <<adding, added, done, late>>
sender == <<sending, reads, sendSince, sendMixed>>
lister == <<listing, due, listed, listSince>>
vars   == <<files, adds, sender, lister>>

\* The content of a file that is not, or not completely, written; and that of
\* one in which the writes of two calls add up to a key that neither has.
Torn  == 0
Mixed == MaxAdds + 1

\* set_extension("json") replaces what follows the last dot.
Stem(name) == IF Len(name) = 1 THEN name ELSE Front(name)

\* A folder, or a list, in which a file has a content.
Put(folder, file, content) ==
    [f \in DOMAIN folder \cup {file} |-> IF f = file THEN content ELSE folder[f]]

\* get_key: Torn stands for any Err.
GetKey(name) == IF Stem(name) \in DOMAIN files THEN files[Stem(name)] ELSE Torn

Init ==
    /\ files = <<>> /\ adding = {} /\ added = <<>> /\ done = {} /\ late = {}
    /\ sending = "no" /\ reads = <<>> /\ sendSince = 0 /\ sendMixed = FALSE
    /\ listing = "no" /\ due = {} /\ listed = <<>> /\ listSince = 0

--------------------------------------------------------------------------------
(***************************************************************************)
(* add_key.  An error of File::create changes nothing and is left out.     *)
(***************************************************************************)
SameFile(i, name) == Stem(added[i]) = Stem(name)

CreateFile == \E name \in Names :
    /\ Cardinality(adding) < MaxOpen /\ Len(added) < MaxAdds
    /\ added' = Append(added, name)
    /\ adding' = adding \cup {Len(added')}
    /\ late' = late \cup IF \E i \in adding : SameFile(i, name) THEN {Len(added')} ELSE {}
    /\ files' = Put(files, Stem(name), Torn)
    /\ UNCHANGED <<done, sender, lister>>

\* Another call began to write to the file of the i-th while that has it open.
TouchedFrom(n, name) == \E i \in n..Len(added) : SameFile(i, name)
Shared(i)            == i \in late \/ TouchedFrom(i + 1, added[i])

\* Each file handle has a place of its own, so that what two calls write to a
\* file ends up on top of each other.
Written(i) == IF Shared(i) THEN {i, Torn, Mixed} ELSE {i}

\* Some, but not all of it is written.
WriteSome(i) ==
    /\ i \in adding /\ Shared(i)
    /\ files' = [files EXCEPT ![Stem(added[i])] = Torn]
    /\ UNCHANGED <<adds, sender, lister>>

WriteFile(i) == \E content \in Written(i) :
    /\ i \in adding /\ adding' = adding \ {i}
    /\ files' = [files EXCEPT ![Stem(added[i])] = content]
    /\ done' = done \cup {i}
    /\ UNCHANGED <<added, late, sender, lister>>

\* Deviation: the error of the writer is ignored.
WriteIgnoresError(i) ==
    /\ i \in adding /\ adding' = adding \ {i}
    /\ done' = done \cup {i}
    /\ UNCHANGED <<files, added, late, sender, lister>>

\* The serializer fails, or the process is killed, between the two.
WriteCutShort(i) ==
    /\ i \in adding /\ adding' = adding \ {i}
    /\ UNCHANGED <<files, added, done, late, sender, lister>>

--------------------------------------------------------------------------------
(***************************************************************************)
(* send_tx, by what it asks of the key ring: the address to query the      *)
(* account of, and the balance of; the public key of the signer; and the   *)
(* key to sign with, for the simulation and for the transaction.  (The     *)
(* other ways it fails are in CosmosTx.)                                   *)
(***************************************************************************)
KeyUses == <<"account", "balance", "signer", "simulate", "sign">>

SendBegins ==
    /\ sendSince' = Len(added)
    /\ sendMixed' = \E i \in adding : SameFile(i, KeyName) /\ Shared(i)

\* Deviation: the cached account is kept.
BeginSendKeepingAccount ==
    /\ sending \notin {"yes", "panicked"} /\ sending' = "yes"
    /\ reads' = (IF Len(reads) >= 2 THEN SubSeq(reads, 1, 2) ELSE <<>>)
    /\ SendBegins
    /\ UNCHANGED <<files, adds, lister>>

BeginSend ==
    /\ sending \notin {"yes", "panicked"} /\ sending' = "yes"
    /\ reads' = <<>> /\ SendBegins
    /\ UNCHANGED <<files, adds, lister>>

\* Deviation: an unreadable key is as good as any.
ReadAnything ==
    /\ sending = "yes"
    /\ reads' = Append(reads, GetKey(KeyName))
    /\ sending' = (IF Len(reads') = Len(KeyUses) THEN "sent" ELSE "yes")
    /\ UNCHANGED <<files, adds, sendSince, sendMixed, lister>>

\* Only the balance is expected to be there.
ReadKey ==
    /\ sending = "yes"
    /\ IF GetKey(KeyName) = Torn
       THEN /\ sending' = IF KeyUses[Len(reads) + 1] = "balance" THEN "panicked" ELSE "failed"
            /\ UNCHANGED reads
       ELSE /\ reads' = Append(reads, GetKey(KeyName))
            /\ sending' = IF Len(reads') = Len(KeyUses) THEN "sent" ELSE "yes"
    /\ UNCHANGED <<files, adds, sendSince, sendMixed, lister>>

--------------------------------------------------------------------------------
(***************************************************************************)
(* keys.  read_dir is read along the way: a file created meanwhile may or  *)
(* may not be seen.  The stem of a file is taken for the name of a key     *)
(* again.  The first error is the answer.                                  *)
(***************************************************************************)
BeginList ==
    /\ listing # "yes" /\ listing' = "yes"
    /\ due' = DOMAIN files /\ listed' = <<>> /\ listSince' = Len(added)
    /\ UNCHANGED <<files, adds, sender>>

\* Deviation: what cannot be read is left out of the list.
ListSkipping == \E f \in DOMAIN files \ DOMAIN listed :
    /\ listing = "yes"
    /\ listed' = (IF GetKey(f) = Torn THEN listed ELSE Put(listed, f, GetKey(f)))
    /\ due' = due \ {f}
    /\ UNCHANGED <<files, adds, sender, listing, listSince>>

ListFile == \E f \in DOMAIN files \ DOMAIN listed :
    /\ listing = "yes"
    /\ IF GetKey(f) = Torn
       THEN listing' = "failed" /\ UNCHANGED listed
       ELSE listed' = Put(listed, f, GetKey(f)) /\ UNCHANGED listing
    /\ UNCHANGED <<files, adds, sender, due, listSince>>

EndList ==
    /\ listing = "yes" /\ due \subseteq DOMAIN listed
    /\ listing' = "ok"
    /\ UNCHANGED <<files, adds, sender, due, listed, listSince>>

AddStep  == CreateFile \/ \E i \in adding : WriteSome(i) \/ WriteFile(i) \/ WriteCutShort(i)
SendStep == BeginSend \/ ReadKey
ListStep == BeginList \/ ListFile \/ EndList

Next == AddStep \/ SendStep \/ ListStep

Spec == Init /\ [][Next]_vars
--------------------------------------------------------------------------------
(***************************************************************************)
(* Properties                                                              *)
(***************************************************************************)
Keys == 1..MaxAdds \cup {Mixed}
Stems == {Stem(name) : name \in Names}

\* The variables keep their types; whatever is used as a key is one.
TypeOK ==
    /\ DOMAIN files \subseteq Stems /\ \A f \in DOMAIN files : files[f] \in Keys \cup {Torn}
    /\ added \in Seq(Names) /\ adding \cup done \cup late \subseteq 1..Len(added)
    /\ sending \in {"no", "yes", "sent", "failed", "panicked"} /\ reads \in Seq(Keys)
    /\ listing \in {"no", "yes", "ok", "failed"} /\ due \subseteq DOMAIN files
    /\ DOMAIN listed \subseteq Stems /\ \A f \in DOMAIN listed : listed[f] \in Keys
    /\ {sendSince, listSince} \subseteq 0..Len(added)

\* A key whose add_key was answered by Ok is what get_key answers, whatever is
\* cut short, until add_key is called with a name that has the same file; but
\* a call that began while another one was writing to its file may leave
\* nothing that can be read, or a key nobody added, and be answered by Ok.
AcknowledgedKeysKept ==
    \A i \in done : ~Shared(i) => GetKey(added[i]) = i

\* A transaction names, is numbered for and is signed by one key, and the
\* balance does not panic, unless a call of add_key opened the key's file
\* during this very send_tx, or two were writing to it when it began: a key
\* replaced, lost or mixed up between two send_tx does no harm.  (Otherwise it
\* may: the five reads are independent.)
OneKeyUnlessTouched ==
    \/ sending = "sent" /\ \E i, j \in DOMAIN reads : reads[i] # reads[j]
    \/ sending = "panicked"
    => TouchedFrom(sendSince + 1, KeyName) \/ sendMixed

\* An Ok of keys shows every key added before, under its own name, unless
\* another call wrote to its file - but for files whose stem has a dot: they are
\* shown with the key of another file.
ListedKeysRight ==
    listing = "ok" =>
        \A i \in done :
            LET f == Stem(added[i]) IN
            i <= listSince /\ Stem(f) = f /\ ~Shared(i)
              => f \in DOMAIN listed /\ listed[f] = i
================================================================================
