----------------------------- MODULE KeyRingProofs -----------------------------
(***************************************************************************)
(* Theorems about the folder of the keys, for any number of names, of adds *)
(* and of those under way at a time.                                       *)
(***************************************************************************)
EXTENDS KeyRing, SequenceFacts

USE KeyAssumption

--------------------------------------------------------------------------------
(***************************************************************************)
(* The inductive invariant.                                                *)
(***************************************************************************)

\* Calls are numbered up to the bound, and no call is both open and answered.
Numbered == Len(added) <= MaxAdds /\ \A i \in adding : i \notin done

\* The file of a call exists; a call that began while an open one had its file
\* is late.
Opened ==
    /\ \A i \in 1..Len(added) : Stem(added[i]) \in DOMAIN files
    /\ \A j \in adding : \A i \in 1..Len(added) :
         j < i /\ Stem(added[j]) = Stem(added[i]) => i \in late

\* A file that no other call wrote to has its key once, and only if, its call
\* was answered by Ok.
Contents ==
    \A i \in 1..Len(added) :
        ~Shared(i) => files[Stem(added[i])] = IF i \in done THEN i ELSE Torn

\* What a send_tx has read is in the file, and nobody is at work on it.
Excused == TouchedFrom(sendSince + 1, KeyName) \/ sendMixed
Signing ==
    ~Excused =>
        /\ sending # "panicked"
        /\ sending \in {"yes", "sent"} => \A i \in 1..Len(reads) : reads[i] = reads[1]
        /\ sending = "yes" =>
             /\ \A j \in adding : SameFile(j, KeyName) => ~Shared(j)
             /\ Len(reads) > 0 =>
                  /\ \A j \in adding : ~SameFile(j, KeyName)
                  /\ GetKey(KeyName) = reads[1] /\ reads[1] # Torn

\* A listing has to show the file of every call that began before it, and what
\* it shows of a call that no other wrote over is its key.
Listing ==
    /\ listing = "yes" => \A i \in 1..listSince : Stem(added[i]) \in due
    /\ listing = "ok" => \A i \in 1..listSince : Stem(added[i]) \in DOMAIN listed
    /\ listing \in {"yes", "ok"} =>
         \A i \in 1..listSince :
             LET f == Stem(added[i]) IN
             Stem(f) = f /\ ~Shared(i) /\ f \in DOMAIN listed => listed[f] = i

IInv == TypeOK /\ Numbered /\ Opened /\ Contents /\ Signing /\ Listing

--------------------------------------------------------------------------------
(***************************************************************************)
(* Who shares a file with whom.                                            *)
(***************************************************************************)

\* Any other call with the file of an open one shares it.
LEMMA OthersShare ==
    ASSUME Opened, NEW j \in adding, adding \subseteq 1..Len(added), Len(added) \in Nat,
           NEW i \in 1..Len(added), i # j, Stem(added[i]) = Stem(added[j])
    PROVE  Shared(i)
<1>1. CASE j < i
  BY <1>1 DEF Opened, Shared
<1>2. CASE i < j
  <2>1. j \in (i + 1)..Len(added)
    BY <1>2
  <2> QED BY <2>1 DEF Shared, TouchedFrom, SameFile
<1> QED BY <1>1, <1>2

\* As long as no call begins, the same calls share a file.
LEMMA SameShares ==
    ASSUME UNCHANGED <<added, late>>
    PROVE  /\ \A i : Shared(i)' <=> Shared(i)
           /\ \A n, name : TouchedFrom(n, name)' <=> TouchedFrom(n, name)
           /\ \A i, name : SameFile(i, name)' <=> SameFile(i, name)
  BY DEF Shared, TouchedFrom, SameFile

\* One call of add_key begins.
Begins(name) ==
    /\ added' = Append(added, name) /\ adding' = adding \cup {Len(added) + 1}
    /\ late' = late \cup IF \E i \in adding : SameFile(i, name) THEN {Len(added) + 1} ELSE {}
    /\ files' = Put(files, Stem(name), Torn)
    /\ Len(added) < MaxAdds
    /\ UNCHANGED <<done, sending, reads, sendSince, sendMixed, listing, due, listed, listSince>>

LEMMA CreateBegins ==
    ASSUME TypeOK, CreateFile
    PROVE  \E name \in Names : Begins(name)
<1>1. PICK name \in Names :
        /\ Len(added) < MaxAdds /\ added' = Append(added, name)
        /\ adding' = adding \cup {Len(added')}
        /\ late' = late \cup IF \E i \in adding : SameFile(i, name) THEN {Len(added')} ELSE {}
        /\ files' = Put(files, Stem(name), Torn)
        /\ UNCHANGED <<done, sender, lister>>
  BY DEF CreateFile
<1>2. Len(added') = Len(added) + 1
  BY <1>1, AppendElements DEF TypeOK
<1> QED BY <1>1, <1>2 DEF Begins, sender, lister

\* Its file exists and is torn; the others are what they were.
LEMMA BegunFiles ==
    ASSUME NEW name \in Names, Begins(name)
    PROVE  /\ DOMAIN files' = DOMAIN files \cup {Stem(name)}
           /\ files'[Stem(name)] = Torn
           /\ \A f \in DOMAIN files : f # Stem(name) => files'[f] = files[f]
<1>1. files' = Put(files, Stem(name), Torn)
  BY DEF Begins
<1> QED BY <1>1 DEF Put

\* It has the next number; sharing only grows.
LEMMA BegunNumbers ==
    ASSUME TypeOK, NEW name \in Names, Begins(name)
    PROVE  /\ added' \in Seq(Names) /\ Len(added) \in Nat /\ Len(added') = Len(added) + 1
           /\ \A i \in 1..Len(added) : added'[i] = added[i]
           /\ added'[Len(added) + 1] = name
           /\ \A i \in 1..Len(added) :
                Shared(i)' <=> Shared(i) \/ Stem(added[i]) = Stem(name)
           /\ \A n \in 1..(Len(added) + 1) :
                ~TouchedFrom(n, KeyName)' => ~TouchedFrom(n, KeyName) /\ Stem(name) # Stem(KeyName)
<1>1. /\ added' \in Seq(Names) /\ Len(added) \in Nat /\ Len(added') = Len(added) + 1
      /\ \A i \in 1..Len(added) : added'[i] = added[i]
      /\ added'[Len(added) + 1] = name
  BY AppendElements DEF Begins, TypeOK
<1>2. \A i \in 1..Len(added) : i \in 1..Len(added')
  BY <1>1
<1>3. ASSUME NEW n \in 1..(Len(added) + 1), NEW x
      PROVE  TouchedFrom(n, x)' <=> TouchedFrom(n, x) \/ Stem(name) = Stem(x)
  <2>1. \A i \in n..Len(added) : i \in n..Len(added') /\ added'[i] = added[i]
    <3>1. \A i \in n..Len(added) : i \in n..(Len(added) + 1) /\ i \in 1..Len(added)
      BY <1>1
    <3> QED BY <1>1, <3>1
  <2>2. Len(added) + 1 \in n..Len(added')
    BY <1>1
  <2>3. TouchedFrom(n, x)' <=> \E i \in n..Len(added') : Stem(added'[i]) = Stem(x)
    BY DEF TouchedFrom, SameFile
  <2>4. TouchedFrom(n, x) <=> \E i \in n..Len(added) : Stem(added[i]) = Stem(x)
    BY DEF TouchedFrom, SameFile
  <2>5. TouchedFrom(n, x) => TouchedFrom(n, x)'
    BY <2>1, <2>3, <2>4
  <2>6. Stem(name) = Stem(x) => TouchedFrom(n, x)'
    BY <1>1, <2>2, <2>3
  <2>7. \A i \in n..Len(added') : i \in n..Len(added) \/ i = Len(added) + 1
    BY <1>1
  <2>8. TouchedFrom(n, x)' => TouchedFrom(n, x) \/ Stem(name) = Stem(x)
    BY <1>1, <2>1, <2>3, <2>4, <2>7
  <2> QED BY <2>5, <2>6, <2>8
<1>4. ASSUME NEW i \in 1..Len(added)
      PROVE  Shared(i)' <=> Shared(i) \/ Stem(added[i]) = Stem(name)
  <2>1. i + 1 \in 1..(Len(added) + 1)
    BY <1>1
  <2>2. Shared(i)' <=> (i \in late' \/ TouchedFrom(i + 1, added[i])')
    BY <1>1 DEF Shared, TouchedFrom, SameFile
  <2>3. i \in late' <=> i \in late
    BY <1>1 DEF Begins
  <2>4. TouchedFrom(i + 1, added[i])'
          <=> TouchedFrom(i + 1, added[i]) \/ Stem(name) = Stem(added[i])
    <3>1. PICK x : x = added[i]
      OBVIOUS
    <3>2. TouchedFrom(i + 1, added[i])' <=> TouchedFrom(i + 1, x)'
      BY <1>1, <3>1 DEF TouchedFrom, SameFile
    <3> QED BY <1>3, <2>1, <3>1, <3>2
  <2> QED BY <2>2, <2>3, <2>4 DEF Shared
<1>5. \A n \in 1..(Len(added) + 1) :
        ~TouchedFrom(n, KeyName)' => ~TouchedFrom(n, KeyName) /\ Stem(name) # Stem(KeyName)
  BY <1>3
<1> QED BY <1>1, <1>4, <1>5

LEMMA NumberTypes ==
    ASSUME TypeOK
    PROVE  /\ added \in Seq(Names) /\ Len(added) \in Nat
           /\ adding \subseteq 1..Len(added) /\ done \subseteq 1..Len(added)
           /\ sendSince \in 0..Len(added) /\ listSince \in 0..Len(added)
           /\ \A i \in 1..Len(added) : added[i] \in Names /\ i \in Nat /\ i # Torn
  BY LenProperties, ElementOfSeq DEF TypeOK, Torn

LEMMA InitIInv == Init => IInv
  <1> SUFFICES ASSUME Init PROVE IInv
    OBVIOUS
  <1>1. /\ Len(<<>>) = 0 /\ DOMAIN <<>> = {} /\ \A S : <<>> \in Seq(S)
    <2>1. Len(<<>>) = 0 /\ \A S : <<>> \in Seq(S)
      BY EmptySeq
    <2>2. DOMAIN <<>> = 1..Len(<<>>)
      BY <2>1, LenProperties
    <2> QED BY <2>1, <2>2
  <1>2. TypeOK
    BY <1>1 DEF Init, TypeOK
  <1>3. Numbered /\ Opened /\ Contents
    BY <1>1 DEF Init, Numbered, Opened, Contents
  <1>4. Signing /\ Listing
    BY <1>1 DEF Init, Signing, Listing
  <1> QED BY <1>2, <1>3, <1>4 DEF IInv

--------------------------------------------------------------------------------
(***************************************************************************)
(* add_key.                                                                *)
(***************************************************************************)

\* A call that begins.
LEMMA CreateIInv == IInv /\ CreateFile => IInv'
  <1> SUFFICES ASSUME IInv, CreateFile PROVE IInv'
    OBVIOUS
  <1>1. PICK name \in Names : Begins(name)
    BY CreateBegins DEF IInv
  <1> DEFINE n == Len(added) + 1
  <1>2. /\ DOMAIN files' = DOMAIN files \cup {Stem(name)} /\ files'[Stem(name)] = Torn
        /\ \A f \in DOMAIN files : f # Stem(name) => files'[f] = files[f]
    BY <1>1, BegunFiles
  <1>3. /\ added' \in Seq(Names) /\ Len(added) \in Nat /\ Len(added') = n
        /\ \A i \in 1..Len(added) : added'[i] = added[i]
        /\ added'[n] = name
    BY <1>1, BegunNumbers DEF IInv
  <1>4. \A i \in 1..Len(added) : Shared(i)' <=> Shared(i) \/ Stem(added[i]) = Stem(name)
    BY <1>1, BegunNumbers DEF IInv
  <1>5. /\ adding' = adding \cup {n} /\ late \subseteq late' /\ late' \subseteq late \cup {n}
        /\ (\E i \in adding : SameFile(i, name)) => n \in late'
        /\ Len(added) < MaxAdds
        /\ UNCHANGED <<done, sending, reads, sendSince, sendMixed, listing, due, listed, listSince>>
    BY <1>1 DEF Begins
  <1>6. /\ adding \subseteq 1..Len(added) /\ done \subseteq 1..Len(added)
        /\ sendSince \in 0..Len(added) /\ listSince \in 0..Len(added)
    BY NumberTypes DEF IInv
  <1>7. /\ \A i \in 1..Len(added') : i \in 1..Len(added) \/ i = n
        /\ \A i \in 1..Len(added) : i \in 1..Len(added') /\ i # n /\ i < n
        /\ n \in 1..Len(added')
    BY <1>3
  <1>8. TypeOK'
    <2>1. DOMAIN files' \subseteq Stems /\ \A f \in DOMAIN files' : files'[f] \in Keys \cup {Torn}
      BY <1>2 DEF IInv, TypeOK, Stems
    <2>2. adding' \cup done' \cup late' \subseteq 1..Len(added')
      BY <1>5, <1>6, <1>7 DEF IInv, TypeOK
    <2>3. {sendSince', listSince'} \subseteq 0..Len(added')
      BY <1>3, <1>5, <1>6
    <2> QED BY <1>2, <1>3, <1>5, <2>1, <2>2, <2>3 DEF IInv, TypeOK
  <1>9. Numbered'
    BY <1>3, <1>5, <1>6, <1>7 DEF IInv, Numbered
  <1>10. Opened'
    <2>1. ASSUME NEW i \in 1..Len(added')
          PROVE  Stem(added'[i]) \in DOMAIN files'
      BY <1>2, <1>3, <1>7 DEF IInv, Opened
    <2>2. ASSUME NEW j \in adding', NEW i \in 1..Len(added'),
                 j < i, Stem(added'[j]) = Stem(added'[i])
          PROVE  i \in late'
      <3>1. j \in adding /\ j \in 1..Len(added)
        BY <1>5, <1>6, <1>7, <2>2
      <3>2. CASE i \in 1..Len(added)
        BY <1>3, <1>5, <2>2, <3>1, <3>2 DEF IInv, Opened
      <3>3. CASE i = n
        BY <1>3, <1>5, <2>2, <3>1, <3>3 DEF SameFile
      <3> QED BY <1>7, <3>2, <3>3
    <2> QED BY <2>1, <2>2 DEF Opened
  <1>11. Contents'
    <2>1. ASSUME NEW i \in 1..Len(added'), ~Shared(i)'
          PROVE  files'[Stem(added'[i])] = IF i \in done' THEN i ELSE Torn
      <3>1. CASE i \in 1..Len(added)
        <4>1. ~Shared(i) /\ Stem(added[i]) # Stem(name) /\ Stem(added[i]) \in DOMAIN files
          BY <1>4, <2>1, <3>1 DEF IInv, Opened
        <4> QED BY <1>2, <1>3, <1>5, <3>1, <4>1 DEF IInv, Contents
      <3>2. CASE i = n
        BY <1>2, <1>3, <1>5, <1>6, <1>7, <3>2
      <3> QED BY <1>7, <3>1, <3>2
    <2> QED BY <2>1 DEF Contents
  <1>12. Signing'
    <2> SUFFICES ASSUME ~Excused'
                 PROVE  /\ sending # "panicked"
                        /\ sending \in {"yes", "sent"} => \A i \in 1..Len(reads) : reads[i] = reads[1]
                        /\ sending = "yes" =>
                             /\ \A j \in adding' : SameFile(j, KeyName)' => ~Shared(j)'
                             /\ Len(reads) > 0 =>
                                  /\ \A j \in adding' : ~SameFile(j, KeyName)'
                                  /\ GetKey(KeyName)' = reads[1] /\ reads[1] # Torn
      BY <1>5 DEF Signing
    <2>1. sendSince + 1 \in 1..(Len(added) + 1)
      BY <1>6
    <2>2. ~Excused /\ Stem(name) # Stem(KeyName)
      <3>1. ~TouchedFrom(sendSince + 1, KeyName)'
        BY <1>5 DEF Excused, TouchedFrom, SameFile
      <3>2. \A m \in 1..(Len(added) + 1) :
              ~TouchedFrom(m, KeyName)' => ~TouchedFrom(m, KeyName) /\ Stem(name) # Stem(KeyName)
        BY <1>1, BegunNumbers DEF IInv
      <3>3. PICK m \in 1..(Len(added) + 1) : m = sendSince + 1
        BY <2>1
      <3>4. ~TouchedFrom(m, KeyName)'
        BY <1>5, <3>1, <3>3 DEF TouchedFrom, SameFile
      <3> QED BY <1>5, <3>2, <3>3, <3>4 DEF Excused
    <2>3. \A j \in adding' : SameFile(j, KeyName)' => j \in adding /\ SameFile(j, KeyName)
      BY <1>3, <1>5, <1>6, <2>2 DEF SameFile
    <2>4. GetKey(KeyName)' = GetKey(KeyName)
      BY <1>2, <2>2 DEF GetKey
    <2>5. sending = "yes" => \A j \in adding' : SameFile(j, KeyName)' => ~Shared(j)'
      <3> SUFFICES ASSUME sending = "yes", NEW j \in adding', SameFile(j, KeyName)'
                   PROVE  ~Shared(j)'
        OBVIOUS
      <3>1. j \in adding /\ SameFile(j, KeyName) /\ ~Shared(j) /\ j \in 1..Len(added)
        BY <1>6, <2>2, <2>3 DEF IInv, Signing
      <3> QED BY <1>4, <2>2, <3>1 DEF SameFile
    <2> QED BY <2>2, <2>3, <2>4, <2>5 DEF IInv, Signing
  <1>13. Listing'
    <2>1. /\ \A i \in 1..listSince : i \in 1..Len(added) /\ added'[i] = added[i]
          /\ \A i \in 1..listSince : ~Shared(i)' => ~Shared(i)
      BY <1>3, <1>4, <1>6
    <2> QED BY <1>5, <2>1 DEF IInv, Listing
  <1> QED BY <1>8, <1>9, <1>10, <1>11, <1>12, <1>13 DEF IInv

\* What the steps of an open call have in common: they write to its own file
\* only, and nothing but its key unless it shares the file.
Writes(k) ==
    /\ adding' \subseteq adding /\ done \subseteq done' /\ done' \subseteq done \cup {k}
    /\ k \in done' => k \notin adding'
    /\ DOMAIN files' = DOMAIN files
    /\ \A f \in DOMAIN files : f # Stem(added[k]) => files'[f] = files[f]
    /\ files'[Stem(added[k])] \in Keys \cup {Torn}
    /\ ~Shared(k) => files'[Stem(added[k])] = IF k \in done' THEN k ELSE Torn
    /\ UNCHANGED <<added, late, sending, reads, sendSince, sendMixed, listing, due, listed, listSince>>

LEMMA WritesIInv ==
    ASSUME IInv, NEW k \in adding, Writes(k)
    PROVE  IInv'
<1>1. /\ added \in Seq(Names) /\ Len(added) \in Nat /\ adding \subseteq 1..Len(added)
      /\ done \subseteq 1..Len(added) /\ k \in 1..Len(added)
      /\ listSince \in 0..Len(added)
  BY NumberTypes DEF IInv
<1>2. /\ \A i : Shared(i)' <=> Shared(i)
      /\ \A i, name : SameFile(i, name)' <=> SameFile(i, name)
      /\ Excused' <=> Excused
  BY SameShares DEF Writes, Excused, TouchedFrom, SameFile
<1>3. \A i \in 1..Len(added) : i # k /\ Stem(added[i]) = Stem(added[k]) => Shared(i)
  BY <1>1, OthersShare DEF IInv
<1>4. TypeOK'
  <2>1. \A f \in DOMAIN files' : files'[f] \in Keys \cup {Torn}
    BY DEF Writes, IInv, TypeOK
  <2>2. adding' \cup done' \cup late' \subseteq 1..Len(added')
    BY <1>1 DEF Writes, IInv, TypeOK
  <2> QED BY <2>1, <2>2 DEF Writes, IInv, TypeOK
<1>5. Numbered'
  BY DEF Writes, IInv, Numbered
<1>6. Opened'
  BY DEF Writes, IInv, Opened
<1>7. Contents'
  <2>1. ASSUME NEW i \in 1..Len(added), ~Shared(i)
        PROVE  files'[Stem(added[i])] = IF i \in done' THEN i ELSE Torn
    <3>1. CASE i = k
      BY <2>1, <3>1 DEF Writes
    <3>2. CASE i # k
      <4>1. Stem(added[i]) # Stem(added[k]) /\ Stem(added[i]) \in DOMAIN files
        BY <1>3, <2>1, <3>2 DEF IInv, Opened
      <4>2. i \in done' <=> i \in done
        BY <3>2 DEF Writes
      <4>3. files'[Stem(added[i])] = files[Stem(added[i])]
        BY <4>1 DEF Writes
      <4> QED BY <2>1, <4>2, <4>3 DEF IInv, Contents
    <3> QED BY <3>1, <3>2
  <2> QED BY <1>2, <2>1 DEF Writes, Contents
<1>8. Signing'
  <2>1. ASSUME ~SameFile(k, KeyName) PROVE GetKey(KeyName)' = GetKey(KeyName)
    BY <2>1 DEF Writes, GetKey, SameFile
  <2>2. /\ \A j \in adding' : j \in adding
        /\ UNCHANGED <<sending, reads>>
    BY DEF Writes
  <2> QED BY <1>2, <2>1, <2>2 DEF IInv, Signing
<1>9. Listing'
  BY <1>2 DEF Writes, IInv, Listing
<1> QED BY <1>4, <1>5, <1>6, <1>7, <1>8, <1>9 DEF IInv

\* The steps of an open call.
LEMMA OpenCallIInv ==
    ASSUME IInv, NEW k \in adding, WriteSome(k) \/ WriteFile(k) \/ WriteCutShort(k)
    PROVE  IInv'
<1>1. k \in 1..Len(added) /\ k \notin done /\ Stem(added[k]) \in DOMAIN files
  BY NumberTypes DEF IInv, Numbered, Opened
<1>2. k \in Keys /\ Mixed \in Keys
  BY <1>1, NumberTypes DEF IInv, Numbered, Keys
<1>3. CASE WriteSome(k)
  <2>1. Writes(k)
    BY <1>1, <1>3 DEF WriteSome, Writes, adds, sender, lister
  <2> QED BY <2>1, WritesIInv
<1>4. CASE WriteFile(k)
  <2>1. PICK content \in Written(k) :
          /\ adding' = adding \ {k} /\ done' = done \cup {k}
          /\ files' = [files EXCEPT ![Stem(added[k])] = content]
          /\ UNCHANGED <<added, late, sending, reads, sendSince, sendMixed,
                         listing, due, listed, listSince>>
    BY <1>4 DEF WriteFile, sender, lister
  <2>2. content \in Keys \cup {Torn} /\ (~Shared(k) => content = k)
    BY <1>2, <2>1 DEF Written
  <2>3. Writes(k)
    BY <1>1, <2>1, <2>2 DEF Writes
  <2> QED BY <2>3, WritesIInv
<1>5. CASE WriteCutShort(k)
  <2>1. ~Shared(k) => files[Stem(added[k])] = Torn
    BY <1>1 DEF IInv, Contents
  <2>2. Writes(k)
    BY <1>1, <1>5, <2>1 DEF WriteCutShort, Writes, sender, lister, IInv, TypeOK
  <2> QED BY <2>2, WritesIInv
<1> QED BY <1>3, <1>4, <1>5

--------------------------------------------------------------------------------
(***************************************************************************)
(* send_tx and keys, which leave the folder alone.                         *)
(***************************************************************************)
LEMMA SameFolder ==
    ASSUME IInv, UNCHANGED <<files, adding, added, done, late>>
    PROVE  /\ Numbered' /\ Opened' /\ Contents'
           /\ \A i : Shared(i)' <=> Shared(i)
           /\ \A i, name : SameFile(i, name)' <=> SameFile(i, name)
           /\ \A n, name : TouchedFrom(n, name)' <=> TouchedFrom(n, name)
           /\ GetKey(KeyName)' = GetKey(KeyName)
<1>1. /\ \A i : Shared(i)' <=> Shared(i)
      /\ \A i, name : SameFile(i, name)' <=> SameFile(i, name)
      /\ \A n, name : TouchedFrom(n, name)' <=> TouchedFrom(n, name)
  BY SameShares
<1>2. Numbered' /\ Opened' /\ Contents'
  BY <1>1 DEF IInv, Numbered, Opened, Contents
<1>3. GetKey(KeyName)' = GetKey(KeyName)
  BY DEF GetKey
<1> QED BY <1>1, <1>2, <1>3

\* An unexcused send_tx finds an open call at work on its file, or its key.
LEMMA BeginSendIInv == IInv /\ BeginSend => IInv'
  <1> SUFFICES ASSUME IInv, BeginSend PROVE IInv'
    OBVIOUS
  <1>1. /\ sending' = "yes" /\ reads' = <<>> /\ sendSince' = Len(added)
        /\ sendMixed' = \E i \in adding : SameFile(i, KeyName) /\ Shared(i)
        /\ UNCHANGED <<files, adding, added, done, late, listing, due, listed, listSince>>
    BY DEF BeginSend, SendBegins, adds, lister
  <1>2. Len(<<>>) = 0 /\ \A S : <<>> \in Seq(S)
    BY EmptySeq
  <1>3. TypeOK'
    <2>1. sendSince' \in 0..Len(added)
      BY <1>1, NumberTypes DEF IInv
    <2> QED BY <1>1, <1>2, <2>1 DEF IInv, TypeOK
  <1>4. Signing'
    <2>1. ~Excused' => \A j \in adding : SameFile(j, KeyName) => ~Shared(j)
      BY <1>1 DEF Excused
    <2>2. \A i : /\ SameFile(i, KeyName)' <=> SameFile(i, KeyName)
                 /\ Shared(i)' <=> Shared(i)
      BY <1>1, SameFolder
    <2> QED BY <1>1, <1>2, <2>1, <2>2 DEF Signing
  <1>5. Listing'
    BY <1>1, SameFolder DEF IInv, Listing
  <1> QED BY <1>1, <1>3, <1>4, <1>5, SameFolder DEF IInv

LEMMA ReadKeyIInv == IInv /\ ReadKey => IInv'
  <1> SUFFICES ASSUME IInv, ReadKey PROVE IInv'
    OBVIOUS
  <1>1. /\ sending = "yes"
        /\ UNCHANGED <<sendSince, sendMixed, files, adding, added, done, late,
                       listing, due, listed, listSince>>
    BY DEF ReadKey, adds, lister
  <1> DEFINE key == GetKey(KeyName)
  <1>2. Excused' <=> Excused
    BY <1>1, SameFolder DEF Excused, TouchedFrom, SameFile
  <1>3. reads \in Seq(Keys) /\ Len(reads) \in Nat
    BY LenProperties DEF IInv, TypeOK
  <1>4. Listing'
    BY <1>1, SameFolder DEF IInv, Listing
  <1>5. CASE key = Torn
    <2>1. /\ reads' = reads /\ sending' \in {"failed", "panicked"}
          /\ sending' = "panicked" => KeyUses[Len(reads) + 1] = "balance"
      BY <1>5 DEF ReadKey
    <2>2. TypeOK'
      BY <1>1, <2>1 DEF IInv, TypeOK
    <2>3. ~Excused => sending' # "panicked"
      <3>1. ~Excused => ~(Len(reads) > 0)
        BY <1>1, <1>5 DEF IInv, Signing
      <3>2. KeyUses[1] # "balance"
        BY DEF KeyUses
      <3> QED BY <1>3, <2>1, <3>1, <3>2
    <2>4. Signing'
      BY <1>2, <2>1, <2>3 DEF Signing
    <2> QED BY <1>1, <1>4, <2>2, <2>4, SameFolder DEF IInv
  <1>6. CASE key # Torn
    <2>1. reads' = Append(reads, key) /\ sending' \in {"sent", "yes"}
      BY <1>6 DEF ReadKey
    <2>2. key \in Keys
      BY <1>6 DEF GetKey, IInv, TypeOK
    <2> HIDE DEF key
    <2>3. /\ reads' \in Seq(Keys) /\ Len(reads') = Len(reads) + 1
          /\ \A i \in 1..Len(reads) : reads'[i] = reads[i]
          /\ reads'[Len(reads) + 1] = key
      BY <1>3, <2>1, <2>2, AppendElements
    <2>4. TypeOK'
      BY <1>1, <2>1, <2>3 DEF IInv, TypeOK
    <2>5. ASSUME ~Excused
          PROVE  /\ reads'[1] = key /\ \A i \in 1..Len(reads') : reads'[i] = key
                 /\ \A j \in adding : ~SameFile(j, KeyName)
      <3>1. CASE Len(reads) > 0
        <4>1. /\ key = reads[1] /\ 1 \in 1..Len(reads)
              /\ \A i \in 1..Len(reads) : reads[i] = reads[1]
              /\ \A j \in adding : ~SameFile(j, KeyName)
          BY <1>1, <1>3, <2>5, <3>1 DEF IInv, Signing, key
        <4>2. \A i \in 1..Len(reads') : i \in 1..Len(reads) \/ i = Len(reads) + 1
          BY <1>3, <2>3
        <4> QED BY <2>3, <4>1, <4>2
      <3>2. CASE ~(Len(reads) > 0)
        <4>1. Len(reads) = 0 /\ \A i \in 1..Len(reads') : i = 1
          BY <1>3, <2>3, <3>2
        <4>2. ASSUME NEW j \in adding, SameFile(j, KeyName)
              PROVE  FALSE
          <5>1. ~Shared(j) /\ j \in 1..Len(added) /\ j \notin done
            BY <1>1, <2>5, <4>2, NumberTypes DEF IInv, Signing, Numbered
          <5>2. files[Stem(added[j])] = Torn /\ Stem(added[j]) \in DOMAIN files
            BY <5>1 DEF IInv, Contents, Opened
          <5> QED BY <1>6, <4>2, <5>2 DEF key, GetKey, SameFile
        <4> QED BY <2>3, <4>1, <4>2
      <3> QED BY <3>1, <3>2
    <2>6. GetKey(KeyName)' = key /\ \A i : SameFile(i, KeyName)' <=> SameFile(i, KeyName)
      BY <1>1, SameFolder DEF key
    <2>7. Signing'
      BY <1>1, <1>2, <1>6, <2>1, <2>5, <2>6 DEF Signing
    <2> QED BY <1>1, <1>4, <2>4, <2>7, SameFolder DEF IInv
  <1> QED BY <1>5, <1>6

\* A listing that begins has all of the folder before it.
LEMMA BeginListIInv == IInv /\ BeginList => IInv'
  <1> SUFFICES ASSUME IInv, BeginList PROVE IInv'
    OBVIOUS
  <1>1. /\ listing' = "yes" /\ due' = DOMAIN files /\ listed' = <<>> /\ listSince' = Len(added)
        /\ UNCHANGED <<files, adding, added, done, late, sending, reads, sendSince, sendMixed>>
    BY DEF BeginList, adds, sender
  <1>2. DOMAIN <<>> = {}
    <2>1. DOMAIN <<>> = 1..Len(<<>>) /\ Len(<<>>) = 0
      BY EmptySeq, LenProperties
    <2> QED BY <2>1
  <1>3. TypeOK'
    <2>1. listSince' \in 0..Len(added)
      BY <1>1, NumberTypes DEF IInv
    <2> QED BY <1>1, <1>2, <2>1 DEF IInv, TypeOK
  <1>4. Listing'
    BY <1>1, <1>2 DEF IInv, Opened, Listing
  <1>5. Signing'
    BY <1>1, SameFolder DEF IInv, Signing, Excused, TouchedFrom, SameFile, Shared
  <1> QED BY <1>1, <1>3, <1>4, <1>5, SameFolder DEF IInv

\* What a file shows is Torn, or the key of the only call that wrote to it.
LEMMA ListFileIInv == IInv /\ ListFile => IInv'
  <1> SUFFICES ASSUME IInv, ListFile PROVE IInv'
    OBVIOUS
  <1>1. PICK f \in DOMAIN files :
          /\ listing = "yes"
          /\ IF GetKey(f) = Torn
             THEN listing' = "failed" /\ UNCHANGED listed
             ELSE listed' = Put(listed, f, GetKey(f)) /\ UNCHANGED listing
          /\ UNCHANGED <<files, adding, added, done, late, sending, reads, sendSince, sendMixed,
                         due, listSince>>
    BY DEF ListFile, adds, sender
  <1>2. Signing'
    BY <1>1, SameFolder DEF IInv, Signing, Excused, TouchedFrom, SameFile, Shared
  <1>3. CASE GetKey(f) = Torn
    <2>1. TypeOK' /\ Listing'
      BY <1>1, <1>3 DEF IInv, TypeOK, Listing
    <2> QED BY <1>1, <1>2, <2>1, SameFolder DEF IInv
  <1>4. CASE GetKey(f) # Torn
    <2>1. /\ listing' = "yes" /\ DOMAIN listed' = DOMAIN listed \cup {f}
          /\ listed'[f] = GetKey(f)
          /\ \A g \in DOMAIN listed : g # f => listed'[g] = listed[g]
      BY <1>1, <1>4 DEF Put
    <2>2. GetKey(f) \in Keys /\ f \in Stems
      BY <1>1, <1>4 DEF GetKey, IInv, TypeOK
    <2>3. TypeOK'
      <3>1. DOMAIN listed' \subseteq Stems /\ \A g \in DOMAIN listed' : listed'[g] \in Keys
        BY <2>1, <2>2 DEF IInv, TypeOK
      <3> QED BY <1>1, <2>1, <3>1 DEF IInv, TypeOK
    <2>4. ASSUME NEW i \in 1..listSince, Stem(Stem(added[i])) = Stem(added[i]), ~Shared(i),
                 Stem(added[i]) \in DOMAIN listed'
          PROVE  listed'[Stem(added[i])] = i
      <3>1. i \in 1..Len(added)
        BY NumberTypes DEF IInv
      <3>2. CASE Stem(added[i]) = f
        <4>1. GetKey(f) = files[f]
          BY <2>4, <3>2 DEF GetKey
        <4>2. files[f] = IF i \in done THEN i ELSE Torn
          BY <2>4, <3>1, <3>2 DEF IInv, Contents
        <4> QED BY <1>4, <2>1, <3>2, <4>1, <4>2
      <3>3. CASE Stem(added[i]) # f
        BY <1>1, <2>1, <2>4, <3>3 DEF IInv, Listing
      <3> QED BY <3>2, <3>3
    <2>5. Listing'
      <3>1. \A i : Shared(i)' <=> Shared(i)
        BY <1>1, SameFolder
      <3> QED BY <1>1, <2>1, <2>4, <3>1 DEF IInv, Listing
    <2> QED BY <1>1, <1>2, <2>3, <2>5, SameFolder DEF IInv
  <1> QED BY <1>3, <1>4

\* A listing ends when it has all it had before it.
LEMMA EndListIInv == IInv /\ EndList => IInv'
  <1> SUFFICES ASSUME IInv, EndList PROVE IInv'
    OBVIOUS
  <1>1. /\ listing = "yes" /\ due \subseteq DOMAIN listed /\ listing' = "ok"
        /\ UNCHANGED <<files, adding, added, done, late, sending, reads, sendSince, sendMixed,
                       due, listed, listSince>>
    BY DEF EndList, adds, sender
  <1>2. TypeOK'
    BY <1>1 DEF IInv, TypeOK
  <1>3. Signing'
    BY <1>1, SameFolder DEF IInv, Signing, Excused, TouchedFrom, SameFile, Shared
  <1>4. Listing'
    BY <1>1, SameFolder DEF IInv, Listing
  <1> QED BY <1>1, <1>2, <1>3, <1>4, SameFolder DEF IInv

LEMMA StepIInv == IInv /\ [Next]_vars => IInv'
<1>1. ASSUME IInv, UNCHANGED vars PROVE IInv'
  <2>1. UNCHANGED <<files, adding, added, done, late, sending, reads, sendSince, sendMixed,
                    listing, due, listed, listSince>>
    BY <1>1 DEF vars, adds, sender, lister
  <2>2. TypeOK' /\ Listing'
    BY <1>1, <2>1, SameFolder DEF IInv, TypeOK, Listing
  <2>3. Signing'
    BY <1>1, <2>1, SameFolder DEF IInv, Signing, Excused, TouchedFrom, SameFile, Shared
  <2> QED BY <1>1, <2>1, <2>2, <2>3, SameFolder DEF IInv
<1> QED
  BY <1>1, CreateIInv, OpenCallIInv, BeginSendIInv, ReadKeyIInv, BeginListIInv, ListFileIInv,
     EndListIInv
  DEF Next, AddStep, SendStep, ListStep

--------------------------------------------------------------------------------
(***************************************************************************)
(* What follows.                                                           *)
(***************************************************************************)
LEMMA IInvHolds == Spec => []IInv
  BY InitIInv, StepIInv, PTL DEF Spec

\* The variables keep their types; whatever is used as a key is one.
THEOREM TypesHold == Spec => []TypeOK
<1>1. IInv => TypeOK
  BY DEF IInv
<1> QED BY <1>1, IInvHolds, PTL

\* A key whose add_key was answered by Ok is what get_key answers, as long as
\* no later call has to do with its file, and unless the call shared the file
\* with one that was still writing when it began: two such calls may both be
\* answered by Ok and leave a key of neither.
THEOREM AcknowledgedHold == Spec => []AcknowledgedKeysKept
<1>1. IInv => AcknowledgedKeysKept
  <2> SUFFICES ASSUME IInv, NEW i \in done, ~Shared(i)
               PROVE  GetKey(added[i]) = i
    BY DEF AcknowledgedKeysKept
  <2>1. i \in 1..Len(added)
    BY NumberTypes DEF IInv
  <2> QED BY <2>1 DEF IInv, Opened, Contents, GetKey
<1> QED BY <1>1, IInvHolds, PTL

\* A transaction is made with one key, and the balance does not panic, unless
\* its file is touched meanwhile.
THEOREM OneKeyHolds == Spec => []OneKeyUnlessTouched
<1>1. IInv => OneKeyUnlessTouched
  <2>1. ASSUME IInv PROVE DOMAIN reads = 1..Len(reads)
    BY <2>1, LenProperties DEF IInv, TypeOK
  <2> QED BY <2>1 DEF IInv, Signing, Excused, OneKeyUnlessTouched
<1> QED BY <1>1, IInvHolds, PTL

\* An Ok of keys shows, for every file whose stem has no dot, the key added
\* before the listing under its own name, unless another call has to do with
\* the file.  (Of a file whose stem has a dot it shows another file's key, or
\* fails.)
THEOREM ListedHold == Spec => []ListedKeysRight
<1>1. IInv => ListedKeysRight
  <2> SUFFICES ASSUME IInv, listing = "ok", NEW i \in done, i <= listSince,
                      Stem(Stem(added[i])) = Stem(added[i]), ~Shared(i)
               PROVE  Stem(added[i]) \in DOMAIN listed /\ listed[Stem(added[i])] = i
    BY DEF ListedKeysRight
  <2>1. i \in 1..listSince
    BY NumberTypes DEF IInv
  <2> QED BY <2>1 DEF IInv, Listing
<1> QED BY <1>1, IInvHolds, PTL
================================================================================
