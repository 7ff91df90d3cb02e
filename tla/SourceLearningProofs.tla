-------------------------- MODULE SourceLearningProofs -------------------------
(***************************************************************************)
(* What Source Learning promises for any files, any matchings by hand, any   *)
(* number of imports and of interventions: what a person confirmed in a      *)
(* source is never silently lost, in whatever order its imports are          *)
(* verified, imported and saved.                                             *)
(***************************************************************************)
EXTENDS SourceLearning, FiniteSetTheorems, SequenceTheorems, WellFoundedInduction, TLAPS

--------------------------------------------------------------------------------
(* What a source has learned *)

Origins == {"REUSE", "ENGINE", "ANSWERS", "MANUAL"}
Trusts == {"PERSON", "ENGINE"}
FamilyFields == {"id", "touched", "trust", "shape", "mapped", "person", "answers", "history"}

\* A family of a store that has been saved seq times.
IsFamily(m, seq) ==
  /\ DOMAIN m = FamilyFields
  /\ m.id \in 1 .. seq /\ m.touched \in 1 .. seq
  /\ m.trust \in Trusts
  /\ m.history \in Seq(Range(m.history))

AreFamilies(fs, seq) ==
  /\ fs \in Seq(Range(fs))
  /\ \A k \in DOMAIN fs : IsFamily(fs[k], seq)
  /\ \A j, k \in DOMAIN fs : j # k => fs[j].id # fs[k].id /\ fs[j].touched # fs[k].touched

\* Identities and uses are counts of the saves, so no two families share one.
IsStore(store) ==
  /\ store.seq \in Nat
  /\ AreFamilies(store.families, store.seq)
  /\ Len(store.families) <= FamiliesKept

LEMMA SeqOfItsRange ==
    ASSUME NEW S, NEW s \in Seq(S)
    PROVE  s \in Seq(Range(s)) /\ Range(s) \subseteq S
<1>1. s \in [1 .. Len(s) -> S] /\ Len(s) \in Nat /\ DOMAIN s = 1 .. Len(s)
  OBVIOUS
<1>2. s \in [1 .. Len(s) -> Range(s)]
  BY <1>1 DEF Range
<1> QED BY <1>1, <1>2, SMTT(30) DEF Range

LEMMA SmallestOf ==
    ASSUME NEW T \in SUBSET Nat, T # {}
    PROVE  \E m \in T : \A n \in T : m <= n
<1>1. PICK m \in T : \A n \in T : ~(<<n, m>> \in OpToRel(<, Nat))
  BY NatLessThanWellFounded, WFMin, Zenon
<1>2. m \in Nat /\ \A n \in T : n \in Nat
  BY <1>1
<1>3. \A n \in T : <<n, m>> \in OpToRel(<, Nat) <=> n < m
  BY <1>2 DEF OpToRel
<1>4. \A n \in T : ~(n < m)
  BY <1>1, <1>3, Zenon
<1>5. \A n \in T : m <= n
  BY <1>2, <1>4
<1> QED BY <1>5

\* Where the first of some families is.
LEMMA FirstIsOne ==
    ASSUME NEW fs, Len(fs) \in Nat, NEW D \in SUBSET (1 .. Len(fs)), D # {}
    PROVE  Min(D) \in D
<1>1. D \in SUBSET Nat
  OBVIOUS
<1>2. \E m \in D : \A n \in D : m <= n
  BY <1>1, SmallestOf
<1> QED BY <1>2, Zenon DEF Min

LEMMA FamiliesAreFound ==
    ASSUME NEW seq \in Nat, NEW fs, AreFamilies(fs, seq)
    PROVE  /\ \A id : FamilyNamed(fs, id) # None =>
                        \E k \in DOMAIN fs : FamilyNamed(fs, id) = fs[k]
           /\ \A family, shape, mapped :
                Existing(fs, family, shape, mapped) # None =>
                  \E k \in DOMAIN fs : Existing(fs, family, shape, mapped) = fs[k]
<1>1. DOMAIN fs = 1 .. Len(fs) /\ Len(fs) \in Nat
  BY DEF AreFamilies
<1>2. ASSUME NEW id, FamilyNamed(fs, id) # None
      PROVE  \E k \in DOMAIN fs : FamilyNamed(fs, id) = fs[k]
  <2> DEFINE D == {i \in DOMAIN fs : fs[i].id = id}
  <2>1. D # {} /\ FamilyNamed(fs, id) = fs[Min(D)]
    BY <1>2, Zenon DEF FamilyNamed
  <2>2. Min(D) \in D
    BY <1>1, <2>1, FirstIsOne
  <2> QED BY <2>1, <2>2
<1>3. ASSUME NEW shape, NEW mapped, FamilyLike(fs, shape, mapped) # None
      PROVE  \E k \in DOMAIN fs : FamilyLike(fs, shape, mapped) = fs[k]
  <2> DEFINE D == {i \in DOMAIN fs :
                     Fingerprint(fs[i].shape, fs[i].mapped) = Fingerprint(shape, mapped)}
  <2>1. D # {} /\ FamilyLike(fs, shape, mapped) = fs[Min(D)]
    BY <1>3, Zenon DEF FamilyLike
  <2>2. Min(D) \in D
    BY <1>1, <2>1, FirstIsOne
  <2> QED BY <2>1, <2>2
<1> QED BY <1>2, <1>3, Zenon DEF Existing

--------------------------------------------------------------------------------
(* One family replaced, one more, one fewer *)

LEMMA FamiliesStay ==
    ASSUME NEW seq \in Nat, NEW m, IsFamily(m, seq)
    PROVE  IsFamily(m, seq + 1)
<1>1. 1 .. seq \subseteq 1 .. (seq + 1)
  OBVIOUS
<1> QED BY <1>1, Zenon DEF IsFamily

LEMMA OneReplaced ==
    ASSUME NEW seq \in Nat, NEW fs, AreFamilies(fs, seq), NEW k \in DOMAIN fs,
           NEW w, IsFamily(w, seq + 1), w.id = fs[k].id, w.touched = seq + 1
    PROVE  /\ AreFamilies(Replaced(fs, w), seq + 1)
           /\ Len(Replaced(fs, w)) = Len(fs)
           /\ w \in Range(Replaced(fs, w))
           /\ \A j \in DOMAIN fs \ {k} : fs[j] \in Range(Replaced(fs, w))
<1> DEFINE new == Replaced(fs, w)
<1>1. DOMAIN fs = 1 .. Len(fs) /\ Len(fs) \in Nat
  BY DEF AreFamilies
<1>2. /\ DOMAIN new = 1 .. Len(fs)
      /\ new[k] = w
      /\ \A j \in DOMAIN fs \ {k} : new[j] = fs[j]
  BY <1>1 DEF Replaced, AreFamilies
<1>3. new \in [1 .. Len(fs) -> Range(new)]
  BY <1>1, <1>2 DEF Replaced, Range
<1> HIDE DEF new
<1>4. new \in Seq(Range(new)) /\ Len(new) = Len(fs)
  BY <1>1, <1>2, <1>3
<1>5. \A j \in DOMAIN fs : IsFamily(fs[j], seq)
  BY DEF AreFamilies
<1>6. \A j \in DOMAIN new : IsFamily(new[j], seq + 1)
  <2> SUFFICES ASSUME NEW j \in DOMAIN new PROVE IsFamily(new[j], seq + 1)
    OBVIOUS
  <2>1. CASE j = k
    BY <1>2, <2>1
  <2>2. CASE j # k
    <3>1. j \in DOMAIN fs /\ new[j] = fs[j]
      BY <1>1, <1>2, <2>2
    <3>2. IsFamily(fs[j], seq + 1)
      BY <1>5, <3>1, FamiliesStay
    <3> QED BY <3>1, <3>2
  <2> QED BY <2>1, <2>2
<1>7. \A j, l \in DOMAIN fs : j # l => fs[j].id # fs[l].id /\ fs[j].touched # fs[l].touched
  BY DEF AreFamilies
<1>8. \A j \in DOMAIN fs : fs[j].touched # seq + 1
  BY <1>5 DEF IsFamily
<1>9. \A j, l \in DOMAIN new :
        j # l => new[j].id # new[l].id /\ new[j].touched # new[l].touched
  BY <1>1, <1>2, <1>7, <1>8
<1>10. w \in Range(new) /\ \A j \in DOMAIN fs \ {k} : fs[j] \in Range(new)
  BY <1>1, <1>2 DEF Range
<1> QED BY <1>4, <1>6, <1>9, <1>10 DEF AreFamilies, new

LEMMA OneMore ==
    ASSUME NEW seq \in Nat, NEW fs, AreFamilies(fs, seq),
           NEW w, IsFamily(w, seq + 1), w.id = seq + 1, w.touched = seq + 1
    PROVE  /\ AreFamilies(Append(fs, w), seq + 1)
           /\ Len(Append(fs, w)) = Len(fs) + 1
           /\ \A j \in DOMAIN fs : Append(fs, w)[j] = fs[j]
           /\ Append(fs, w)[Len(fs) + 1] = w
<1> DEFINE new == Append(fs, w)
<1>1. DOMAIN fs = 1 .. Len(fs) /\ Len(fs) \in Nat /\ fs \in Seq(Range(fs) \cup {w})
  <2>1. fs \in Seq(Range(fs))
    BY DEF AreFamilies
  <2> QED BY <2>1
<1>2. /\ new \in Seq(Range(fs) \cup {w})
      /\ Len(new) = Len(fs) + 1 /\ DOMAIN new = 1 .. Len(fs) + 1
      /\ \A j \in DOMAIN fs : new[j] = fs[j]
      /\ new[Len(fs) + 1] = w
  BY <1>1
<1> HIDE DEF new
<1>3. new \in Seq(Range(new))
  BY <1>2, SeqOfItsRange
<1>4. \A j \in DOMAIN fs : IsFamily(fs[j], seq)
  BY DEF AreFamilies
<1>5. \A j \in DOMAIN new : j \in DOMAIN fs \/ j = Len(fs) + 1
  BY <1>1, <1>2
<1>6. \A j \in DOMAIN new : IsFamily(new[j], seq + 1)
  BY <1>2, <1>4, <1>5, FamiliesStay
<1>7. \A j, l \in DOMAIN fs : j # l => fs[j].id # fs[l].id /\ fs[j].touched # fs[l].touched
  BY DEF AreFamilies
<1>8. \A j \in DOMAIN fs : fs[j].touched # seq + 1 /\ fs[j].id # seq + 1
  BY <1>4 DEF IsFamily
<1>9. \A j, l \in DOMAIN new :
        j # l => new[j].id # new[l].id /\ new[j].touched # new[l].touched
  BY <1>2, <1>5, <1>7, <1>8
<1> QED BY <1>2, <1>3, <1>6, <1>9 DEF AreFamilies, new

LEMMA OneFewer ==
    ASSUME NEW seq \in Nat, NEW fs, AreFamilies(fs, seq), NEW k \in DOMAIN fs
    PROVE  /\ AreFamilies(RemoveAt(fs, k), seq)
           /\ Len(RemoveAt(fs, k)) = Len(fs) - 1
           /\ \A n \in Range(RemoveAt(fs, k)) : \E j \in DOMAIN fs \ {k} : n = fs[j]
           /\ \A j \in DOMAIN fs \ {k} : fs[j] \in Range(RemoveAt(fs, k))
<1> DEFINE new == RemoveAt(fs, k)
           Was(j) == IF j < k THEN j ELSE j + 1
<1>1. DOMAIN fs = 1 .. Len(fs) /\ Len(fs) \in Nat /\ fs \in Seq(Range(fs)) /\ k \in 1 .. Len(fs)
  BY DEF AreFamilies
<1>2. /\ SubSeq(fs, 1, k - 1) \in Seq(Range(fs)) /\ Len(SubSeq(fs, 1, k - 1)) = k - 1
      /\ \A j \in 1 .. (k - 1) : SubSeq(fs, 1, k - 1)[j] = fs[j]
  BY <1>1
<1>3. /\ SubSeq(fs, k + 1, Len(fs)) \in Seq(Range(fs))
      /\ Len(SubSeq(fs, k + 1, Len(fs))) = Len(fs) - k
      /\ \A j \in 1 .. (Len(fs) - k) : SubSeq(fs, k + 1, Len(fs))[j] = fs[k + j]
  BY <1>1
<1>4. /\ new \in Seq(Range(fs)) /\ Len(new) = Len(fs) - 1 /\ DOMAIN new = 1 .. (Len(fs) - 1)
      /\ \A j \in DOMAIN new : new[j] = fs[Was(j)]
  <2> DEFINE a == SubSeq(fs, 1, k - 1)
             b == SubSeq(fs, k + 1, Len(fs))
  <2>1. /\ a \in Seq(Range(fs)) /\ Len(a) = k - 1 /\ \A j \in 1 .. (k - 1) : a[j] = fs[j]
        /\ b \in Seq(Range(fs)) /\ Len(b) = Len(fs) - k
        /\ \A j \in 1 .. (Len(fs) - k) : b[j] = fs[k + j]
    BY <1>2, <1>3
  <2>2. new = a \o b
    BY DEF RemoveAt
  <2>3. /\ a \o b \in Seq(Range(fs)) /\ Len(a \o b) = Len(a) + Len(b)
        /\ \A j \in 1 .. Len(a) + Len(b) : (a \o b)[j] = IF j <= Len(a) THEN a[j] ELSE b[j - Len(a)]
    BY <2>1, ConcatProperties, Zenon
  <2> HIDE DEF a, b, new
  <2>4. /\ new \in Seq(Range(fs)) /\ Len(new) = Len(fs) - 1
        /\ \A j \in 1 .. (Len(fs) - 1) : new[j] = IF j <= k - 1 THEN a[j] ELSE b[j - (k - 1)]
    BY <1>1, <2>1, <2>2, <2>3, SMTT(30)
  <2>5. ASSUME NEW j \in 1 .. (Len(fs) - 1) PROVE new[j] = fs[Was(j)]
    <3>1. CASE j <= k - 1
      <4>1. j \in 1 .. (k - 1) /\ Was(j) = j
        BY <1>1, <2>5, <3>1
      <4>2. new[j] = a[j]
        BY <2>4, <2>5, <3>1
      <4>3. a[j] = fs[j]
        BY <2>1, <4>1
      <4> QED BY <4>1, <4>2, <4>3
    <3>2. CASE j > k - 1
      <4>1. j - (k - 1) \in 1 .. (Len(fs) - k) /\ k + (j - (k - 1)) = j + 1
        BY <1>1, <2>5, <3>2
      <4>2. b[j - (k - 1)] = fs[k + (j - (k - 1))]
        BY <2>1, <4>1
      <4>3. new[j] = b[j - (k - 1)] /\ Was(j) = j + 1
        BY <1>1, <2>4, <2>5, <3>2
      <4> QED BY <4>1, <4>2, <4>3
    <3> QED BY <1>1, <2>5, <3>1, <3>2
  <2> QED BY <1>1, <2>4, <2>5
<1>5. /\ \A j \in DOMAIN new : Was(j) \in DOMAIN fs \ {k}
      /\ \A j, l \in DOMAIN new : j # l => Was(j) # Was(l)
      /\ \A j \in DOMAIN fs \ {k} : \E l \in DOMAIN new : Was(l) = j
  <2>1. ASSUME NEW j \in DOMAIN fs \ {k} PROVE \E l \in DOMAIN new : Was(l) = j
    <3>1. CASE j < k
      BY <1>1, <1>4, <3>1
    <3>2. CASE j > k
      <4>1. j - 1 \in DOMAIN new /\ Was(j - 1) = j
        BY <1>1, <1>4, <3>2
      <4> QED BY <4>1
    <3> QED BY <1>1, <2>1, <3>1, <3>2
  <2> QED BY <1>1, <1>4, <2>1, SMTT(30)
<1> HIDE DEF new, Was
<1>6. new \in Seq(Range(new))
  BY <1>4, SeqOfItsRange
<1>7. ASSUME NEW j \in DOMAIN new PROVE IsFamily(new[j], seq)
  <2>1. new[j] = fs[Was(j)] /\ Was(j) \in DOMAIN fs
    BY <1>4, <1>5
  <2> QED BY <2>1, Zenon DEF AreFamilies
<1>8. \A j, l \in DOMAIN new : j # l => new[j].id # new[l].id /\ new[j].touched # new[l].touched
  <2> SUFFICES ASSUME NEW j \in DOMAIN new, NEW l \in DOMAIN new, j # l
               PROVE  new[j].id # new[l].id /\ new[j].touched # new[l].touched
    OBVIOUS
  <2>1. /\ new[j] = fs[Was(j)] /\ new[l] = fs[Was(l)]
        /\ Was(j) \in DOMAIN fs /\ Was(l) \in DOMAIN fs /\ Was(j) # Was(l)
    BY <1>4, <1>5
  <2>2. /\ fs[Was(j)].id # fs[Was(l)].id /\ fs[Was(j)].touched # fs[Was(l)].touched
    BY <2>1, Zenon DEF AreFamilies
  <2> QED BY <2>1, <2>2
<1>9. /\ \A n \in Range(new) : \E j \in DOMAIN fs \ {k} : n = fs[j]
      /\ \A j \in DOMAIN fs \ {k} : fs[j] \in Range(new)
  BY <1>4, <1>5 DEF Range
<1> QED BY <1>4, <1>6, <1>7, <1>8, <1>9, Zenon DEF AreFamilies, new

--------------------------------------------------------------------------------
(* A save *)

\* Of families too many for a source, one is the least useful.
LEMMA SomeIsLeastUseful ==
    ASSUME NEW seq \in Nat, NEW fs, AreFamilies(fs, seq), NEW D \in SUBSET DOMAIN fs, D # {}
    PROVE  \E i \in D : \A j \in D \ {i} : LessUseful(fs[i], fs[j])
<1>1. /\ \A i \in DOMAIN fs : fs[i].touched \in Nat /\ fs[i].trust \in Trusts
      /\ \A i, j \in DOMAIN fs : i # j => fs[i].touched # fs[j].touched
  BY DEF AreFamilies, IsFamily
<1>2. ASSUME NEW E \in SUBSET DOMAIN fs, E # {}
      PROVE  \E i \in E : \A j \in E \ {i} : fs[i].touched < fs[j].touched
  <2> DEFINE T == {fs[i].touched : i \in E}
  <2>1. T \in SUBSET Nat /\ T # {}
    BY <1>1, <1>2
  <2>2. PICK t \in T : \A u \in T : t <= u
    BY <2>1, SmallestOf, Zenon
  <2>3. PICK i \in E : t = fs[i].touched
    BY <2>2
  <2>4. ASSUME NEW j \in E \ {i} PROVE fs[i].touched < fs[j].touched
    <3>1. fs[j].touched \in T /\ fs[i].touched <= fs[j].touched
      BY <2>2, <2>3, <2>4
    <3>2. /\ fs[i].touched \in Nat /\ fs[j].touched \in Nat
          /\ fs[i].touched # fs[j].touched
      BY <1>1, <1>2, <2>3, <2>4
    <3> QED BY <3>1, <3>2
  <2> QED BY <2>3, <2>4
<1> DEFINE read == {i \in D : fs[i].trust # "PERSON"}
<1>3. CASE read = {}
  <2>1. PICK i \in D : \A j \in D \ {i} : fs[i].touched < fs[j].touched
    BY <1>2
  <2>2. \A j \in D : fs[j].trust = "PERSON"
    BY <1>3
  <2> QED BY <2>1, <2>2 DEF LessUseful
<1>4. CASE read # {}
  <2>1. read \in SUBSET DOMAIN fs
    OBVIOUS
  <2>2. PICK i \in read : \A j \in read \ {i} : fs[i].touched < fs[j].touched
    BY <1>2, <1>4, <2>1
  <2>3. i \in D /\ \A j \in read : fs[j].trust = "ENGINE"
    BY <1>1, <2>1, <2>2 DEF Trusts
  <2>4. \A j \in D \ {i} : LessUseful(fs[i], fs[j])
    BY <2>2, <2>3 DEF LessUseful
  <2> QED BY <2>3, <2>4
<1> QED BY <1>3, <1>4

\* Pruning keeps every family there is room for, and the written one.
LEMMA PruningKeeps ==
    ASSUME NEW seq \in Nat, NEW fs, AreFamilies(fs, seq), Len(fs) <= FamiliesKept,
           NEW next, next = seq + 1,
           NEW w, IsFamily(w, next), w.id = next, w.touched = next,
           Taught(fs) => w.trust = "PERSON"
    PROVE  LET after == Prune(Append(fs, w), w.id)
           IN  /\ AreFamilies(after, seq + 1) /\ Len(after) <= FamiliesKept
               /\ \A k \in DOMAIN fs : fs[k].trust = "PERSON" =>
                    fs[k] \in Range(after) \/ LeftOut(fs[k], fs, after)
               /\ \A n \in Range(after) : n = w \/ \E k \in DOMAIN fs : n = fs[k]
<1> USE KeptAssumption
<1> DEFINE more == Append(fs, w)
           old == {i \in DOMAIN more : more[i].id # w.id}
           after == Prune(more, w.id)
<1>1. /\ AreFamilies(more, seq + 1) /\ Len(more) = Len(fs) + 1
      /\ \A j \in DOMAIN fs : more[j] = fs[j]
      /\ more[Len(fs) + 1] = w
  BY OneMore
<1>2. /\ DOMAIN fs = 1 .. Len(fs) /\ Len(fs) \in Nat
      /\ DOMAIN more = 1 .. (Len(fs) + 1)
  BY <1>1 DEF AreFamilies
<1>3. \A j \in DOMAIN fs : IsFamily(fs[j], seq)
  BY DEF AreFamilies
<1> HIDE DEF more
<1>4. old = DOMAIN fs
  <2>1. \A j \in DOMAIN fs : fs[j].id # seq + 1
    BY <1>3 DEF IsFamily
  <2> QED BY <1>1, <1>2, <2>1
<1>5. CASE Len(more) <= FamiliesKept
  <2>1. after = more
    BY <1>5 DEF Prune
  <2>2. \A k \in DOMAIN fs : fs[k] \in Range(more)
    BY <1>1, <1>2 DEF Range
  <2>3. /\ AreFamilies(after, seq + 1) /\ Len(after) <= FamiliesKept
        /\ \A k \in DOMAIN fs : fs[k] \in Range(after)
    BY <1>1, <1>5, <2>1, <2>2
  <2>4. \A n \in Range(after) : n = w \/ \E k \in DOMAIN fs : n = fs[k]
    <3> SUFFICES ASSUME NEW j \in DOMAIN more
                 PROVE  more[j] = w \/ \E k \in DOMAIN fs : more[j] = fs[k]
      BY <2>1 DEF Range
    <3>1. j \in DOMAIN fs \/ j = Len(fs) + 1
      BY <1>2
    <3> QED BY <1>1, <3>1, Zenon
  <2> HIDE DEF after
  <2> QED BY <2>3, <2>4, Zenon DEF after, more
<1>6. CASE ~(Len(more) <= FamiliesKept)
  <2>1. Len(fs) = FamiliesKept
    <3>1. FamiliesKept \in Nat \ {0}
      OBVIOUS
    <3>2. Len(more) = Len(fs) + 1 /\ Len(fs) \in Nat
      BY <1>1, <1>2
    <3>3. Len(fs) <= FamiliesKept
      OBVIOUS
    <3>4. ~(Len(more) <= FamiliesKept)
      BY <1>6
    <3> QED BY <3>1, <3>2, <3>3, <3>4
  <2> DEFINE out == CHOOSE i \in old : \A j \in old \ {i} : LessUseful(more[i], more[j])
  <2>2. after = RemoveAt(more, out)
    BY <1>6, Zenon DEF Prune
  <2>3. old \in SUBSET DOMAIN more /\ old # {}
    <3>1. 1 \in 1 .. Len(fs)
      BY <1>2, <2>1
    <3>2. 1 \in old
      BY <1>2, <1>4, <3>1, Zenon
    <3> QED BY <3>2
  <2>4. \E i \in old : \A j \in old \ {i} : LessUseful(more[i], more[j])
    <3>1. seq + 1 \in Nat
      OBVIOUS
    <3> HIDE DEF old
    <3> QED BY <1>1, <2>3, <3>1, SomeIsLeastUseful
  <2>5. out \in old /\ \A j \in old \ {out} : LessUseful(more[out], more[j])
    BY <2>4, Zenon
  <2> HIDE DEF out, after, old
  <2>6. out \in DOMAIN fs /\ out \in DOMAIN more
    BY <1>4, <2>3, <2>5
  <2>7. /\ AreFamilies(after, seq + 1) /\ Len(after) = Len(more) - 1
        /\ \A n \in Range(after) : \E j \in DOMAIN more \ {out} : n = more[j]
        /\ \A j \in DOMAIN more \ {out} : more[j] \in Range(after)
    <3>1. seq + 1 \in Nat
      OBVIOUS
    <3>2. AreFamilies(more, seq + 1) /\ out \in DOMAIN more
      BY <1>1, <2>6
    <3>3. /\ AreFamilies(RemoveAt(more, out), seq + 1)
          /\ Len(RemoveAt(more, out)) = Len(more) - 1
          /\ \A n \in Range(RemoveAt(more, out)) : \E j \in DOMAIN more \ {out} : n = more[j]
          /\ \A j \in DOMAIN more \ {out} : more[j] \in Range(RemoveAt(more, out))
      BY <3>1, <3>2, OneFewer, Zenon
    <3> QED BY <2>2, <3>3
  <2>8. ASSUME NEW k \in DOMAIN fs, fs[k].trust = "PERSON"
        PROVE  fs[k] \in Range(after) \/ LeftOut(fs[k], fs, after)
    <3>1. CASE k # out
      BY <1>1, <1>2, <2>7, <2>8, <3>1
    <3>2. CASE k = out
      <4>1. ASSUME NEW n \in Range(after)
            PROVE  n.trust = "PERSON" /\ n.touched > fs[k].touched
        <5>1. PICK j \in DOMAIN more \ {out} : n = more[j]
          BY <2>7, <4>1
        <5>2. fs[k].touched \in 1 .. seq
          BY <1>3, <2>8 DEF IsFamily
        <5>3. CASE j = Len(fs) + 1
          BY <1>1, <2>8, <5>1, <5>2, <5>3 DEF Taught
        <5>4. CASE j \in DOMAIN fs
          <6>1. LessUseful(fs[k], fs[j])
            BY <1>1, <1>4, <2>5, <3>2, <5>1, <5>4
          <6>2. fs[j].trust = "PERSON" /\ fs[k].touched < fs[j].touched
            BY <2>8, <6>1 DEF LessUseful
          <6>3. fs[j].touched \in 1 .. seq
            BY <1>3, <5>4 DEF IsFamily
          <6> QED BY <1>1, <5>1, <5>2, <5>4, <6>2, <6>3
        <5> QED BY <1>2, <5>1, <5>3, <5>4
      <4> QED BY <2>1, <4>1 DEF LeftOut
    <3> QED BY <3>1, <3>2
  <2>9. Len(after) <= FamiliesKept
    BY <1>1, <1>2, <2>1, <2>7
  <2>10. ASSUME NEW n \in Range(after)
         PROVE  n = w \/ \E k \in DOMAIN fs : n = fs[k]
    <3>1. PICK j \in DOMAIN more \ {out} : n = more[j]
      BY <2>7, <2>10
    <3>2. j \in DOMAIN fs \/ j = Len(fs) + 1
      BY <1>2
    <3> QED BY <1>1, <3>1, <3>2, Zenon
  <2> QED BY <2>7, <2>8, <2>9, <2>10, Zenon DEF after, more
<1> QED BY <1>5, <1>6 DEF more

\* What is kept of a history ends with what was added to it.
LEMMA HistoryEndsWithTheLast ==
    ASSUME NEW history, history \in Seq(Range(history)), NEW e
    PROVE  LET kept == LastOf(Append(history, e))
           IN  /\ kept \in Seq(Range(kept))
               /\ \E k \in DOMAIN kept : kept[k] = e
<1> DEFINE S == Range(history) \cup {e}
           all == Append(history, e)
           first == 1 + (IF Len(all) > HistoryKept THEN Len(all) - HistoryKept ELSE 0)
           kept == SubSeq(all, first, Len(all))
<1>1. history \in Seq(S) /\ e \in S
  OBVIOUS
<1> HIDE DEF S
<1>2. all \in Seq(S) /\ Len(all) \in Nat \ {0} /\ all[Len(all)] = e
  BY <1>1
<1> HIDE DEF all
<1>3. first \in 1 .. Len(all)
  BY <1>2, KeptAssumption
<1> HIDE DEF first
<1>4. /\ kept \in Seq(S) /\ Len(kept) = Len(all) - first + 1
      /\ \A k \in 1 .. Len(all) - first + 1 : kept[k] = all[first + k - 1]
  BY <1>2, <1>3
<1> HIDE DEF kept
<1>5. kept \in Seq(Range(kept))
  BY <1>4, SeqOfItsRange
<1>6. Len(all) - first + 1 \in DOMAIN kept /\ first + (Len(all) - first + 1) - 1 = Len(all)
  BY <1>2, <1>3, <1>4
<1>7. kept[Len(all) - first + 1] = e
  BY <1>2, <1>3, <1>4, <1>6
<1> QED BY <1>5, <1>6, <1>7, Zenon DEF LastOf, kept, first, all

\* What an import writes of its family.
LEMMA WhatIsWritten ==
    ASSUME NEW seq \in Nat, NEW existing, existing # None, IsFamily(existing, seq),
           NEW touched, touched = seq + 1, NEW id \in 1 .. touched,
           NEW shape, NEW mapped, NEW person, NEW answers, NEW origin
    PROVE  LET w == Remember(existing, id, touched, shape, mapped, person, answers, origin)
           IN  /\ IsFamily(w, seq + 1) /\ w.id = id /\ w.touched = seq + 1
               /\ w.trust = TrustOf(origin)
               /\ existing.trust = "PERSON" =>
                    \/ w.trust = "PERSON" /\ SaidIn(w) = SaidIn(existing)
                    \/ \E k \in DOMAIN w.history :
                         w.history[k] = [trust |-> existing.trust, mapped |-> existing.mapped,
                                         person |-> existing.person]
<1> DEFINE fact == [id      |-> id,
                    touched |-> touched,
                    trust   |-> TrustOf(origin),
                    shape   |-> shape,
                    mapped  |-> mapped,
                    person  |-> IF TrustOf(origin) = "PERSON" THEN person ELSE <<>>,
                    answers |-> answers]
           history == History(existing, fact)
           w == [f \in DOMAIN fact \cup {"history"} |-> IF f = "history" THEN history ELSE fact[f]]
           said == [trust |-> existing.trust, mapped |-> existing.mapped,
                    person |-> existing.person]
<1>1. w = Remember(existing, id, touched, shape, mapped, person, answers, origin)
  BY Zenon DEF Remember
<1>2. /\ DOMAIN fact = {"id", "touched", "trust", "shape", "mapped", "person", "answers"}
      /\ fact.id = id /\ fact.touched = touched /\ fact.trust = TrustOf(origin)
      /\ fact.mapped = mapped
  OBVIOUS
<1> HIDE DEF fact
<1>3. /\ DOMAIN w = FamilyFields /\ w.history = history
      /\ w.id = fact.id /\ w.touched = fact.touched /\ w.trust = fact.trust
      /\ w.mapped = fact.mapped /\ w.person = fact.person
  BY <1>2 DEF FamilyFields
<1> HIDE DEF w
<1>4. /\ history \in Seq(Range(history))
      /\ existing.trust = "PERSON" =>
           \/ /\ fact.trust = existing.trust /\ fact.mapped = existing.mapped
              /\ fact.person = existing.person
           \/ \E k \in DOMAIN history : history[k] = said
  <2>1. existing.history \in Seq(Range(existing.history))
    BY DEF IsFamily
  <2>2. CASE \A f \in {"trust", "mapped", "person", "answers"} : existing[f] = fact[f]
    <3>1. history = existing.history
      BY <2>2, Zenon DEF History
    <3>2. existing["trust"] = fact["trust"] /\ existing["mapped"] = fact["mapped"]
          /\ existing["person"] = fact["person"]
      BY <2>2, Zenon
    <3> QED BY <2>1, <3>1, <3>2
  <2>3. CASE ~\A f \in {"trust", "mapped", "person", "answers"} : existing[f] = fact[f]
    <3>1. history = LastOf(Append(existing.history, said))
      BY <2>3, Zenon DEF History
    <3> HIDE DEF history, said
    <3> QED BY <2>1, <3>1, HistoryEndsWithTheLast
  <2> QED BY <2>2, <2>3
<1>5. TrustOf(origin) \in Trusts
  BY DEF TrustOf, Trusts
<1> HIDE DEF history, said
<1>6. IsFamily(w, seq + 1)
  BY <1>2, <1>3, <1>4, <1>5 DEF IsFamily
<1>7. SaidIn(w) = SaidIn(existing) <=> w.mapped = existing.mapped /\ w.person = existing.person
  BY DEF SaidIn
<1>8. /\ w.id = id /\ w.touched = seq + 1 /\ w.trust = TrustOf(origin)
      /\ existing.trust = "PERSON" =>
           \/ w.trust = "PERSON" /\ SaidIn(w) = SaidIn(existing)
           \/ \E k \in DOMAIN w.history : w.history[k] = said
  BY <1>2, <1>3, <1>4, <1>7
<1> QED BY <1>1, <1>6, <1>8 DEF said

LEMMA FirstIsWritten ==
    ASSUME NEW seq \in Nat, NEW touched, touched = seq + 1, NEW shape, NEW mapped, NEW person,
           NEW answers, NEW origin
    PROVE  LET w == Remember(None, touched, touched, shape, mapped, person, answers, origin)
           IN  /\ IsFamily(w, seq + 1) /\ w.id = seq + 1 /\ w.touched = seq + 1
               /\ w.trust = TrustOf(origin)
<1> DEFINE fact == [id      |-> touched,
                    touched |-> touched,
                    trust   |-> TrustOf(origin),
                    shape   |-> shape,
                    mapped  |-> mapped,
                    person  |-> IF TrustOf(origin) = "PERSON" THEN person ELSE <<>>,
                    answers |-> answers]
           w == [f \in DOMAIN fact \cup {"history"} |-> IF f = "history" THEN <<>> ELSE fact[f]]
<1>1. w = Remember(None, touched, touched, shape, mapped, person, answers, origin)
  BY Zenon DEF Remember
<1>2. /\ DOMAIN w = FamilyFields /\ w.history = <<>>
      /\ w.id = touched /\ w.touched = touched /\ w.trust = TrustOf(origin)
  BY DEF FamilyFields
<1>3. <<>> \in Seq({})
  OBVIOUS
<1>4. TrustOf(origin) \in Trusts /\ <<>> \in Seq(Range(<<>>))
  BY <1>3, SeqOfItsRange DEF TrustOf, Trusts
<1> HIDE DEF w
<1>5. IsFamily(w, seq + 1)
  BY <1>2, <1>4 DEF IsFamily
<1> QED BY <1>1, <1>2, <1>5

\* A save of what an import has to say loses nothing a person confirmed.
LEMMA SavingKeeps ==
    ASSUME NEW store, IsStore(store), NEW family, NEW shape, NEW mapped, NEW person,
           NEW answers, NEW origin \in Origins, ~NothingToSay(store, origin)
    PROVE  LET after == RememberIn(store, family, shape, mapped, person, answers, origin)
           IN  IsStore(after) /\ NothingLost(store.families, after.families)
<1> DEFINE fs == store.families
           seq == store.seq
           after == RememberIn(store, family, shape, mapped, person, answers, origin)
<1>1. seq \in Nat /\ AreFamilies(fs, seq) /\ Len(fs) <= FamiliesKept
  BY DEF IsStore
<1>2. /\ \A k \in DOMAIN fs : IsFamily(fs[k], seq)
      /\ DOMAIN fs = 1 .. Len(fs) /\ Len(fs) \in Nat
  BY <1>1 DEF AreFamilies
<1>3. ASSUME NEW k \in DOMAIN fs, NEW new, fs[k] \in Range(new)
      PROVE  fs[k].trust = "PERSON" => Survives(fs[k], new)
  BY <1>3 DEF Survives
<1>4. CASE origin = "REUSE"
  <2> DEFINE named == FamilyNamed(fs, family)
  <2>1. CASE named = None
    <3>1. after = [store EXCEPT !.current = None]
      BY <1>4, <2>1, Zenon DEF RememberIn, Reused
    <3>2. after.seq = seq /\ after.families = fs
      BY <3>1
    <3>3. \A k \in DOMAIN fs : fs[k] \in Range(fs)
      BY DEF Range
    <3>4. NothingLost(fs, fs)
      BY <1>3, <3>3 DEF NothingLost, Range
    <3> QED BY <1>1, <3>2, <3>4 DEF IsStore
  <2>2. CASE named # None
    <3> DEFINE w == [named EXCEPT !.touched = seq + 1]
               new == Replaced(fs, w)
    <3>1. PICK k \in DOMAIN fs : named = fs[k]
      BY <1>1, <2>2, FamiliesAreFound
    <3>2. after.seq = seq + 1 /\ after.families = new
      BY <1>4, <2>2 DEF RememberIn, Reused
    <3>3. IsFamily(fs[k], seq)
      BY <1>2
    <3>4. /\ IsFamily(w, seq + 1) /\ w.id = fs[k].id /\ w.touched = seq + 1
          /\ w.trust = fs[k].trust /\ SaidIn(w) = SaidIn(fs[k])
      BY <1>1, <3>1, <3>3 DEF IsFamily, FamilyFields, SaidIn
    <3> HIDE DEF w
    <3>5. /\ AreFamilies(new, seq + 1) /\ Len(new) = Len(fs) /\ w \in Range(new)
          /\ \A j \in DOMAIN fs \ {k} : fs[j] \in Range(new)
      BY <1>1, <3>4, OneReplaced
    <3> HIDE DEF new
    <3>6. fs[k].trust = "PERSON" => Survives(fs[k], new)
      BY <3>4, <3>5 DEF Survives
    <3>7. \A j \in DOMAIN fs : fs[j].trust = "PERSON" => Survives(fs[j], new)
      BY <1>3, <3>5, <3>6
    <3> QED BY <1>1, <3>2, <3>5, <3>7 DEF IsStore, NothingLost, Range
  <2> QED BY <2>1, <2>2
<1>5. CASE origin # "REUSE"
  <2> DEFINE existing == Existing(fs, family, shape, mapped)
             id == IF existing = None THEN seq + 1 ELSE existing.id
             w == Remember(existing, id, seq + 1, shape, mapped, person, answers, origin)
             new == Prune(IF existing = None THEN Append(fs, w) ELSE Replaced(fs, w), id)
  <2>1. after.seq = seq + 1 /\ after.families = new
    BY <1>5 DEF RememberIn
  <2> HIDE DEF new, w, existing
  <2>2. Taught(fs) => TrustOf(origin) = "PERSON"
    BY <1>5 DEF NothingToSay, TrustOf, Origins
  <2>3. CASE existing = None
    <3>1. id = seq + 1 /\ id \in 1 .. (seq + 1)
      BY <1>1, <2>3
    <3>2. /\ IsFamily(w, seq + 1) /\ w.id = seq + 1 /\ w.touched = seq + 1
          /\ w.trust = TrustOf(origin)
      <4>1. w = Remember(None, seq + 1, seq + 1, shape, mapped, person, answers, origin)
        BY <2>3, <3>1, Zenon DEF w
      <4> QED BY <1>1, <4>1, FirstIsWritten
    <3>3. new = Prune(Append(fs, w), w.id)
      BY <2>3, <3>1, <3>2 DEF new
    <3>4. /\ AreFamilies(new, seq + 1) /\ Len(new) <= FamiliesKept
          /\ \A k \in DOMAIN fs : fs[k].trust = "PERSON" =>
               fs[k] \in Range(new) \/ LeftOut(fs[k], fs, new)
      BY <1>1, <2>2, <3>2, <3>3, PruningKeeps
    <3>5. \A k \in DOMAIN fs : fs[k].trust = "PERSON" =>
             Survives(fs[k], new) \/ LeftOut(fs[k], fs, new)
      BY <1>3, <3>4
    <3> QED BY <1>1, <2>1, <3>4, <3>5 DEF IsStore, NothingLost, Range
  <2>4. CASE existing # None
    <3>1. PICK k \in DOMAIN fs : existing = fs[k]
      BY <1>1, <2>4, FamiliesAreFound DEF existing
    <3>2. IsFamily(fs[k], seq) /\ id = fs[k].id /\ id \in 1 .. (seq + 1)
      BY <1>1, <1>2, <2>4, <3>1 DEF IsFamily
    <3>3. /\ IsFamily(w, seq + 1) /\ w.id = fs[k].id /\ w.touched = seq + 1
          /\ fs[k].trust = "PERSON" =>
               \/ w.trust = "PERSON" /\ SaidIn(w) = SaidIn(fs[k])
               \/ \E h \in DOMAIN w.history :
                    w.history[h] = [trust |-> fs[k].trust, mapped |-> fs[k].mapped,
                                    person |-> fs[k].person]
      BY <1>1, <2>4, <3>1, <3>2, WhatIsWritten, SMTT(30) DEF w
    <3> DEFINE put == Replaced(fs, w)
    <3>4. /\ AreFamilies(put, seq + 1) /\ Len(put) = Len(fs) /\ w \in Range(put)
          /\ \A j \in DOMAIN fs \ {k} : fs[j] \in Range(put)
      BY <1>1, <3>3, OneReplaced
    <3> HIDE DEF put
    <3>5. new = put
      BY <1>1, <2>4, <3>4 DEF new, put, Prune
    <3>6. fs[k].trust = "PERSON" => Survives(fs[k], put)
      BY <3>3, <3>4, Zenon DEF Survives
    <3>7. \A j \in DOMAIN fs : fs[j].trust = "PERSON" => Survives(fs[j], put)
      BY <1>3, <3>4, <3>6
    <3> QED BY <1>1, <2>1, <3>4, <3>5, <3>7 DEF IsStore, NothingLost, Range
  <2> QED BY <2>3, <2>4
<1> QED BY <1>4, <1>5

--------------------------------------------------------------------------------
(* The imports of a source *)

WorkFields == {"file", "answers", "fields", "formats", "byHand", "confirmation", "verifiedOn",
               "after", "seen"}

\* What the families were when an import read them is what they still are when it
\* saves, unless they were all forgotten: the lock of the source is not given
\* back in between.
LearnInv ==
  /\ interventions \in Nat
  /\ IsStore(learning)
  /\ DOMAIN at = Import /\ DOMAIN work = Import
  /\ \A i \in Import : DOMAIN work[i] = WorkFields
  /\ \A i \in Import : at[i] \in {"verified", "imported"} => work[i].confirmation.origin \in Origins
  /\ \A i \in Import : at[i] = "imported" =>
       IsStore(work[i].seen) /\ learning \in {work[i].seen, NothingLearned}
  /\ \A i, j \in Import : at[i] = "imported" /\ at[j] = "imported" => i = j

LEMMA NothingIsAStore == IsStore(NothingLearned)
<1>1. <<>> \in Seq({}) /\ DOMAIN <<>> = {} /\ Len(<<>>) = 0
  OBVIOUS
<1>2. <<>> \in Seq(Range(<<>>))
  BY <1>1, SeqOfItsRange
<1>3. AreFamilies(<<>>, 0)
  BY <1>1, <1>2 DEF AreFamilies
<1> QED BY <1>1, <1>3, KeptAssumption DEF IsStore, NothingLearned

LEMMA LearnInvInit == Init => LearnInv
<1> SUFFICES ASSUME Init PROVE LearnInv
  OBVIOUS
<1>1. IsStore(learning)
  BY NothingIsAStore DEF Init
<1>2. \A i \in Import : at[i] = "idle" /\ DOMAIN work[i] = WorkFields
  BY DEF Init, NoWork, WorkFields
<1> QED BY <1>1, <1>2 DEF Init, LearnInv

\* What a confirmation says of its origin.
LEMMA OriginsOfConfirmations ==
    /\ \A file, answers, reading : ConfirmationFrom(file, answers, reading).origin \in Origins
    /\ \A file, reading : ManualConfirmation(file, reading).origin \in Origins
BY DEF ConfirmationFrom, ManualConfirmation, Origins

\* The steps that leave the families alone, import by import.
LEMMA OwnSteps ==
    ASSUME LearnInv, NEW i \in Import,
           \/ Answer(i) \/ MatchByHand(i) \/ Verify(i) \/ Refuse(i) \/ VerifyByHand(i)
           \/ ImportFile(i) \/ FailImport(i) \/ FailToSave(i)
    PROVE  LearnInv' /\ learning' = learning
<1> USE DEF LearnInv
<1>1. ASSUME at' = [at EXCEPT ![i] = "posted"],
             NEW w, DOMAIN w = WorkFields, work' = [work EXCEPT ![i] = w],
             UNCHANGED <<learning, interventions>>
      PROVE  LearnInv' /\ learning' = learning
  BY <1>1
<1>2. ASSUME Finish(i), UNCHANGED <<learning, interventions>>
      PROVE  LearnInv' /\ learning' = learning
  BY <1>2 DEF Finish, Go, NoWork, WorkFields
<1>3. ASSUME at' = [at EXCEPT ![i] = "verified"],
             NEW w, DOMAIN w = WorkFields, w.confirmation.origin \in Origins,
             work' = [work EXCEPT ![i] = w], UNCHANGED <<learning, interventions>>
      PROVE  LearnInv' /\ learning' = learning
  BY <1>3
<1>4. CASE Answer(i)
  <2>1. PICK file, answers, fields, formats :
          work' = [work EXCEPT ![i].file = file, ![i].answers = answers,
                               ![i].fields = fields, ![i].formats = formats]
    <3> DEFINE Reading(file, answers) == Understand(learning, saved, file, answers)
               Answered(file, answers) ==
                 work' = [work EXCEPT ![i].file = file, ![i].answers = answers,
                                      ![i].fields = Reading(file, answers).fields,
                                      ![i].formats = Reading(file, answers).formats]
    <3>1. \E file \in Files : \E answers \in AnswersTo(Reading(file, NoAnswers)) :
            Answered(file, answers)
      BY <1>4, ZenonT(60) DEF Answer
    <3>2. PICK file, answers : Answered(file, answers)
      BY <3>1, Zenon
    <3> QED BY <3>2, Zenon
  <2> DEFINE w == [work[i] EXCEPT !.file = file, !.answers = answers,
                                  !.fields = fields, !.formats = formats]
  <2>2. work' = [work EXCEPT ![i] = w] /\ DOMAIN w = WorkFields
    BY <2>1
  <2>3. at' = [at EXCEPT ![i] = "posted"] /\ UNCHANGED <<learning, interventions>>
    BY <1>4 DEF Answer, Go
  <2> HIDE DEF w
  <2> QED BY <1>1, <2>2, <2>3
<1>5. CASE MatchByHand(i)
  <2>1. PICK file, fields :
          work' = [work EXCEPT ![i].file = file, ![i].byHand = TRUE, ![i].fields = fields]
    BY <1>5, Zenon DEF MatchByHand
  <2> DEFINE w == [work[i] EXCEPT !.file = file, !.byHand = TRUE, !.fields = fields]
  <2>2. work' = [work EXCEPT ![i] = w] /\ DOMAIN w = WorkFields
    BY <2>1
  <2>3. at' = [at EXCEPT ![i] = "posted"] /\ UNCHANGED <<learning, interventions>>
    BY <1>5 DEF MatchByHand, Go
  <2> HIDE DEF w
  <2> QED BY <1>1, <2>2, <2>3
<1>6. CASE Verify(i)
  <2> DEFINE c == ConfirmationFrom(work[i].file, work[i].answers,
                                   Understand(learning, saved, work[i].file, work[i].answers))
             w == [work[i] EXCEPT !.confirmation = c, !.verifiedOn = learning, !.after = interventions]
  <2>1. /\ work' = [work EXCEPT ![i].confirmation = c,
                                ![i].verifiedOn = learning, ![i].after = interventions]
        /\ at' = [at EXCEPT ![i] = "verified"] /\ UNCHANGED <<learning, interventions>>
    BY <1>6, Zenon DEF Verify, Go
  <2>2. c.origin \in Origins
    BY OriginsOfConfirmations, Zenon
  <2> HIDE DEF c
  <2>3. work' = [work EXCEPT ![i] = w] /\ DOMAIN w = WorkFields /\ w.confirmation = c
    BY <2>1 DEF WorkFields
  <2> HIDE DEF w
  <2> QED BY <1>3, <2>1, <2>2, <2>3
<1>7. CASE VerifyByHand(i)
  <2> DEFINE c == ManualConfirmation(work[i].file,
                                     Understand(learning, saved, work[i].file, NoAnswers))
             w == [work[i] EXCEPT !.confirmation = c, !.verifiedOn = learning, !.after = interventions]
  <2>1. /\ work' = [work EXCEPT ![i].confirmation = c,
                                ![i].verifiedOn = learning, ![i].after = interventions]
        /\ at' = [at EXCEPT ![i] = "verified"] /\ UNCHANGED <<learning, interventions>>
    BY <1>7, Zenon DEF VerifyByHand, Go
  <2>2. c.origin \in Origins
    BY OriginsOfConfirmations, Zenon
  <2> HIDE DEF c
  <2>3. work' = [work EXCEPT ![i] = w] /\ DOMAIN w = WorkFields /\ w.confirmation = c
    BY <2>1 DEF WorkFields
  <2> HIDE DEF w
  <2> QED BY <1>3, <2>1, <2>2, <2>3
<1>8. CASE ImportFile(i)
  <2>1. /\ at[i] = "verified" /\ \A j \in Import : at[j] # "imported"
        /\ at' = [at EXCEPT ![i] = "imported"]
        /\ work' = [work EXCEPT ![i].seen = learning]
        /\ UNCHANGED <<learning, interventions>>
    BY <1>8 DEF ImportFile, Go
  <2>2. /\ \A j \in Import : DOMAIN work'[j] = WorkFields
        /\ work'[i].seen = learning /\ work'[i].confirmation = work[i].confirmation
        /\ \A j \in Import \ {i} : work'[j] = work[j]
    BY <2>1 DEF WorkFields
  <2>3. \A j \in Import : at'[j] = "imported" <=> j = i
    BY <2>1
  <2> QED BY <2>1, <2>2, <2>3
<1>9. CASE Refuse(i)
  BY <1>2, <1>9 DEF Refuse
<1>10. CASE FailImport(i)
  BY <1>2, <1>10 DEF FailImport
<1>11. CASE FailToSave(i)
  BY <1>2, <1>11 DEF FailToSave
<1> QED BY <1>4, <1>5, <1>6, <1>7, <1>8, <1>9, <1>10, <1>11

\* A save is made on the families as they are, or on those that were forgotten
\* since, when there is nothing left to lose.
LEMMA SavingStep ==
    ASSUME LearnInv, NEW i \in Import, SaveConfiguration(i)
    PROVE  LearnInv' /\ NothingLost(learning.families, learning'.families)
<1> DEFINE w == work[i]
<1>1. /\ at[i] = "imported" /\ Finish(i) /\ UNCHANGED interventions
      /\ IsStore(w.seen) /\ learning \in {w.seen, NothingLearned}
      /\ w.confirmation.origin \in Origins
  BY DEF SaveConfiguration, LearnInv
<1>2. \A j \in Import : at'[j] # "imported" /\ (at'[j] = "verified" => at[j] = "verified" /\ j # i)
  BY <1>1 DEF Finish, Go, LearnInv
<1>3. /\ DOMAIN at' = Import /\ DOMAIN work' = Import
      /\ \A j \in Import : DOMAIN work'[j] = WorkFields
      /\ \A j \in Import \ {i} : work'[j] = work[j]
  BY <1>1 DEF Finish, Go, LearnInv, NoWork, WorkFields
<1>4. IsStore(learning') /\ NothingLost(learning.families, learning'.families)
  <2>1. CASE learning' = learning
    <3>1. IsStore(learning) /\ NothingLost(learning.families, learning.families)
      BY DEF LearnInv, NothingLost, Survives
    <3> QED BY <2>1, <3>1
  <2>2. CASE ~NothingToSay(w.seen, w.confirmation.origin) /\ learning' = Learned(w)
    <3>1. \E family, shape, mapped, person, answers :
            learning' = RememberIn(w.seen, family, shape, mapped, person, answers,
                                   w.confirmation.origin)
      BY <2>2, Zenon DEF Learned
    <3>2. IsStore(learning') /\ NothingLost(w.seen.families, learning'.families)
      BY <1>1, <2>2, <3>1, SavingKeeps
    <3>3. CASE learning = w.seen
      BY <3>2, <3>3
    <3>4. CASE learning = NothingLearned
      BY <3>2, <3>4 DEF NothingLearned, NothingLost, Range
    <3> QED BY <1>1, <3>3, <3>4
  <2> QED BY <2>1, <2>2, Zenon DEF SaveConfiguration
<1> QED BY <1>1, <1>2, <1>3, <1>4 DEF LearnInv

LEMMA LearnStep ==
    ASSUME LearnInv, [Next]_vars
    PROVE  /\ LearnInv'
           /\ interventions' = interventions => NothingLost(learning.families, learning'.families)
<1>1. ASSUME learning' = learning PROVE NothingLost(learning.families, learning'.families)
  BY <1>1 DEF NothingLost, Survives
<1>2. ASSUME NEW i \in Import,
             \/ Answer(i) \/ MatchByHand(i) \/ Verify(i) \/ Refuse(i) \/ VerifyByHand(i)
             \/ ImportFile(i) \/ FailImport(i) \/ FailToSave(i)
      PROVE  LearnInv' /\ NothingLost(learning.families, learning'.families)
  BY <1>1, <1>2, OwnSteps
<1>3. ASSUME NEW i \in Import, SaveConfiguration(i)
      PROVE  LearnInv' /\ NothingLost(learning.families, learning'.families)
  BY <1>3, SavingStep
<1>4. CASE Forget \/ MapCanonically
  <2>1. learning' = NothingLearned /\ interventions' = interventions + 1 /\ UNCHANGED <<at, work>>
    BY <1>4 DEF Forget, MapCanonically
  <2>2. interventions' # interventions /\ interventions' \in Nat
    BY <2>1 DEF LearnInv
  <2> QED BY <2>1, <2>2, NothingIsAStore DEF LearnInv
<1>5. CASE UNCHANGED vars
  <2>1. UNCHANGED <<learning, at, work, interventions>>
    BY <1>5 DEF vars
  <2> QED BY <1>1, <2>1 DEF LearnInv
<1> QED BY <1>2, <1>3, <1>4, <1>5, Zenon DEF Next

\* LearningIsSound: what a source has learned is a set of families that can be told
\* apart, and an import saves on the families it read (SmartImportService.remember).
THEOREM LearningIsSound == Spec => []LearnInv
<1>1. LearnInv /\ [Next]_vars => LearnInv'
  BY LearnStep
<1> QED BY <1>1, LearnInvInit, PTL DEF Spec

\* NothingConfirmedIsLost: what a person confirmed stays, or stays in the history of
\* its family, or its family was the least recently used of a full source
\* (remember_in of source_learning.py).
THEOREM NothingConfirmedIsLost == Spec => ConfirmationsAreKept
<1>1. LearnInv /\ [Next]_vars
        => (interventions' = interventions => NothingLost(learning.families, learning'.families))
  BY LearnStep
<1>2. LearnInv /\ [Next]_vars
        => [interventions' = interventions => NothingLost(learning.families, learning'.families)]_vars
  BY <1>1
<1> QED BY <1>2, LearningIsSound, PTL DEF Spec, ConfirmationsAreKept

--------------------------------------------------------------------------------
(* Which family a file is *)

LEMMA ImagesAreFinite ==
    ASSUME NEW S, IsFiniteSet(S), NEW f
    PROVE  IsFiniteSet({f[x] : x \in S})
<1> DEFINE T == {f[x] : x \in S}
           g == [x \in S |-> f[x]]
<1>1. g \in Surjection(S, T)
  BY DEF Surjection
<1> QED BY <1>1, FS_Surjection, Zenon

\* A strict total order has a first of any finite set: the one with the fewest before it.
LEMMA FirstInOrder ==
    ASSUME NEW S, IsFiniteSet(S), S # {}, NEW R,
           \A i \in S : <<i, i>> \notin R,
           \A i, j \in S : i # j => <<i, j>> \in R \/ <<j, i>> \in R,
           \A i, j, k \in S : <<i, j>> \in R /\ <<j, k>> \in R => <<i, k>> \in R
    PROVE  \E b \in S : \A c \in S \ {b} : <<b, c>> \in R
<1> DEFINE Before(i) == {j \in S : <<j, i>> \in R}
           T == {Cardinality(Before(i)) : i \in S}
<1>1. \A i \in S : IsFiniteSet(Before(i)) /\ Cardinality(Before(i)) \in Nat
  BY FS_Subset, FS_CardinalityType
<1> HIDE DEF Before
<1>2. PICK b \in S : \A i \in S : Cardinality(Before(b)) <= Cardinality(Before(i))
  <2>1. T \in SUBSET Nat /\ T # {}
    BY <1>1
  <2>2. \E m \in T : \A n \in T : m <= n
    BY <2>1, SmallestOf, Zenon
  <2> QED BY <2>2
<1>3. ASSUME NEW c \in S \ {b}, <<b, c>> \notin R PROVE FALSE
  <2>1. c \in Before(b) /\ c \notin Before(c) /\ Before(c) \subseteq Before(b)
    BY <1>3 DEF Before
  <2>2. /\ Cardinality(Before(c)) <= Cardinality(Before(b))
        /\ Cardinality(Before(b)) = Cardinality(Before(c)) => Before(b) = Before(c)
    BY <1>1, <2>1, FS_Subset, Zenon
  <2>3. Cardinality(Before(b)) <= Cardinality(Before(c))
    BY <1>2, <1>3
  <2>4. Cardinality(Before(b)) = Cardinality(Before(c))
    BY <1>1, <1>3, <2>2, <2>3
  <2> QED BY <2>1, <2>2, <2>4
<1> QED BY <1>3

\* What a family remembers is finite, and what a person said of it is what it says.
IsKnown(m) ==
  /\ IsFiniteSet(DOMAIN m.mapped) /\ IsFiniteSet(DOMAIN m.shape)
  /\ \A f \in DOMAIN m.person : f \in DOMAIN m.mapped /\ m.person[f] = m.mapped[f]

IsTable(columns) == columns \in Seq(Range(columns))

\* A column that answers again for a field: it has the name the field is remembered by,
\* or the engine reads it so.
Answers(m, columns, p, field) ==
  /\ p \in DOMAIN columns /\ field \in DOMAIN m.person
  /\ \/ columns[p].key = m.mapped[field]
     \/ columns[p].field = field /\ columns[p].level \in {"HIGH", "MEDIUM"}

LEMMA PlacesAreColumns ==
    ASSUME NEW m, NEW columns
    PROVE  LET carriers == CarriersIn(m, columns)
               places == PlacesIn(m, columns, carriers)
           IN  /\ DOMAIN places \subseteq DOMAIN m.mapped
               /\ \A f \in DOMAIN places :
                    /\ places[f] \in DOMAIN columns
                    /\ \/ columns[places[f]].key = m.mapped[f]
                       \/ /\ columns[places[f]].field = f
                          /\ columns[places[f]].level \in {"HIGH", "MEDIUM"}
<1> DEFINE carriers == CarriersIn(m, columns)
           anchored == Cardinality(Single(carriers)) >= Enough(Cardinality(DOMAIN carriers))
           alias == [f \in {g \in DOMAIN carriers : anchored /\ carriers[g] = {}} |->
                       {p \in DOMAIN columns \ UNION Range(carriers) :
                          /\ ~columns[p].personal
                          /\ columns[p].key \notin KeysOf(m.shape)
                          /\ columns[p].field = f
                          /\ columns[p].level \in {"HIGH", "MEDIUM"}}]
           Only(set) == CHOOSE p \in set : TRUE
           named == [f \in Single(carriers) |-> Only(carriers[f])]
           read == [f \in Single(alias) |-> Only(alias[f])]
           places == PlacesIn(m, columns, carriers)
<1>1. places = Joined(named, read)
  BY Zenon DEF PlacesIn
<1>2. \A set : Cardinality(set) = 1 => Only(set) \in set
  <2>1. \A set : Cardinality(set) = 1 => set # {}
    BY FS_EmptySet
  <2> QED BY <2>1, Zenon
<1>3. /\ DOMAIN carriers = DOMAIN m.mapped
      /\ \A f \in DOMAIN carriers : \A p \in carriers[f] :
           p \in DOMAIN columns /\ columns[p].key = m.mapped[f]
  BY DEF CarriersIn
<1> HIDE DEF carriers
<1>4. /\ DOMAIN alias \subseteq DOMAIN carriers
      /\ \A f \in DOMAIN alias : \A p \in alias[f] :
           p \in DOMAIN columns /\ columns[p].field = f /\ columns[p].level \in {"HIGH", "MEDIUM"}
  OBVIOUS
<1> HIDE DEF alias, Only
<1>5. /\ DOMAIN named \subseteq DOMAIN carriers
      /\ \A f \in DOMAIN named : named[f] \in carriers[f]
  BY <1>2 DEF Single
<1>6. /\ DOMAIN read \subseteq DOMAIN alias
      /\ \A f \in DOMAIN read : read[f] \in alias[f]
  BY <1>2 DEF Single
<1> HIDE DEF named, read
<1>7. /\ DOMAIN places = DOMAIN named \cup DOMAIN read
      /\ \A f \in DOMAIN places : places[f] = IF f \in DOMAIN named THEN named[f] ELSE read[f]
  BY <1>1 DEF Joined
<1> HIDE DEF places
<1>8. DOMAIN places \subseteq DOMAIN m.mapped
  BY <1>3, <1>4, <1>5, <1>6, <1>7
<1>9. ASSUME NEW f \in DOMAIN places
      PROVE  /\ places[f] \in DOMAIN columns
             /\ \/ columns[places[f]].key = m.mapped[f]
                \/ columns[places[f]].field = f /\ columns[places[f]].level \in {"HIGH", "MEDIUM"}
  <2>1. CASE f \in DOMAIN named
    BY <1>3, <1>5, <1>7, <1>9, <2>1
  <2>2. CASE f \notin DOMAIN named
    BY <1>4, <1>6, <1>7, <1>9, <2>2
  <2> QED BY <2>1, <2>2
<1> QED BY <1>8, <1>9 DEF places, carriers

\* How a family fits a file is measured in integers, and what it answers again is in the file.
LEMMA MatchesAreMeasured ==
    ASSUME NEW m, IsKnown(m), NEW columns, IsTable(columns)
    PROVE  LET match == MatchSource(m, columns)
           IN  /\ match.residual \in Int /\ match.score \in Int
               /\ \A p \in DOMAIN match.proven : Answers(m, columns, p, match.proven[p])
<1> DEFINE carriers == CarriersIn(m, columns)
           places == PlacesIn(m, columns, carriers)
           named == {p \in DOMAIN columns : ~columns[p].personal}
           current == {columns[p].key : p \in named}
           used == UNION Range(carriers) \cup Range(places)
           known == KeysOf(m.shape)
           aliased == DOMAIN places \ Single(carriers)
           doubled == {f \in DOMAIN carriers : Cardinality(carriers[f]) > 1}
           wrong == {f \in DOMAIN places : Disagrees(m, f, columns[places[f]])}
           fresh == {p \in named \ used : columns[p].key \notin KeysOf(m.shape)}
           moved == Moved(m.shape, columns, current)
           match == MatchSource(m, columns)
<1>1. match = Verdict(m, known, current, places, aliased, doubled, wrong, fresh, moved)
  BY Zenon DEF MatchSource, MatchPlaced, Compared
<1>2. IsFiniteSet(DOMAIN columns) /\ IsFiniteSet(DOMAIN m.mapped)
  <2>1. DOMAIN columns = 1 .. Len(columns) /\ Len(columns) \in Nat
    BY DEF IsTable
  <2> QED BY <2>1, FS_Interval DEF IsKnown
<1>3. DOMAIN carriers = DOMAIN m.mapped /\ DOMAIN places \subseteq DOMAIN m.mapped
  BY PlacesAreColumns DEF CarriersIn
<1>4. \A f \in DOMAIN places :
        /\ places[f] \in DOMAIN columns
        /\ \/ columns[places[f]].key = m.mapped[f]
           \/ columns[places[f]].field = f /\ columns[places[f]].level \in {"HIGH", "MEDIUM"}
  BY PlacesAreColumns
<1>5. IsFiniteSet(known) /\ IsFiniteSet(current) /\ IsFiniteSet(fresh)
  <2>1. IsFiniteSet({m.shape[p].key : p \in DOMAIN m.shape})
    <3> DEFINE key == [p \in DOMAIN m.shape |-> m.shape[p].key]
    <3>1. IsFiniteSet(DOMAIN m.shape) /\ \A p \in DOMAIN m.shape : key[p] = m.shape[p].key
      BY DEF IsKnown
    <3> HIDE DEF key
    <3>2. IsFiniteSet({key[p] : p \in DOMAIN m.shape})
      BY <3>1, ImagesAreFinite, Zenon
    <3> QED BY <3>1, <3>2
  <2>2. IsFiniteSet(named) /\ IsFiniteSet(fresh)
    BY <1>2, FS_Subset
  <2>3. IsFiniteSet(current)
    <3> DEFINE key == [p \in named |-> columns[p].key]
    <3> HIDE DEF named
    <3>1. \A p \in named : key[p] = columns[p].key
      OBVIOUS
    <3> HIDE DEF key
    <3>2. IsFiniteSet({key[p] : p \in named})
      BY <2>2, ImagesAreFinite, Zenon
    <3> QED BY <3>1, <3>2
  <2>4. known \in SUBSET {m.shape[p].key : p \in DOMAIN m.shape}
    BY DEF KeysOf
  <2> QED BY <2>1, <2>2, <2>3, <2>4, FS_Subset, Zenon
<1>6. /\ aliased \in SUBSET DOMAIN m.mapped /\ doubled \in SUBSET DOMAIN m.mapped
      /\ wrong \in SUBSET DOMAIN m.mapped
      /\ DOMAIN m.mapped \ (DOMAIN places \cup doubled) \in SUBSET DOMAIN m.mapped
  BY <1>3
<1> HIDE DEF carriers, places, named, current, used, known, aliased, doubled, fresh, moved, match
<1>7. /\ IsFiniteSet(aliased) /\ IsFiniteSet(doubled) /\ IsFiniteSet(wrong)
      /\ IsFiniteSet(DOMAIN m.mapped \ (DOMAIN places \cup doubled))
  BY <1>2, <1>6, FS_Subset, Zenon
<1>8. \A p \in DOMAIN match.proven : Answers(m, columns, p, match.proven[p])
  <2> DEFINE proven == {f \in DOMAIN places \ wrong : f \in DOMAIN m.person}
             here == {places[f] : f \in proven}
  <2>1. match.proven = [p \in here |-> CHOOSE f \in proven : places[f] = p]
    BY <1>1, Zenon DEF Verdict
  <2>2. ASSUME NEW p \in DOMAIN match.proven PROVE Answers(m, columns, p, match.proven[p])
    <3>1. p \in here
      BY <2>1, <2>2
    <3>2. match.proven[p] \in proven /\ places[match.proven[p]] = p
      BY <2>1, <3>1
    <3> QED BY <1>4, <3>2 DEF Answers
  <2> QED BY <2>2
<1>9. match.residual \in Int /\ match.score \in Int
  <2> DEFINE missing == DOMAIN m.mapped \ (DOMAIN places \cup doubled)
             renamed == {places[f] : f \in aliased}
             common == Cardinality(known \cap current) + Cardinality(aliased)
             union == Cardinality(known \cup current) - Cardinality(aliased)
  <2>1. /\ match.score = Thousandths(common, union)
        /\ match.residual = Cardinality(fresh) + Cardinality(missing) + Cardinality(wrong)
                              + Cardinality(doubled) + Cardinality(renamed)
    BY <1>1 DEF Verdict
  <2>2. IsFiniteSet(renamed)
    BY <1>7, ImagesAreFinite, Zenon
  <2>3. IsFiniteSet(known \cap current) /\ IsFiniteSet(known \cup current)
    <3>1. known \cap current \in SUBSET known
      OBVIOUS
    <3> QED BY <1>5, <3>1, FS_Subset, FS_Union, Zenon
  <2> HIDE DEF missing, renamed
  <2>4. /\ Cardinality(fresh) \in Nat /\ Cardinality(missing) \in Nat
        /\ Cardinality(wrong) \in Nat /\ Cardinality(doubled) \in Nat
        /\ Cardinality(renamed) \in Nat
    BY <1>5, <1>7, <2>2, FS_CardinalityType, Zenon DEF missing
  <2>5. /\ Cardinality(known \cap current) \in Nat /\ Cardinality(known \cup current) \in Nat
        /\ Cardinality(aliased) \in Nat
    BY <1>7, <2>3, FS_CardinalityType, Zenon
  <2>6. common \in Int /\ union \in Int
    BY <2>5
  <2> HIDE DEF common, union
  <2>7. Thousandths(common, union) \in Int
    BY <2>6 DEF Thousandths
  <2> QED BY <2>1, <2>4, <2>7
<1> QED BY <1>8, <1>9 DEF match

\* The families of a source, compared with a file, have a best and a nearest one.
LEMMA AFamilyIsChosen ==
    ASSUME NEW store, IsStore(store), \A k \in DOMAIN store.families : IsKnown(store.families[k]),
           NEW columns, IsTable(columns)
    PROVE  LET choice == ChooseFamily(store.families, columns)
           IN  \/ choice.memory = None
               \/ \E k \in DOMAIN store.families :
                    /\ choice.memory = store.families[k]
                    /\ choice.match = MatchSource(store.families[k], columns)
<1> DEFINE fs == store.families
           matches == [i \in DOMAIN fs |-> MatchSource(fs[i], columns)]
           choice == ChooseFamily(fs, columns)
           eligible == {i \in DOMAIN fs : ~Different(matches[i])}
<1>1. choice = ChooseAmong(fs, matches)
  BY Zenon DEF ChooseFamily
<1>2. \A i \in DOMAIN fs :
        /\ matches[i].residual \in Int /\ matches[i].score \in Int
        /\ matches[i] = MatchSource(fs[i], columns)
  BY MatchesAreMeasured
<1>3. /\ DOMAIN fs = 1 .. Len(fs) /\ Len(fs) \in Nat
      /\ \A i \in DOMAIN fs : fs[i].touched \in Int
      /\ \A i, j \in DOMAIN fs : i # j => fs[i].touched # fs[j].touched
      /\ fs = <<>> <=> DOMAIN fs = {}
  <2>1. AreFamilies(fs, store.seq) /\ store.seq \in Nat
    BY DEF IsStore
  <2>2. fs \in Seq(Range(fs))
    BY <2>1 DEF AreFamilies
  <2>3. fs = <<>> <=> DOMAIN fs = {}
    BY <2>2
  <2>4. DOMAIN fs = 1 .. Len(fs) /\ Len(fs) \in Nat
    BY <2>2
  <2>5. \A i \in DOMAIN fs : fs[i].touched \in Int
    BY <2>1 DEF AreFamilies, IsFamily
  <2>6. \A i, j \in DOMAIN fs : i # j => fs[i].touched # fs[j].touched
    BY <2>1 DEF AreFamilies
  <2> QED BY <2>3, <2>4, <2>5, <2>6, Zenon
<1> HIDE DEF matches, choice
<1>4. IsFiniteSet(DOMAIN fs) /\ IsFiniteSet(eligible)
  <2>1. IsFiniteSet(DOMAIN fs)
    <3>1. IsFiniteSet(1 .. Len(fs))
      BY <1>3, FS_Interval
    <3> QED BY <1>3, <3>1, Zenon
  <2>2. eligible \in SUBSET DOMAIN fs
    OBVIOUS
  <2> QED BY <2>1, <2>2, FS_Subset, Zenon
<1>5. CASE fs = <<>>
  BY <1>1, <1>5 DEF ChooseAmong, NoChoice, choice
<1>6. CASE fs # <<>> /\ eligible = {}
  <2> DEFINE Nearer(i, j) ==
               \/ matches[i].score > matches[j].score
               \/ matches[i].score = matches[j].score /\ fs[i].touched > fs[j].touched
             near == CHOOSE i \in DOMAIN fs : \A j \in DOMAIN fs \ {i} : Nearer(i, j)
  <2>1. choice = Chosen(fs[near], matches[near], FALSE)
    BY <1>1, <1>6, Zenon DEF ChooseAmong, Closest
  <2>2. \E i \in DOMAIN fs : \A j \in DOMAIN fs \ {i} : Nearer(i, j)
    <3> DEFINE R == {q \in (DOMAIN fs) \X (DOMAIN fs) : Nearer(q[1], q[2])}
    <3>1. \A i, j \in DOMAIN fs : <<i, j>> \in R <=> Nearer(i, j)
      OBVIOUS
    <3>2. /\ \A i \in DOMAIN fs : ~Nearer(i, i)
          /\ \A i, j \in DOMAIN fs : i # j => Nearer(i, j) \/ Nearer(j, i)
          /\ \A i, j, k \in DOMAIN fs : Nearer(i, j) /\ Nearer(j, k) => Nearer(i, k)
      <4>1. /\ \A i \in DOMAIN fs : ~Nearer(i, i)
            /\ \A i, j \in DOMAIN fs : i # j => Nearer(i, j) \/ Nearer(j, i)
        BY <1>2, <1>3, SMTT(30)
      <4>2. ASSUME NEW i \in DOMAIN fs, NEW j \in DOMAIN fs, NEW k \in DOMAIN fs,
                   Nearer(i, j), Nearer(j, k)
            PROVE  Nearer(i, k)
        <5>1. /\ matches[i].score \in Int /\ fs[i].touched \in Int
              /\ matches[j].score \in Int /\ fs[j].touched \in Int
              /\ matches[k].score \in Int /\ fs[k].touched \in Int
          BY <1>2, <1>3, <4>2
        <5> QED BY <4>2, <5>1
      <4> QED BY <4>1, <4>2
    <3> HIDE DEF R, Nearer
    <3>3. DOMAIN fs # {}
      BY <1>3, <1>6
    <3>4. \E b \in DOMAIN fs : \A c \in DOMAIN fs \ {b} : <<b, c>> \in R
      BY <1>4, <3>1, <3>2, <3>3, FirstInOrder
    <3> QED BY <3>1, <3>4
  <2>3. near \in DOMAIN fs
    BY <2>2, Zenon
  <2> HIDE DEF near
  <2> QED BY <1>2, <2>1, <2>3 DEF Chosen, choice
<1>7. CASE fs # <<>> /\ eligible # {}
  <2> DEFINE Better(i, j) ==
               \/ matches[i].residual < matches[j].residual
               \/ matches[i].residual = matches[j].residual /\ matches[i].score > matches[j].score
               \/ /\ matches[i].residual = matches[j].residual
                  /\ matches[i].score = matches[j].score
                  /\ fs[i].touched > fs[j].touched
             best == CHOOSE i \in eligible : \A j \in eligible \ {i} : Better(i, j)
  <2>1. choice = Winner(fs, matches, eligible)
    BY <1>1, <1>7, Zenon DEF ChooseAmong
  <2>2. \/ choice = Chosen(fs[best], matches[best], IsRevision(matches[best]))
        \/ choice = [NoChoice EXCEPT !.ambiguous = TRUE]
    BY <2>1, Zenon DEF Winner
  <2>3. \E i \in eligible : \A j \in eligible \ {i} : Better(i, j)
    <3> DEFINE R == {q \in (DOMAIN fs) \X (DOMAIN fs) : Better(q[1], q[2])}
    <3>1. \A i, j \in DOMAIN fs : <<i, j>> \in R <=> Better(i, j)
      OBVIOUS
    <3>2. /\ \A i \in DOMAIN fs : ~Better(i, i)
          /\ \A i, j \in DOMAIN fs : i # j => Better(i, j) \/ Better(j, i)
          /\ \A i, j, k \in DOMAIN fs : Better(i, j) /\ Better(j, k) => Better(i, k)
      <4>1. /\ \A i \in DOMAIN fs : ~Better(i, i)
            /\ \A i, j \in DOMAIN fs : i # j => Better(i, j) \/ Better(j, i)
        BY <1>2, <1>3, SMTT(30)
      <4>2. ASSUME NEW i \in DOMAIN fs, NEW j \in DOMAIN fs, NEW k \in DOMAIN fs,
                   Better(i, j), Better(j, k)
            PROVE  Better(i, k)
        <5>1. /\ matches[i].residual \in Int /\ matches[i].score \in Int /\ fs[i].touched \in Int
              /\ matches[j].residual \in Int /\ matches[j].score \in Int /\ fs[j].touched \in Int
              /\ matches[k].residual \in Int /\ matches[k].score \in Int /\ fs[k].touched \in Int
          BY <1>2, <1>3, <4>2
        <5> QED BY <4>2, <5>1
      <4> QED BY <4>1, <4>2
    <3>3. \A i \in eligible : i \in DOMAIN fs
      OBVIOUS
    <3> HIDE DEF R, Better, eligible
    <3>4. \E b \in eligible : \A c \in eligible \ {b} : <<b, c>> \in R
      BY <1>4, <1>7, <3>1, <3>2, <3>3, FirstInOrder, SMTT(30)
    <3> QED BY <3>1, <3>3, <3>4
  <2>4. best \in DOMAIN fs
    BY <2>3, Zenon
  <2> HIDE DEF best
  <2> QED BY <1>2, <2>2, <2>4 DEF Chosen, NoChoice, choice
<1> QED BY <1>5, <1>6, <1>7

--------------------------------------------------------------------------------
(* What a file is read with *)

\* Of every family it is known what it says, and the current one was used last.
IsRemembered(store) ==
  \A k \in DOMAIN store.families :
    LET m == store.families[k]
    IN  IsKnown(m) /\ (m.id = store.current => m.touched = store.seq)

\* A reading without a question: its decision is the saved matching's or the proposal's.
LEMMA ReadingsUnfolded ==
    ASSUME NEW store, NEW matching, NEW file
    PROVE  LET reading  == Understand(store, matching, file, NoAnswers)
               choice   == ChooseFamily(store.families, file.columns)
               reuse    == choice.memory # None /\ Reusable(choice.memory, choice.match)
               proposal == WithAnswers(file.columns,
                             Joined(NoAnswers.fields, IF reuse THEN choice.match.proven ELSE <<>>))
               known    == RecognizedByProfile(store, matching, file.columns, choice, NoAnswers)
           IN  /\ reading.choice = choice
               /\ reading.fields = IF known THEN DecisionOf(matching, file.columns)
                                   ELSE Decided(proposal)
               /\ reading.level = "READY" => known \/ Proven(proposal)
<1> DEFINE choice   == ChooseFamily(store.families, file.columns)
           reuse    == choice.memory # None /\ Reusable(choice.memory, choice.match)
           reused   == IF reuse THEN choice.match.proven ELSE <<>>
           proposal == WithAnswers(file.columns, Joined(NoAnswers.fields, reused))
           known    == RecognizedByProfile(store, matching, file.columns, choice, NoAnswers)
           fields   == IF known THEN DecisionOf(matching, file.columns) ELSE Decided(proposal)
           reading  == Understand(store, matching, file, NoAnswers)
<1>1. \E doubted, formats :
        reading = Proposed(file, NoAnswers, proposal, choice, reused, doubted, known, fields, formats)
  BY Zenon DEF Understand, ReadAs, ReadWith
<1> HIDE DEF choice, proposal, reused, known, fields, reading
<1>2. PICK doubted, formats :
        reading = Proposed(file, NoAnswers, proposal, choice, reused, doubted, known, fields, formats)
  BY <1>1, Zenon
<1> DEFINE unsure == Ambiguous(proposal) \cup DOMAIN doubted \cup (IF known THEN {} ELSE Unsure(proposal))
           unclear == ~known /\ file.unproven /\ formats = {}
           held == Held(proposal) /\ ~RecognizedByFamily(choice, NoAnswers)
           level == LevelOf(Lacking(proposal) # {}, unsure # {} \/ unclear,
                            Complete(fields) /\ ~held /\ (known \/ Proven(proposal)))
<1>3. reading.level = level /\ reading.choice = choice /\ reading.fields = fields
  <2>1. \E offered :
          reading = [level   |-> level, fields |-> fields, formats |-> formats, asked |-> unsure,
                     offered |-> offered, unclear |-> unclear, choice |-> choice, reused |-> reused]
    BY <1>2, Zenon DEF Proposed
  <2> HIDE DEF level, unsure, unclear
  <2> QED BY <2>1
<1>4. reading.choice = choice /\ reading.fields = fields
  BY <1>3
<1>5. reading.level = "READY" => known \/ Proven(proposal)
  BY <1>3 DEF LevelOf
<1> QED BY <1>4, <1>5, Zenon DEF choice, reuse, reused, proposal, known, fields, reading

LEMMA FieldsAreOfColumns ==
    ASSUME NEW store, NEW matching, NEW file, NEW answers
    PROVE  DOMAIN Understand(store, matching, file, answers).fields \subseteq DOMAIN file.columns
<1> DEFINE reading == Understand(store, matching, file, answers)
<1>1. \E proposal, choice, reused, doubted, known, formats, asked :
        /\ proposal = WithAnswers(file.columns, asked)
        /\ reading = Proposed(file, answers, proposal, choice, reused, doubted, known,
             IF known THEN DecisionOf(matching, file.columns) ELSE Decided(proposal), formats)
  BY ZenonT(60) DEF Understand, ReadAs, ReadWith
<1> HIDE DEF reading
<1>2. PICK proposal, choice, reused, doubted, known, formats, asked :
        /\ proposal = WithAnswers(file.columns, asked)
        /\ reading = Proposed(file, answers, proposal, choice, reused, doubted, known,
             IF known THEN DecisionOf(matching, file.columns) ELSE Decided(proposal), formats)
  BY <1>1, Zenon
<1>3. \A fields : Proposed(file, answers, proposal, choice, reused, doubted, known,
                           fields, formats).fields = fields
  BY DEF Proposed
<1>4. reading.fields = IF known THEN DecisionOf(matching, file.columns) ELSE Decided(proposal)
  BY <1>2, <1>3, ZenonT(60)
<1>5. /\ DOMAIN DecisionOf(matching, file.columns) \subseteq DOMAIN file.columns
      /\ DOMAIN Decided(proposal) \subseteq DOMAIN file.columns
  BY <1>2 DEF DecisionOf, Decided, WithAnswers
<1> QED BY <1>4, <1>5 DEF reading

\* Who decided a column that is read without a question.
LEMMA ReadingsHaveAnAuthor ==
    ASSUME NEW store, IsStore(store), IsRemembered(store), NEW matching,
           NEW file, IsTable(file.columns),
           Understand(store, matching, file, NoAnswers).level = "READY",
           NEW p \in DOMAIN Understand(store, matching, file, NoAnswers).fields
    PROVE  LET reading == Understand(store, matching, file, NoAnswers)
               memory  == reading.choice.memory
               field   == reading.fields[p]
               key     == file.columns[p].key
           IN  \/ field \notin Needed
               \/ file.columns[p].field = field /\ file.columns[p].level # "LOW"
               \/ /\ memory # None
                  /\ \/ Confirmed(memory, field, key)
                     \/ LastReadSo(store, matching, memory, field, key)
<1> DEFINE columns  == file.columns
           choice   == ChooseFamily(store.families, columns)
           memory   == choice.memory
           reuse    == memory # None /\ Reusable(memory, choice.match)
           reused   == IF reuse THEN choice.match.proven ELSE <<>>
           asked    == Joined(NoAnswers.fields, reused)
           proposal == WithAnswers(columns, asked)
           known    == RecognizedByProfile(store, matching, columns, choice, NoAnswers)
           reading  == Understand(store, matching, file, NoAnswers)
           field    == reading.fields[p]
           key      == columns[p].key
<1>1. /\ reading.choice = choice
      /\ reading.fields = IF known THEN DecisionOf(matching, columns) ELSE Decided(proposal)
      /\ known \/ Proven(proposal)
  BY ReadingsUnfolded
<1>2. \/ memory = None
      \/ \E k \in DOMAIN store.families :
           /\ memory = store.families[k]
           /\ choice.match = MatchSource(store.families[k], columns)
  BY AFamilyIsChosen DEF IsRemembered
<1>3. DOMAIN asked = DOMAIN reused /\ \A q \in DOMAIN reused : asked[q] = reused[q]
  BY DEF Joined, NoAnswers
<1> HIDE DEF choice, asked, known, reading, proposal
<1>4. CASE known
  <2>1. memory # None /\ memory.trust = "PERSON" /\ store.current = memory.id
    BY <1>4 DEF known, RecognizedByProfile, RecognizedByFamily, Reusable
  <2>2. memory.touched = store.seq
    BY <1>2, <2>1 DEF IsRemembered
  <2>3. field \in DOMAIN matching.fields /\ matching.fields[field] = key
    <3>1. p \in DOMAIN DecisionOf(matching, columns) /\ field = DecisionOf(matching, columns)[p]
      BY <1>1, <1>4 DEF reading
    <3>2. \E f \in DOMAIN matching.fields : matching.fields[f] = columns[p].key
      BY <3>1 DEF DecisionOf, Range
    <3>3. field = CHOOSE f \in DOMAIN matching.fields : matching.fields[f] = columns[p].key
      BY <3>1 DEF DecisionOf
    <3> QED BY <3>2, <3>3, Zenon
  <2>4. LastReadSo(store, matching, memory, field, key)
    BY <2>1, <2>2, <2>3 DEF LastReadSo
  <2> QED BY <1>1, <2>1, <2>4, Zenon DEF reading
<1>5. CASE ~known
  <2>1. p \in DOMAIN proposal /\ proposal[p].field # None /\ field = proposal[p].field
    BY <1>1, <1>5 DEF Decided, reading
  <2>2. DOMAIN proposal = DOMAIN columns
    BY DEF proposal, WithAnswers
  <2>3. CASE p \in DOMAIN reused
    <3>1. field = reused[p]
      BY <1>3, <2>1, <2>2, <2>3 DEF proposal, WithAnswers
    <3>2. reuse /\ reused = choice.match.proven
      BY <2>3
    <3>3. PICK k \in DOMAIN store.families :
            /\ memory = store.families[k]
            /\ choice.match = MatchSource(store.families[k], columns)
      BY <1>2, <3>2
    <3>4. IsKnown(store.families[k])
      BY DEF IsRemembered
    <3>5. Answers(memory, columns, p, field)
      BY <2>3, <3>1, <3>2, <3>3, <3>4, MatchesAreMeasured
    <3>6. CASE columns[p].key = memory.mapped[field]
      <4>1. Confirmed(memory, field, key)
        BY <3>3, <3>4, <3>5, <3>6 DEF Answers, IsKnown, Confirmed
      <4> QED BY <1>1, <3>2, <4>1, Zenon DEF reading
    <3>7. CASE columns[p].field = field /\ columns[p].level \in {"HIGH", "MEDIUM"}
      BY <3>7 DEF reading
    <3> QED BY <3>5, <3>6, <3>7, SMTT(30) DEF Answers
  <2>4. CASE p \notin DOMAIN reused
    <3>1. proposal[p].field = columns[p].field /\ proposal[p].level = columns[p].level
      BY <1>3, <2>1, <2>2, <2>4 DEF proposal, WithAnswers
    <3>2. field \in Needed => proposal[p].level = "HIGH"
      BY <1>1, <1>5, <2>1 DEF Proven, Needed
    <3> QED BY <2>1, <3>1, <3>2, SMTT(30) DEF reading
  <2> QED BY <2>3, <2>4
<1> QED BY <1>4, <1>5

--------------------------------------------------------------------------------
(* What the families say *)

\* What is remembered of an import is known, whatever family it is of.
LEMMA WhatIsWrittenIsKnown ==
    ASSUME NEW existing, NEW id, NEW touched, NEW shape, IsFiniteSet(DOMAIN shape),
           NEW mapped, IsFiniteSet(DOMAIN mapped), NEW person,
           \A f \in DOMAIN person : f \in DOMAIN mapped /\ person[f] = mapped[f],
           NEW answers, NEW origin
    PROVE  LET w == Remember(existing, id, touched, shape, mapped, person, answers, origin)
           IN  IsKnown(w) /\ w.id = id /\ w.touched = touched
<1> DEFINE fact == [id      |-> id,
                    touched |-> touched,
                    trust   |-> TrustOf(origin),
                    shape   |-> shape,
                    mapped  |-> mapped,
                    person  |-> IF TrustOf(origin) = "PERSON" THEN person ELSE <<>>,
                    answers |-> answers]
           history == IF existing = None THEN <<>> ELSE History(existing, fact)
           w == [f \in DOMAIN fact \cup {"history"} |-> IF f = "history" THEN history ELSE fact[f]]
<1>1. w = Remember(existing, id, touched, shape, mapped, person, answers, origin)
  BY Zenon DEF Remember
<1>2. /\ DOMAIN fact = {"id", "touched", "trust", "shape", "mapped", "person", "answers"}
      /\ fact.id = id /\ fact.touched = touched /\ fact.shape = shape /\ fact.mapped = mapped
      /\ fact.person = IF TrustOf(origin) = "PERSON" THEN person ELSE <<>>
  OBVIOUS
<1> HIDE DEF fact, history
<1>3. /\ w.id = id /\ w.touched = touched /\ w.shape = shape /\ w.mapped = mapped
      /\ w.person = IF TrustOf(origin) = "PERSON" THEN person ELSE <<>>
  BY <1>2
<1> HIDE DEF w
<1>4. \A f \in DOMAIN w.person : f \in DOMAIN w.mapped /\ w.person[f] = w.mapped[f]
  BY <1>3
<1> QED BY <1>1, <1>3, <1>4 DEF IsKnown

\* A save leaves the families known, and the one it is of the current one.
LEMMA SavingRemembers ==
    ASSUME NEW store, IsStore(store), IsRemembered(store), NEW family,
           NEW shape, IsFiniteSet(DOMAIN shape), NEW mapped, IsFiniteSet(DOMAIN mapped), NEW person,
           \A f \in DOMAIN person : f \in DOMAIN mapped /\ person[f] = mapped[f],
           NEW answers, NEW origin \in Origins, ~NothingToSay(store, origin)
    PROVE  IsRemembered(RememberIn(store, family, shape, mapped, person, answers, origin))
<1> DEFINE fs == store.families
           seq == store.seq
           after == RememberIn(store, family, shape, mapped, person, answers, origin)
<1>1. /\ seq \in Nat /\ AreFamilies(fs, seq) /\ Len(fs) <= FamiliesKept
      /\ DOMAIN fs = 1 .. Len(fs) /\ Len(fs) \in Nat
      /\ \A k \in DOMAIN fs : IsFamily(fs[k], seq) /\ IsKnown(fs[k])
  BY DEF IsStore, AreFamilies, IsRemembered
<1>2. \A k \in DOMAIN fs : fs[k].id \in 1 .. seq /\ fs[k].id # None /\ fs[k].id # seq + 1
  BY <1>1, KeptAssumption DEF IsFamily
\* One family is replaced: it is the current one.
<1>3. ASSUME NEW w, IsKnown(w), w.touched = seq + 1,
             after.seq = seq + 1, after.current = w.id, after.families = Replaced(fs, w)
      PROVE  IsRemembered(after)
  <2>1. /\ DOMAIN Replaced(fs, w) = DOMAIN fs
        /\ \A k \in DOMAIN fs : Replaced(fs, w)[k] = IF fs[k].id = w.id THEN w ELSE fs[k]
    BY DEF Replaced
  <2> HIDE DEF after
  <2> QED BY <1>1, <1>3, <2>1 DEF IsRemembered
<1>4. CASE origin = "REUSE"
  <2> DEFINE named == FamilyNamed(fs, family)
  <2>1. CASE named = None
    <3>1. after = [store EXCEPT !.current = None]
      BY <1>4, <2>1, Zenon DEF RememberIn, Reused
    <3>2. after.families = fs /\ (after.current = None \/ after.current = store.current)
          /\ after.seq = seq
      BY <3>1
    <3>3. \A k \in DOMAIN fs : fs[k].id = after.current => fs[k].touched = after.seq
      BY <1>2, <3>2 DEF IsRemembered
    <3> HIDE DEF after
    <3>4. ASSUME NEW k \in DOMAIN after.families
          PROVE  /\ IsKnown(after.families[k])
                 /\ after.families[k].id = after.current => after.families[k].touched = after.seq
      <4>1. k \in DOMAIN fs /\ after.families[k] = fs[k]
        BY <3>2, <3>4
      <4> QED BY <1>1, <3>3, <4>1
    <3> QED BY <3>4, Zenon DEF IsRemembered, after
  <2>2. CASE named # None
    <3> DEFINE w == [named EXCEPT !.touched = seq + 1]
    <3>1. PICK k \in DOMAIN fs : named = fs[k]
      BY <1>1, <2>2, FamiliesAreFound
    <3>2. after.seq = seq + 1 /\ after.current = named.id /\ after.families = Replaced(fs, w)
      BY <1>4, <2>2 DEF RememberIn, Reused
    <3>3. IsFamily(fs[k], seq) /\ IsKnown(fs[k])
      BY <1>1
    <3>4. /\ w.id = named.id /\ w.touched = seq + 1
          /\ w.mapped = named.mapped /\ w.shape = named.shape /\ w.person = named.person
      BY <3>1, <3>3 DEF IsFamily, FamilyFields
    <3> HIDE DEF w, named
    <3>5. IsKnown(w)
      BY <3>1, <3>3, <3>4 DEF IsKnown
    <3> QED BY <1>3, <3>2, <3>4, <3>5
  <2> QED BY <2>1, <2>2
<1>5. CASE origin # "REUSE"
  <2> DEFINE existing == Existing(fs, family, shape, mapped)
             id == IF existing = None THEN seq + 1 ELSE existing.id
             w == Remember(existing, id, seq + 1, shape, mapped, person, answers, origin)
             new == Prune(IF existing = None THEN Append(fs, w) ELSE Replaced(fs, w), id)
  <2>1. after.seq = seq + 1 /\ after.current = id /\ after.families = new
    BY <1>5 DEF RememberIn
  <2>2. IsKnown(w) /\ w.id = id /\ w.touched = seq + 1
    <3> HIDE DEF existing, id
    <3> QED BY WhatIsWrittenIsKnown
  <2>3. Taught(fs) => TrustOf(origin) = "PERSON"
    BY <1>5 DEF NothingToSay, TrustOf, Origins
  <2> HIDE DEF new, w, existing
  <2>4. CASE existing = None
    <3>1. id = seq + 1
      BY <2>4
    <3>2. IsFamily(w, seq + 1) /\ w.trust = TrustOf(origin)
      <4>1. w = Remember(None, seq + 1, seq + 1, shape, mapped, person, answers, origin)
        BY <2>4, <3>1, Zenon DEF w
      <4> QED BY <1>1, <4>1, FirstIsWritten
    <3>3. new = Prune(Append(fs, w), w.id)
      BY <2>2, <2>4, <3>1 DEF new
    <3>4. /\ AreFamilies(new, seq + 1) /\ Len(new) <= FamiliesKept
          /\ \A n \in Range(new) : n = w \/ \E k \in DOMAIN fs : n = fs[k]
      <4>1. w.id = seq + 1 /\ w.touched = seq + 1 /\ (Taught(fs) => w.trust = "PERSON")
        BY <2>2, <2>3, <3>1, <3>2
      <4>2. seq \in Nat /\ AreFamilies(fs, seq) /\ Len(fs) <= FamiliesKept
        BY <1>1
      <4> DEFINE next == seq + 1
      <4>3. next = seq + 1 /\ IsFamily(w, next) /\ w.id = next /\ w.touched = next
        BY <3>2, <4>1
      <4> HIDE DEF fs, seq, next
      <4>4. /\ AreFamilies(Prune(Append(fs, w), w.id), seq + 1)
            /\ Len(Prune(Append(fs, w), w.id)) <= FamiliesKept
            /\ \A n \in Range(Prune(Append(fs, w), w.id)) : n = w \/ \E k \in DOMAIN fs : n = fs[k]
        BY ONLY <4>1, <4>2, <4>3, PruningKeeps, SMTT(60)
      <4> QED BY <3>3, <4>4, Zenon
    <3>5. ASSUME NEW j \in DOMAIN new
          PROVE  IsKnown(new[j]) /\ (new[j].id = id => new[j].touched = seq + 1)
      <4>1. new[j] = w \/ \E k \in DOMAIN fs : new[j] = fs[k]
        BY <3>4, <3>5 DEF Range
      <4>2. CASE new[j] = w
        BY <2>2, <4>2
      <4>3. ASSUME NEW k \in DOMAIN fs, new[j] = fs[k]
            PROVE  IsKnown(new[j]) /\ (new[j].id = id => new[j].touched = seq + 1)
        <5>1. IsKnown(fs[k]) /\ fs[k].id # id
          BY <1>1, <1>2, <3>1
        <5> QED BY <4>3, <5>1
      <4> QED BY <4>1, <4>2, <4>3
    <3> HIDE DEF after, id
    <3>6. IsRemembered(after)
      BY <2>1, <3>5 DEF IsRemembered
    <3> QED BY <3>6 DEF after
  <2>5. CASE existing # None
    <3>1. PICK k \in DOMAIN fs : existing = fs[k]
      BY <1>1, <2>5, FamiliesAreFound DEF existing
    <3>2. IsFamily(fs[k], seq) /\ id = fs[k].id /\ id \in 1 .. (seq + 1)
      BY <1>1, <2>5, <3>1 DEF IsFamily
    <3>3. IsFamily(w, seq + 1)
      BY <1>1, <2>5, <3>1, <3>2, WhatIsWritten DEF w
    <3>4. Len(Replaced(fs, w)) = Len(fs)
      BY <1>1, <2>2, <3>2, <3>3, OneReplaced
    <3>5. new = Replaced(fs, w)
      BY <1>1, <2>5, <3>4 DEF new, Prune
    <3> HIDE DEF after, id
    <3>6. after.current = w.id /\ after.families = Replaced(fs, w) /\ after.seq = seq + 1
      BY <2>1, <2>2, <3>5
    <3>7. IsRemembered(after)
      BY <1>3, <2>2, <3>6
    <3> QED BY <3>7 DEF after
  <2> QED BY <2>4, <2>5
<1> QED BY <1>4, <1>5

\* What was posted is of the file it is of, and an import saves on families it knows.
SaidInv ==
  /\ IsRemembered(learning)
  /\ \A i \in Import : at[i] \in {"posted", "verified", "imported"} =>
       work[i].file \in Files /\ IsFiniteSet(DOMAIN work[i].fields)
  /\ \A i \in Import : at[i] \in {"verified", "imported"} =>
       work[i].confirmation.shape = ShapeOf(work[i].file.columns)
  /\ \A i \in Import : at[i] = "imported" => IsRemembered(work[i].seen)

LEMMA NothingIsRemembered == IsRemembered(NothingLearned)
BY DEF IsRemembered, NothingLearned

LEMMA FilesAreTables ==
    ASSUME NEW file \in Files
    PROVE  /\ IsTable(file.columns) /\ IsFiniteSet(DOMAIN file.columns)
           /\ \A fields \in ByHand(file) : DOMAIN fields \subseteq DOMAIN file.columns
<1>1. IsTable(file.columns)
  BY FilesAssumption DEF IsTable
<1>2. DOMAIN file.columns = 1 .. Len(file.columns) /\ Len(file.columns) \in Nat
  BY <1>1 DEF IsTable
<1>3. IsFiniteSet(1 .. Len(file.columns))
  BY <1>2, FS_Interval
<1> QED BY <1>1, <1>2, <1>3, FilesAssumption, Zenon

\* One import goes on, with what is true of it at its next place.
LEMMA OneGoesOn ==
    ASSUME LearnInv, SaidInv, NEW i \in Import, NEW label, NEW w,
           at' = [at EXCEPT ![i] = label], work' = [work EXCEPT ![i] = w], learning' = learning,
           label \in {"posted", "verified", "imported"} =>
             w.file \in Files /\ IsFiniteSet(DOMAIN w.fields),
           label \in {"verified", "imported"} => w.confirmation.shape = ShapeOf(w.file.columns),
           label = "imported" => IsRemembered(w.seen)
    PROVE  SaidInv'
<1>1. /\ at'[i] = label /\ work'[i] = w
      /\ \A j \in Import \ {i} : at'[j] = at[j] /\ work'[j] = work[j]
  BY DEF LearnInv
<1> QED BY <1>1 DEF SaidInv

LEMMA SaidOwnSteps ==
    ASSUME LearnInv, SaidInv, NEW i \in Import,
           \/ Answer(i) \/ MatchByHand(i) \/ Verify(i) \/ Refuse(i) \/ VerifyByHand(i)
           \/ ImportFile(i) \/ FailImport(i) \/ FailToSave(i)
    PROVE  SaidInv'
<1>1. /\ DOMAIN at = Import /\ DOMAIN work = Import
      /\ \A j \in Import : DOMAIN work[j] = WorkFields
  BY DEF LearnInv
<1>2. CASE Answer(i)
  <2> DEFINE Reading(file, answers) == Understand(learning, saved, file, answers)
             Answered(file, answers) ==
               work' = [work EXCEPT ![i].file = file, ![i].answers = answers,
                                    ![i].fields = Reading(file, answers).fields,
                                    ![i].formats = Reading(file, answers).formats]
  <2>1. \E file \in Files : \E answers : Answered(file, answers)
    BY <1>2, Zenon DEF Answer
  <2>2. PICK file \in Files : \E answers : Answered(file, answers)
    BY <2>1, Zenon
  <2>3. PICK answers : Answered(file, answers)
    BY <2>2, Zenon
  <2> DEFINE fields == Reading(file, answers).fields
             formats == Reading(file, answers).formats
             w == [work[i] EXCEPT !.file = file, !.answers = answers,
                                  !.fields = fields, !.formats = formats]
  <2>4. IsFiniteSet(DOMAIN fields)
    <3>1. DOMAIN fields \in SUBSET DOMAIN file.columns
      BY FieldsAreOfColumns
    <3> QED BY <2>2, <3>1, FilesAreTables, FS_Subset, Zenon
  <2>5. work' = [work EXCEPT ![i].file = file, ![i].answers = answers,
                             ![i].fields = fields, ![i].formats = formats]
    BY <2>3
  <2>6. at' = [at EXCEPT ![i] = "posted"] /\ learning' = learning
    BY <1>2 DEF Answer, Go
  <2> HIDE DEF fields, formats
  <2>7. work' = [work EXCEPT ![i] = w] /\ w.file = file /\ w.fields = fields
    BY <1>1, <2>5 DEF WorkFields
  <2> HIDE DEF w
  <2> QED BY <2>2, <2>4, <2>6, <2>7, OneGoesOn
<1>3. CASE MatchByHand(i)
  <2>1. PICK file \in Files : \E fields \in ByHand(file) :
          work' = [work EXCEPT ![i].file = file, ![i].byHand = TRUE, ![i].fields = fields]
    BY <1>3, Zenon DEF MatchByHand
  <2>2. PICK fields \in ByHand(file) :
          work' = [work EXCEPT ![i].file = file, ![i].byHand = TRUE, ![i].fields = fields]
    BY <2>1, Zenon
  <2> DEFINE w == [work[i] EXCEPT !.file = file, !.byHand = TRUE, !.fields = fields]
  <2>3. IsFiniteSet(DOMAIN fields)
    <3>1. DOMAIN fields \in SUBSET DOMAIN file.columns
      BY <2>1, <2>2, FilesAreTables
    <3> QED BY <2>1, <3>1, FilesAreTables, FS_Subset, Zenon
  <2>4. work' = [work EXCEPT ![i] = w] /\ w.file = file /\ w.fields = fields
    BY <1>1, <2>2 DEF WorkFields
  <2>5. at' = [at EXCEPT ![i] = "posted"] /\ learning' = learning
    BY <1>3 DEF MatchByHand, Go
  <2> HIDE DEF w
  <2> QED BY <2>1, <2>3, <2>4, <2>5, OneGoesOn
<1>4. ASSUME at[i] = "posted", at' = [at EXCEPT ![i] = "verified"], learning' = learning,
             NEW c, c.shape = ShapeOf(work[i].file.columns),
             work' = [work EXCEPT ![i].confirmation = c,
                                  ![i].verifiedOn = learning, ![i].after = interventions]
      PROVE  SaidInv'
  <2> DEFINE w == [work[i] EXCEPT !.confirmation = c, !.verifiedOn = learning, !.after = interventions]
  <2>1. /\ work' = [work EXCEPT ![i] = w]
        /\ w.confirmation = c /\ w.file = work[i].file /\ w.fields = work[i].fields
    BY <1>1, <1>4 DEF WorkFields
  <2>2. work[i].file \in Files /\ IsFiniteSet(DOMAIN work[i].fields)
    BY <1>4 DEF SaidInv
  <2> HIDE DEF w
  <2> QED BY <1>4, <2>1, <2>2, OneGoesOn
<1>5. CASE Verify(i)
  <2> DEFINE c == ConfirmationFrom(work[i].file, work[i].answers,
                                   Understand(learning, saved, work[i].file, work[i].answers))
  <2>1. /\ at[i] = "posted" /\ at' = [at EXCEPT ![i] = "verified"] /\ learning' = learning
        /\ work' = [work EXCEPT ![i].confirmation = c,
                                ![i].verifiedOn = learning, ![i].after = interventions]
    BY <1>5, Zenon DEF Verify, Go
  <2>2. c.shape = ShapeOf(work[i].file.columns)
    BY DEF ConfirmationFrom
  <2> HIDE DEF c
  <2> QED BY <1>4, <2>1, <2>2
<1>6. CASE VerifyByHand(i)
  <2> DEFINE c == ManualConfirmation(work[i].file,
                                     Understand(learning, saved, work[i].file, NoAnswers))
  <2>1. /\ at[i] = "posted" /\ at' = [at EXCEPT ![i] = "verified"] /\ learning' = learning
        /\ work' = [work EXCEPT ![i].confirmation = c,
                                ![i].verifiedOn = learning, ![i].after = interventions]
    BY <1>6, Zenon DEF VerifyByHand, Go
  <2>2. c.shape = ShapeOf(work[i].file.columns)
    BY DEF ManualConfirmation
  <2> HIDE DEF c
  <2> QED BY <1>4, <2>1, <2>2
<1>7. CASE ImportFile(i)
  <2> DEFINE w == [work[i] EXCEPT !.seen = learning]
  <2>1. /\ at[i] = "verified" /\ at' = [at EXCEPT ![i] = "imported"]
        /\ work' = [work EXCEPT ![i].seen = learning] /\ learning' = learning
    BY <1>7 DEF ImportFile, Go
  <2>2. /\ work' = [work EXCEPT ![i] = w] /\ w.seen = learning
        /\ w.confirmation = work[i].confirmation /\ w.file = work[i].file /\ w.fields = work[i].fields
    BY <1>1, <2>1 DEF WorkFields
  <2>3. /\ work[i].file \in Files /\ IsFiniteSet(DOMAIN work[i].fields)
        /\ work[i].confirmation.shape = ShapeOf(work[i].file.columns) /\ IsRemembered(learning)
    BY <2>1 DEF SaidInv
  <2> HIDE DEF w
  <2> QED BY <2>1, <2>2, <2>3, OneGoesOn
<1>8. CASE Refuse(i) \/ FailImport(i) \/ FailToSave(i)
  <2>1. at' = [at EXCEPT ![i] = "done"] /\ work' = [work EXCEPT ![i] = NoWork] /\ learning' = learning
    BY <1>8 DEF Refuse, FailImport, FailToSave, Finish, Go
  <2> QED BY <2>1, OneGoesOn
<1> QED BY <1>2, <1>3, <1>5, <1>6, <1>7, <1>8

\* The matching an import writes of a file's columns.
LEMMA WhatIsLearnedIsSaid ==
    ASSUME NEW w, w.file \in Files, IsFiniteSet(DOMAIN w.fields),
           w.confirmation.shape = ShapeOf(w.file.columns), w.confirmation.origin \in Origins,
           IsStore(w.seen), IsRemembered(w.seen), ~NothingToSay(w.seen, w.confirmation.origin)
    PROVE  IsRemembered(Learned(w))
<1> DEFINE c == w.confirmation
           mapped == WithinShape(MappedBy(w), c.shape)
           person == IF c.origin = "MANUAL" THEN mapped
                     ELSE Restrict(mapped, {f \in DOMAIN mapped : mapped[f] \in c.classified})
<1>1. Learned(w) = RememberIn(w.seen, c.family, c.shape, mapped, person, c.answers, c.origin)
  BY Zenon DEF Learned
<1>2. IsFiniteSet(DOMAIN c.shape)
  <2>1. DOMAIN c.shape = DOMAIN w.file.columns
    BY DEF ShapeOf
  <2> QED BY <2>1, FilesAreTables
<1>3. IsFiniteSet(DOMAIN mapped)
  <2>1. Range(w.fields) = {w.fields[p] : p \in DOMAIN w.fields}
    BY DEF Range
  <2>2. DOMAIN mapped \in SUBSET Range(w.fields)
    BY DEF WithinShape, Restrict, MappedBy
  <2>3. IsFiniteSet(Range(w.fields))
    <3>1. IsFiniteSet({w.fields[p] : p \in DOMAIN w.fields})
      BY ImagesAreFinite
    <3> QED BY <2>1, <3>1
  <2> QED BY <2>2, <2>3, FS_Subset, Zenon
<1> HIDE DEF mapped
<1>4. \A f \in DOMAIN person : f \in DOMAIN mapped /\ person[f] = mapped[f]
  BY DEF Restrict
<1> HIDE DEF person
<1> QED BY <1>1, <1>2, <1>3, <1>4, SavingRemembers

LEMMA SaidStep ==
    ASSUME LearnInv, SaidInv, [Next]_vars
    PROVE  SaidInv'
<1>1. ASSUME NEW i \in Import, SaveConfiguration(i) PROVE SaidInv'
  <2> DEFINE w == work[i]
  <2>1. /\ at[i] = "imported" /\ at' = [at EXCEPT ![i] = "done"] /\ work' = [work EXCEPT ![i] = NoWork]
        /\ \/ learning' = learning
           \/ ~NothingToSay(w.seen, w.confirmation.origin) /\ learning' = Learned(w)
    BY <1>1 DEF SaveConfiguration, Finish, Go
  <2>2. /\ w.file \in Files /\ IsFiniteSet(DOMAIN w.fields)
        /\ w.confirmation.shape = ShapeOf(w.file.columns) /\ w.confirmation.origin \in Origins
        /\ IsStore(w.seen) /\ IsRemembered(w.seen)
    BY <2>1 DEF SaidInv, LearnInv
  <2>3. IsRemembered(learning')
    <3>1. CASE learning' = learning
      BY <3>1 DEF SaidInv
    <3>2. CASE ~NothingToSay(w.seen, w.confirmation.origin) /\ learning' = Learned(w)
      BY <2>2, <3>2, WhatIsLearnedIsSaid
    <3> QED BY <2>1, <3>1, <3>2
  <2>4. /\ at'[i] = "done"
        /\ \A j \in Import \ {i} : at'[j] = at[j] /\ work'[j] = work[j]
    BY <2>1 DEF LearnInv
  <2> QED BY <2>3, <2>4 DEF SaidInv
<1>2. CASE Forget \/ MapCanonically
  <2>1. learning' = NothingLearned /\ UNCHANGED <<at, work>>
    BY <1>2 DEF Forget, MapCanonically
  <2> QED BY <2>1, NothingIsRemembered DEF SaidInv
<1>3. CASE UNCHANGED vars
  BY <1>3 DEF vars, SaidInv
<1>4. ASSUME NEW i \in Import,
             \/ Answer(i) \/ MatchByHand(i) \/ Verify(i) \/ Refuse(i) \/ VerifyByHand(i)
             \/ ImportFile(i) \/ FailImport(i) \/ FailToSave(i)
      PROVE  SaidInv'
  BY <1>4, SaidOwnSteps
<1> QED BY <1>1, <1>2, <1>3, <1>4, Zenon DEF Next

\* MemoryIsSaid: what a family says a person confirmed is what it was mapped to, and the
\* family the saved matching is of was used last (remember_in of source_learning.py).
THEOREM MemoryIsSaid == Spec => []SaidInv
<1>1. Init => SaidInv
  BY NothingIsRemembered DEF Init, SaidInv
<1>2. LearnInv /\ SaidInv /\ [Next]_vars => SaidInv'
  BY SaidStep
<1> QED BY <1>1, <1>2, LearningIsSound, PTL DEF Spec

\* NothingIsEverInvented: a file is read without a question only as the engine reads it, as
\* a person confirmed in its family, or as the last import read it if that was of its family
\* (understand of understanding.py).
THEOREM NothingIsEverInvented == Spec => NothingIsInvented
<1>1. ASSUME NEW store, IsStore(store), IsRemembered(store), NEW matching
      PROVE  ReadsOnlyWhatWasSaid(store, matching)
  BY <1>1, FilesAreTables, ReadingsHaveAnAuthor, Zenon DEF ReadsOnlyWhatWasSaid
<1>2. LearnInv' /\ SaidInv'
        => [learning' # learning \/ saved' # saved => ReadsOnlyWhatWasSaid(learning', saved')]_vars
  <2>1. LearnInv' /\ SaidInv' => IsStore(learning') /\ IsRemembered(learning')
    BY DEF LearnInv, SaidInv
  <2> QED BY <1>1, <2>1
<1> QED BY <1>2, LearningIsSound, MemoryIsSaid, PTL DEF Spec, NothingIsInvented
================================================================================
