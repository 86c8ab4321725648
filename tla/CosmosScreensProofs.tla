------------------------ MODULE CosmosScreensProofs -------------------------
(***************************************************************************)
(* What is on the screens of a Cosmos transaction, for every ordinary one, *)
(* whatever the number of its messages and of their fields: the leaves of  *)
(* its encoding are the fields it has, their texts are the texts it was    *)
(* made of, the count groups what is repeated, and the items are, in their *)
(* order, the screens a reader of the transaction expects.  So the review  *)
(* has shown all of the transaction when the approval is offered.          *)
(***************************************************************************)
EXTENDS CosmosReviewProofs

-----------------------------------------------------------------------------
(* The leaves of the messages (parser_traverse_find), and the values below *)
(* one another that the walk goes through.                                 *)

\* The walk of the leaves, unfolded.
WalksBy(walk, tokens, root) ==
    /\ \A at \in PlacesOf(tokens, root) : \A d \in 0 .. 6 : walk[d][0][at] = << at >>
    /\ \A at \in PlacesOf(tokens, root) : \A d \in 1 .. 6 : \A level \in 1 .. 3 :
          walk[d][level][at] =
              IF IsFlat(tokens, at.token) THEN << at >>
              ELSE FlattenSeq([i \in DOMAIN Below(tokens, at) |->
                      walk[d - 1][LevelBelow(tokens, at.token, level)][Below(tokens, at)[i]]])
    /\ \A t : \A level \in 0 .. 3 :
          Leaves(tokens, t, root, level) = walk[6][level][[token |-> t, key |-> << root >>]]

\* The walk that the leaves of a root field are found by exists.
LEMMA LeavesWalk ==
    ASSUME NEW tokens, NEW root
    PROVE  \E walk : WalksBy(walk, tokens, root)
  <1> DEFINE places == Places(tokens, root)
             P == PlacesOf(tokens, root)
             Walk(w, depth) == [level \in 0 .. 3 |-> [at \in places |->
                     IF level = 0 \/ IsFlat(tokens, at.token) THEN << at >>
                     ELSE FlattenSeq(Each(Below(tokens, at), LAMBDA v :
                              w[LevelBelow(tokens, at.token, level)][v]))]]
             first == [level \in 0 .. 3 |-> [at \in places |-> << at >>]]
             walk[depth \in 0 .. MAX_RECURSION_DEPTH] ==
                 IF depth = 0 THEN first ELSE Walk(walk[depth - 1], depth)
  <1>1. \A t : \A level \in 0 .. 3 :
           Leaves(tokens, t, root, level)
              = walk[MAX_RECURSION_DEPTH][level][[token |-> t, key |-> << root >>]]
    BY DEF Leaves
  <1>2. FiniteNatInductiveDefHypothesis(walk, first, Walk, 0, MAX_RECURSION_DEPTH)
    BY DEF FiniteNatInductiveDefHypothesis
  <1>3. MAX_RECURSION_DEPTH = 6
    BY DEF MAX_RECURSION_DEPTH
  <1> HIDE DEF walk, Walk, first
  <1>4. FiniteNatInductiveDefConclusion(walk, first, Walk, 0, MAX_RECURSION_DEPTH)
    BY <1>2, <1>3, FiniteNatInductiveDef
  <1>5. walk = [depth \in 0 .. 6 |-> IF depth = 0 THEN first ELSE Walk(walk[depth - 1], depth)]
    BY <1>3, <1>4 DEF FiniteNatInductiveDefConclusion
  <1>6. P \subseteq places
    BY DEF PlacesOf
  <1> HIDE DEF P, places
  <1>7. walk[0] = first /\ \A d \in 1 .. 6 : walk[d] = Walk(walk[d - 1], d)
    BY <1>5
  <1>8. ASSUME NEW w, NEW d, NEW level \in 0 .. 3, NEW at \in P
        PROVE  Walk(w, d)[level][at] =
                 IF level = 0 \/ IsFlat(tokens, at.token) THEN << at >>
                 ELSE FlattenSeq([i \in DOMAIN Below(tokens, at) |->
                        w[LevelBelow(tokens, at.token, level)][Below(tokens, at)[i]]])
    <2>1. Walk(w, d)[level] = [a \in places |->
                     IF level = 0 \/ IsFlat(tokens, a.token) THEN << a >>
                     ELSE FlattenSeq(Each(Below(tokens, a), LAMBDA v :
                              w[LevelBelow(tokens, a.token, level)][v]))]
      BY DEF Walk
    <2>2. at \in places
      BY <1>6
    <2>3. Walk(w, d)[level][at] =
                     IF level = 0 \/ IsFlat(tokens, at.token) THEN << at >>
                     ELSE FlattenSeq(Each(Below(tokens, at), LAMBDA v :
                              w[LevelBelow(tokens, at.token, level)][v]))
      BY <2>1, <2>2
    <2>4. QED
      BY <2>3 DEF Each
  <1>9. ASSUME NEW at \in P, NEW level \in 0 .. 3 PROVE first[level][at] = << at >>
    <2>1. first[level] = [a \in places |-> << a >>] /\ at \in places
      BY <1>6 DEF first
    <2>2. QED
      BY <2>1
  <1>10. ASSUME NEW at \in P, NEW d \in 0 .. 6 PROVE walk[d][0][at] = << at >>
    <2>1. CASE d = 0
      BY <1>7, <1>9, <2>1
    <2>2. CASE d # 0
      <3>1. d \in 1 .. 6 /\ 0 \in 0 .. 3
        BY <2>2
      <3>2. walk[d] = Walk(walk[d - 1], d)
        BY <1>7, <3>1
      <3>3. Walk(walk[d - 1], d)[0][at] = << at >>
        BY <1>8, <3>1
      <3>4. QED
        BY <3>2, <3>3
    <2>3. QED
      BY <2>1, <2>2
  <1>11. ASSUME NEW at \in P, NEW d \in 1 .. 6, NEW level \in 1 .. 3
         PROVE  walk[d][level][at] =
                  IF IsFlat(tokens, at.token) THEN << at >>
                  ELSE FlattenSeq([i \in DOMAIN Below(tokens, at) |->
                     walk[d - 1][LevelBelow(tokens, at.token, level)][Below(tokens, at)[i]]])
    <2> DEFINE w == walk[d - 1]
    <2>1. level \in 0 .. 3 /\ level # 0
      OBVIOUS
    <2>2. walk[d] = Walk(w, d)
      BY <1>7
    <2> HIDE DEF w
    <2>3. Walk(w, d)[level][at] =
                 IF level = 0 \/ IsFlat(tokens, at.token) THEN << at >>
                 ELSE FlattenSeq([i \in DOMAIN Below(tokens, at) |->
                        w[LevelBelow(tokens, at.token, level)][Below(tokens, at)[i]]])
      BY <1>8, <2>1
    <2>4. QED
      BY <2>1, <2>2, <2>3 DEF w
  <1>12. WalksBy(walk, tokens, root)
    <2>1. \A t : \A level \in 0 .. 3 :
            Leaves(tokens, t, root, level) = walk[6][level][[token |-> t, key |-> << root >>]]
      BY <1>1, <1>3
    <2>2. QED
      BY <1>10, <1>11, <2>1 DEF WalksBy, P
  <1>13. QED
    BY <1>12

\* The root of a field is a place of it.
LEMMA RootIsPlace ==
    ASSUME NEW tokens, NEW root, NEW t \in DOMAIN tokens
    PROVE  [token |-> t, key |-> << root >>] \in PlacesOf(tokens, root)
  <1> DEFINE words == {root} \cup {tokens[k].text : k \in DOMAIN tokens}
  <1>1. root \in words
    OBVIOUS
  <1> HIDE DEF words
  <1>2. << root >> \in Seq(words) /\ Len(<< root >>) = 1 /\ << root >>[1] = root
    BY <1>1
  <1>3. QED
    BY <1>2 DEF Places, PlacesOf, words

\* Sequences of one element each.
LEMMA FlattenSingles ==
    ASSUME NEW s, IsSeq(s)
    PROVE  /\ AreSeqs([i \in DOMAIN s |-> << s[i] >>], Len(s))
           /\ FlattenSeq([i \in DOMAIN s |-> << s[i] >>]) = s
  <1> DEFINE n == Len(s)
             seqs == [i \in DOMAIN s |-> << s[i] >>]
  <1>1. n \in Nat /\ DOMAIN s = 1 .. n
    BY SeqFacts
  <1>2. n = Len(s)
    OBVIOUS
  <1> HIDE DEF n
  <1>3. seqs = [i \in 1 .. n |-> seqs[i]] /\ \A i \in 1 .. n : seqs[i] = << s[i] >>
    BY <1>1
  <1> HIDE DEF seqs
  <1>4. \A i \in 1 .. n : IsSeq(seqs[i]) /\ Len(seqs[i]) = 1 /\ seqs[i][1] = s[i]
    BY <1>3, ShortSeqs
  <1>5. AreSeqs(seqs, n)
    BY <1>1, <1>3, <1>4, FunctionIsSeq DEF AreSeqs
  <1>6. PICK flatten : FlattensBy(flatten, seqs, n)
    BY <1>5, FlattenRun
  <1>7. /\ flatten[0] = << >>
        /\ \A i \in 1 .. n : flatten[i] = flatten[i - 1] \o seqs[i]
        /\ \A i \in 0 .. n : IsSeq(flatten[i])
        /\ FlattenSeq(seqs) = flatten[n]
    BY <1>6 DEF FlattensBy
  <1> DEFINE S == {i \in 0 .. n : Len(flatten[i]) = i /\ \A j \in 1 .. i : flatten[i][j] = s[j]}
  <1>8. 0 \in S
    <2>1. 1 .. 0 = {} /\ Len(flatten[0]) = 0
      BY <1>7, ShortSeqs
    <2>2. QED
      BY <1>1, <2>1
  <1>9. ASSUME NEW i \in 0 .. n - 1, i \in S PROVE i + 1 \in S
    <2>1. i + 1 \in 1 .. n /\ (i + 1) - 1 = i /\ i + 1 \in 0 .. n /\ i \in 0 .. n /\ i \in Nat
      BY <1>1
    <2> DEFINE f == flatten[i]
               g == seqs[i + 1]
    <2>2. flatten[i + 1] = f \o g
      BY <1>7, <2>1
    <2>3. IsSeq(f) /\ Len(f) = i /\ IsSeq(g) /\ Len(g) = 1 /\ g[1] = s[i + 1]
      BY <1>4, <1>7, <1>9, <2>1
    <2>4. \A j \in 1 .. i : f[j] = s[j]
      BY <1>9
    <2> HIDE DEF f, g
    <2>5. /\ Len(f \o g) = i + 1
          /\ \A j \in 1 .. i : (f \o g)[j] = f[j]
          /\ \A j \in 1 .. 1 : (f \o g)[i + j] = g[j]
      <3>1. IsSeq(f) /\ IsSeq(g)
        BY <2>3
      <3>2. /\ Len(f \o g) = Len(f) + Len(g)
            /\ \A j \in 1 .. Len(f) : (f \o g)[j] = f[j]
            /\ \A j \in 1 .. Len(g) : (f \o g)[Len(f) + j] = g[j]
        BY ONLY <3>1, Joined
      <3>3. QED
        BY <2>3, <3>2
    <2>6. ASSUME NEW j \in 1 .. i + 1 PROVE (f \o g)[j] = s[j]
      <3>1. j \in 1 .. i \/ j = i + 1
        BY <2>1
      <3>2. (f \o g)[i + 1] = s[i + 1]
        BY <2>3, <2>5
      <3>3. QED
        BY <2>4, <2>5, <3>1, <3>2
    <2>7. QED
      BY <2>1, <2>2, <2>5, <2>6
  <1> HIDE DEF S
  <1>10. \A i \in 0 .. n : i \in S
    BY <1>1, <1>8, <1>9, Induction
  <1>11. n \in S /\ n \in 0 .. n
    BY <1>1, <1>10
  <1>12. flatten[n] = s
    <2> DEFINE f == flatten[n]
    <2>1. IsSeq(f) /\ Len(f) = n /\ \A j \in 1 .. n : f[j] = s[j]
      BY <1>7, <1>11 DEF S
    <2> HIDE DEF f
    <2>2. f = s
      BY <1>2, <2>1, SameSeq
    <2>3. QED
      BY <2>2 DEF f
  <1>13. QED
    BY <1>5, <1>7, <1>12 DEF n, seqs

\* The values below one another: n of them, with their paths.
BelowIs(doc, at, n, keys, vals) ==
    LET s == Below(doc.tokens, at)
    IN  /\ IsSeq(s) /\ Len(s) = n
        /\ \A i \in 1 .. n : s[i].key = keys[i] /\ ValueAt(doc, s[i].token, vals[i])

\* A value that is an object, where it lies.
LEMMA ObjectValueAt ==
    ASSUME NEW doc, Tokenized(doc), NEW k, NEW pairs, NEW n, NEW keys, NEW vals,
           ArePairs(pairs, n, keys, vals), ValueAt(doc, k, Obj(pairs))
    PROVE  ObjectAt(doc, k, n, keys, vals)
  <1>1. PICK a \in Nat : k = a + 1 /\ Follows(doc, a, Obj(pairs))
    BY DEF ValueAt
  <1>2. PICK off : Lies(doc, a, off, Obj(pairs))
    BY <1>1 DEF Follows
  <1>3. QED
    BY <1>1, <1>2, ObjectLies

\* The values of an object, by their keys.
LEMMA BelowObject ==
    ASSUME NEW doc, Tokenized(doc), NEW at, NEW n \in Nat, NEW keys, NEW vals,
           ObjectAt(doc, at.token, n, keys, vals)
    PROVE  BelowIs(doc, at, n, [i \in 1 .. n |-> Append(at.key, keys[i])], vals)
  <1> DEFINE T == doc.tokens
             k == at.token
             found == object_keys(T, k)
             paths == [i \in 1 .. n |-> Append(at.key, keys[i])]
             s == Below(T, at)
  <1>1. /\ T[k].type = "JSMN_OBJECT" /\ IsSeq(found) /\ Len(found) = n /\ DOMAIN found = 1 .. n
        /\ \A i \in 1 .. n : /\ found[i] \in DOMAIN T /\ found[i] + 1 \in DOMAIN T
                             /\ T[found[i]].text = keys[i]
                             /\ Follows(doc, found[i], vals[i])
    BY SeqFacts DEF ObjectAt
  <1>2. s = [i \in DOMAIN found |-> [token |-> found[i] + 1,
                                     key |-> Append(at.key, T[found[i]].text)]]
    BY <1>1 DEF Below, Each
  <1>3. DOMAIN T = 1 .. Len(T) /\ Len(T) \in Nat
    BY TokensOf
  <1> HIDE DEF found, T, k, s
  <1>4. s = [i \in 1 .. n |-> s[i]]
    BY <1>1, <1>2
  <1>5. ASSUME NEW i \in 1 .. n
        PROVE  s[i].key = paths[i] /\ ValueAt(doc, s[i].token, vals[i])
    <2> DEFINE a == found[i]
    <2>1. /\ a \in DOMAIN T /\ a + 1 \in DOMAIN T /\ T[a].text = keys[i] /\ Follows(doc, a, vals[i])
      BY <1>1
    <2>2. s[i].token = a + 1 /\ s[i].key = Append(at.key, T[a].text)
      <3>1. s[i] = [token |-> found[i] + 1, key |-> Append(at.key, T[found[i]].text)]
        BY <1>1, <1>2
      <3>2. QED
        BY <3>1
    <2> HIDE DEF a
    <2>3. a \in Nat
      BY <1>3, <2>1
    <2>4. ValueAt(doc, a + 1, vals[i])
      BY <2>1, <2>3 DEF ValueAt, T
    <2>5. QED
      BY <2>1, <2>2, <2>4
  <1>6. IsSeq(s) /\ Len(s) = n
    BY <1>4, FunctionIsSeq
  <1> HIDE DEF paths
  <1>7. BelowIs(doc, at, n, paths, vals)
    BY <1>5, <1>6 DEF BelowIs, s, T
  <1>8. QED
    BY <1>7 DEF paths

\* All elements of a sequence are not at most them.
LEMMA AtMostAll ==
    ASSUME NEW s, IsSeq(s), NEW n \in Nat, n >= Len(s)
    PROVE  AtMost(s, n) = s
  <1> DEFINE m == Len(s)
             S == {s[i] : i \in 1 .. m}
  <1>1. m \in Nat
    BY SeqFacts
  <1>2. AtMost(s, n) = SubSeq(s, 1, m)
    <2> HIDE DEF S
    <2>1. ~(n < m)
      BY <1>1
    <2>2. QED
      BY <2>1 DEF AtMost
  <1>3. s \in Seq(S)
    <2>1. \A i \in 1 .. Len(s) : s[i] \in S
      OBVIOUS
    <2> HIDE DEF S
    <2>2. QED
      BY <2>1, SeqFacts
  <1> HIDE DEF S
  <1>4. SubSeq(s, 1, Len(s)) = s
    BY <1>3
  <1>5. QED
    BY <1>2, <1>4

\* The elements of an array of records.
LEMMA BelowRecords ==
    ASSUME NEW doc, Tokenized(doc), NEW at, NEW n, NEW vals, AreRecords(vals, n),
           ValueAt(doc, at.token, Arr(vals))
    PROVE  BelowIs(doc, at, n, [i \in 1 .. n |-> at.key], vals)
  <1> DEFINE T == doc.tokens
             k == at.token
             elements == array_elements(T, k)
             found == object_keys(T, k)
             paths == [i \in 1 .. n |-> at.key]
             s == Below(T, at)
             some == AtMost(elements, Len(found))
  <1>1. PICK a \in Nat : k = a + 1 /\ Follows(doc, a, Arr(vals))
    BY DEF ValueAt
  <1>2. PICK off : Lies(doc, a, off, Arr(vals))
    BY <1>1 DEF Follows
  <1>3. AreValues(vals, n) /\ n \in Nat
    BY DEF AreRecords, AreValues
  <1>4. ArrayAt(doc, k, n, vals)
    BY <1>1, <1>2, <1>3, ArrayLies
  <1>5. IsSeq(found) /\ Len(found) >= n
    BY <1>1, <1>2, RecordsCounted
  <1>6. /\ T[k].type = "JSMN_ARRAY" /\ IsSeq(elements) /\ Len(elements) = n
        /\ \A i \in 1 .. n : \E b \in Nat : /\ elements[i] = b + 1 /\ b + 1 \in DOMAIN T
                                            /\ Follows(doc, b, vals[i])
    BY <1>4 DEF ArrayAt
  <1>7. some = elements
    <2> HIDE DEF elements, found
    <2>1. Len(found) \in Nat
      BY <1>5, SeqFacts
    <2>2. QED
      BY <1>5, <1>6, <2>1, AtMostAll
  <1>8. s = [i \in DOMAIN some |-> [token |-> some[i], key |-> at.key]]
    <2>1. T[k].type # "JSMN_OBJECT"
      BY <1>6
    <2>2. QED
      BY <2>1 DEF Below, Each
  <1>9. DOMAIN elements = 1 .. n
    BY <1>6, SeqFacts
  <1> HIDE DEF elements, found, T, k, s, some
  <1>10. s = [i \in 1 .. n |-> s[i]]
    BY <1>7, <1>8, <1>9
  <1>11. ASSUME NEW i \in 1 .. n
        PROVE  s[i].key = paths[i] /\ ValueAt(doc, s[i].token, vals[i])
    <2>1. s[i] = [token |-> elements[i], key |-> at.key]
      BY <1>7, <1>8, <1>9
    <2>2. s[i].token = elements[i] /\ s[i].key = at.key
      BY <2>1
    <2>3. ValueAt(doc, elements[i], vals[i])
      BY <1>6 DEF ValueAt, T
    <2>4. QED
      BY <2>2, <2>3
  <1>12. IsSeq(s) /\ Len(s) = n
    BY <1>3, <1>10, FunctionIsSeq
  <1> HIDE DEF paths
  <1>13. BelowIs(doc, at, n, paths, vals)
    BY <1>11, <1>12 DEF BelowIs, s, T
  <1>14. QED
    BY <1>13 DEF paths

\* The type of a value's token, and its text when it is a word.
LEMMA FlatValue ==
    ASSUME NEW doc, Tokenized(doc), NEW k, NEW v, IsValue(v), ValueAt(doc, k, v)
    PROVE  doc.tokens[k].type = v.tokens[1].type /\ doc.tokens[k].text = v.tokens[1].text
  <1>1. PICK a \in Nat : k = a + 1 /\ Follows(doc, a, v)
    BY DEF ValueAt
  <1>2. PICK off : Lies(doc, a, off, v)
    BY <1>1 DEF Follows
  <1>3. QED
    BY <1>1, <1>2, ValueLies

\* A word, or a number, is shown as it is.
LEMMA WordAt ==
    ASSUME NEW doc, Tokenized(doc), NEW k, NEW w, ValueAt(doc, k, Str(w)) \/ ValueAt(doc, k, Number(w))
    PROVE  IsFlat(doc.tokens, k) /\ Text(doc.tokens, k) = Word(w)
  <1> DEFINE p == Str(w)
             q == Number(w)
  <1>1. /\ IsValue(p) /\ p.tokens[1].type = "JSMN_STRING" /\ p.tokens[1].text = w
        /\ IsValue(q) /\ q.tokens[1].type = "JSMN_PRIMITIVE" /\ q.tokens[1].text = w
    BY TextPiece
  <1>2. ValueAt(doc, k, p) \/ ValueAt(doc, k, q)
    OBVIOUS
  <1> HIDE DEF p, q
  <1>3. doc.tokens[k].type \in {"JSMN_STRING", "JSMN_PRIMITIVE"} /\ doc.tokens[k].text = w
    <2>1. CASE ValueAt(doc, k, p)
      BY <1>1, <2>1, FlatValue
    <2>2. CASE ValueAt(doc, k, q)
      BY <1>1, <2>2, FlatValue
    <2>3. QED
      BY <1>2, <2>1, <2>2
  <1>4. QED
    BY <1>3 DEF IsFlat, Text

\* An object and an array are none.
LEMMA NotFlat ==
    ASSUME NEW doc, NEW k, doc.tokens[k].type \in {"JSMN_OBJECT", "JSMN_ARRAY"}
    PROVE  ~IsFlat(doc.tokens, k)
  BY DEF IsFlat

\* The document that encodes an ordinary transaction.
Encodes(doc, t) ==
    Ordinary(t) /\ doc = Encode(t) /\ Tokenized(doc) /\ InGrammar(doc)

\* Paths one key longer.
LEMMA LongerPath ==
    /\ \A a, b : Append(<< a >>, b) = << a, b >>
    /\ \A a, b, c : Append(<< a, b >>, c) = << a, b, c >>
  <1>1. ASSUME NEW n \in Nat, NEW s, NEW x, NEW r, IsSeq(s), Len(s) = n, IsSeq(r), Len(r) = n + 1,
               \A i \in 1 .. n : r[i] = s[i], r[n + 1] = x
        PROVE  Append(s, x) = r
    <2>1. /\ IsSeq(Append(s, x)) /\ Len(Append(s, x)) = n + 1
          /\ \A i \in 1 .. n : Append(s, x)[i] = s[i]
          /\ Append(s, x)[n + 1] = x
      BY <1>1, Appended
    <2> DEFINE u == Append(s, x)
    <2> HIDE DEF u
    <2>2. \A i \in 1 .. n + 1 : i \in 1 .. n \/ i = n + 1
      OBVIOUS
    <2>3. IsSeq(u) /\ Len(u) = Len(r) /\ \A i \in 1 .. Len(u) : u[i] = r[i]
      BY <1>1, <2>1, <2>2 DEF u
    <2>4. u = r
      BY <1>1, <2>3, SameSeq
    <2>5. QED
      BY <2>4 DEF u
  <1>2. ASSUME NEW a, NEW b PROVE Append(<< a >>, b) = << a, b >>
    <2> DEFINE s == << a >>
               r == << a, b >>
               n == 1
    <2>1. /\ n \in Nat /\ IsSeq(s) /\ Len(s) = n /\ IsSeq(r) /\ Len(r) = n + 1
          /\ (\A i \in 1 .. n : r[i] = s[i]) /\ r[n + 1] = b
      BY ShortSeqs
    <2> HIDE DEF s, r, n
    <2>2. Append(s, b) = r
      BY <1>1, <2>1
    <2>3. QED
      BY <2>2 DEF s, r
  <1>3. ASSUME NEW a, NEW b, NEW c PROVE Append(<< a, b >>, c) = << a, b, c >>
    <2> DEFINE s == << a, b >>
               r == << a, b, c >>
               n == 2
    <2>1. r \in Seq({a, b, c}) /\ Len(r) = 3 /\ r[1] = a /\ r[2] = b /\ r[3] = c
      OBVIOUS
    <2>2. IsSeq(s) /\ Len(s) = 2 /\ s[1] = a /\ s[2] = b
      BY ShortSeqs
    <2> HIDE DEF s, r
    <2>3. IsSeq(r)
      BY <2>1, TypedIsSeq
    <2>4. \A i \in 1 .. 2 : i = 1 \/ i = 2
      OBVIOUS
    <2>5. /\ n \in Nat /\ IsSeq(s) /\ Len(s) = n /\ IsSeq(r) /\ Len(r) = n + 1
          /\ (\A i \in 1 .. n : r[i] = s[i]) /\ r[n + 1] = c
      BY <2>1, <2>2, <2>3, <2>4
    <2> HIDE DEF n
    <2>6. Append(s, c) = r
      BY <1>1, <2>5
    <2>7. QED
      BY <2>6 DEF s, r
  <1>4. QED
    BY <1>2, <1>3

\* Where the walk starts.
LEMMA WalkStarts ==
    ASSUME NEW tokens, NEW root, NEW walk, WalksBy(walk, tokens, root), NEW t, NEW level \in 0 .. 3,
           NEW at, at = [token |-> t, key |-> << root >>]
    PROVE  Leaves(tokens, t, root, level) = walk[6][level][at]
  BY DEF WalksBy

\* Where it ends.
LEMMA WalkEnds ==
    ASSUME NEW tokens, NEW root, NEW walk, WalksBy(walk, tokens, root),
           NEW at \in PlacesOf(tokens, root), NEW d \in 1 .. 6, NEW level \in 0 .. 3,
           level = 0 \/ IsFlat(tokens, at.token)
    PROVE  walk[d][level][at] = << at >>
  <1>1. d \in 0 .. 6 /\ (level = 0 \/ level \in 1 .. 3)
    OBVIOUS
  <1>2. CASE level = 0
    BY <1>1, <1>2 DEF WalksBy
  <1>3. CASE level \in 1 .. 3 /\ IsFlat(tokens, at.token)
    BY <1>3 DEF WalksBy
  <1>4. QED
    BY <1>1, <1>2, <1>3

\* What a leaf shows of the messages.
Shows(doc, leaf, e) ==
    leaf.key = e.key /\ ValueAt(doc, leaf.token, EncodeValue(e.value))

\* A word is the only leaf of its field.
LEMMA WordLeaves ==
    ASSUME NEW doc, Tokenized(doc), NEW k, NEW w, ValueAt(doc, k, Str(w)), NEW root,
           NEW level \in 0 .. 3
    PROVE  Leaves(doc.tokens, k, root, level) = << [token |-> k, key |-> << root >>] >>
  <1> DEFINE T == doc.tokens
             at == [token |-> k, key |-> << root >>]
  <1>1. IsFlat(T, k)
    BY WordAt
  <1>2. PICK walk : WalksBy(walk, T, root)
    BY LeavesWalk
  <1>3. k \in DOMAIN T
    BY DEF ValueAt
  <1>4. at \in PlacesOf(T, root) /\ at.token = k
    BY <1>3, RootIsPlace
  <1>5. Leaves(T, k, root, level) = walk[6][level][at]
    BY <1>2, WalkStarts
  <1>6. 6 \in 1 .. 6
    OBVIOUS
  <1> HIDE DEF at, T
  <1>7. walk[6][level][at] = << at >>
    BY <1>1, <1>2, <1>4, <1>6, WalkEnds
  <1>8. QED
    BY <1>5, <1>7 DEF at, T

\* An object one level above the last: its values are leaves.
LEMMA LastLevel ==
    ASSUME NEW doc, Tokenized(doc), InGrammar(doc), NEW root, NEW walk,
           WalksBy(walk, doc.tokens, root), NEW at \in PlacesOf(doc.tokens, root),
           doc.tokens[at.token].type = "JSMN_OBJECT", NEW d \in 1 .. 6
    PROVE  walk[d][1][at] = Below(doc.tokens, at) /\ IsSeq(Below(doc.tokens, at))
  <1> DEFINE T == doc.tokens
             P == PlacesOf(T, root)
             below == Below(T, at)
  <1>1. below \in Seq(P)
    BY BelowType
  <1>2. ~IsFlat(T, at.token) /\ LevelBelow(T, at.token, 1) = 0
    BY NotFlat DEF LevelBelow
  <1>3. walk[d][1][at] = FlattenSeq([i \in DOMAIN below |-> walk[d - 1][0][below[i]]])
    <2>1. 1 \in 1 .. 3
      OBVIOUS
    <2>2. walk[d][1][at] =
              IF IsFlat(T, at.token) THEN << at >>
              ELSE FlattenSeq([i \in DOMAIN Below(T, at) |->
                      walk[d - 1][LevelBelow(T, at.token, 1)][Below(T, at)[i]]])
      BY <2>1 DEF WalksBy
    <2>3. QED
      BY <1>2, <2>2
  <1> HIDE DEF below
  <1>4. IsSeq(below)
    BY <1>1, TypedIsSeq
  <1>5. \A i \in DOMAIN below : walk[d - 1][0][below[i]] = << below[i] >>
    <2>1. d - 1 \in 0 .. 6
      OBVIOUS
    <2>2. \A i \in DOMAIN below : below[i] \in P
      BY <1>1
    <2>3. QED
      BY <2>1, <2>2 DEF WalksBy
  <1>6. [i \in DOMAIN below |-> walk[d - 1][0][below[i]]] = [i \in DOMAIN below |-> << below[i] >>]
    BY <1>5
  <1>7. FlattenSeq([i \in DOMAIN below |-> << below[i] >>]) = below
    BY <1>4, FlattenSingles
  <1>8. QED
    BY <1>3, <1>4, <1>6, <1>7 DEF below, T

\* The leaves of the fee.
LEMMA FeeLeaves ==
    ASSUME NEW doc, NEW t, Encodes(doc, t)
    PROVE  LET leaves == RootLeaves(doc, "fee", FALSE)
           IN  /\ IsSeq(leaves) /\ Len(leaves) = 2
               /\ leaves[1].key = << "fee", "amount" >>
               /\ ValueAt(doc, leaves[1].token, EncodeCoins(t.fee))
               /\ leaves[2].key = << "fee", "gas" >>
               /\ ValueAt(doc, leaves[2].token, Str(t.gas))
  <1> DEFINE T == doc.tokens
             root == "fee"
             k == RootToken(doc, root)
             at == [token |-> k, key |-> << root >>]
             keys == << "amount", "gas" >>
             vals == << EncodeCoins(t.fee), Str(t.gas) >>
             two == 2
             paths == [i \in 1 .. two |-> Append(at.key, keys[i])]
             leaves == RootLeaves(doc, root, FALSE)
             below == Below(T, at)
  <1>1. Ordinary(t) /\ Tokenized(doc) /\ InGrammar(doc) /\ doc = Encode(t)
    BY DEF Encodes
  <1>2. ValueAt(doc, k, Obj(FeePairs(t)))
    BY <1>1, RootsAt
  <1>3. ArePairs(FeePairs(t), two, keys, vals)
    BY <1>1, FeeIsPairs
  <1>4. leaves = Leaves(T, k, root, 1)
    BY DEF RootLeaves, get_root_max_level
  <1>5. at.token = k /\ at.key = << root >> /\ two \in Nat
    OBVIOUS
  <1>6. /\ keys[1] = "amount" /\ keys[2] = "gas"
        /\ vals[1] = EncodeCoins(t.fee) /\ vals[2] = Str(t.gas)
    BY ShortSeqs
  <1>7. paths[1] = << "fee", "amount" >> /\ paths[2] = << "fee", "gas" >>
    <2>1. paths[1] = Append(<< root >>, "amount") /\ paths[2] = Append(<< root >>, "gas")
      BY <1>6
    <2>2. QED
      BY <2>1, LongerPath
  <1>8. at \in PlacesOf(T, root)
    BY <1>2, RootIsPlace DEF ValueAt
  <1> HIDE DEF k, keys, vals
  <1>9. ObjectAt(doc, k, two, keys, vals)
    BY <1>1, <1>2, <1>3, ObjectValueAt
  <1>10. T[k].type = "JSMN_OBJECT"
    BY <1>9 DEF ObjectAt
  <1> HIDE DEF at, two, root, leaves
  <1>11. PICK walk : WalksBy(walk, T, root)
    BY LeavesWalk
  <1>12. leaves = walk[6][1][at]
    <2>1. at = [token |-> k, key |-> << root >>] /\ 1 \in 0 .. 3
      BY DEF at
    <2>2. QED
      BY <1>4, <1>11, <2>1, WalkStarts
  <1>13. walk[6][1][at] = below
    <2>1. 6 \in 1 .. 6 /\ T[at.token].type = "JSMN_OBJECT"
      BY <1>5, <1>10
    <2>2. QED
      BY <1>1, <1>8, <1>11, <2>1, LastLevel
  <1>14. BelowIs(doc, at, two, paths, vals)
    BY <1>1, <1>5, <1>9, BelowObject
  <1>15. IsSeq(leaves) /\ Len(leaves) = two
         /\ \A i \in 1 .. two : leaves[i].key = paths[i] /\ ValueAt(doc, leaves[i].token, vals[i])
    BY <1>12, <1>13, <1>14 DEF BelowIs
  <1> HIDE DEF paths
  <1>16. 1 \in 1 .. two /\ 2 \in 1 .. two /\ two = 2
    BY DEF two
  <1>17. QED
    BY <1>6, <1>7, <1>15, <1>16 DEF leaves, root

\* Leaves that show entries one by one.
ShowAllOf(doc, leaves, entries) ==
    Alike(leaves, entries, LAMBDA l, e : Shows(doc, l, e))

\* They are two sequences of one length.
LEMMA ShowsOneByOne ==
    ASSUME NEW doc, NEW s, NEW u
    PROVE  ShowAllOf(doc, s, u) <=>
              /\ IsSeq(s) /\ IsSeq(u) /\ Len(s) = Len(u)
              /\ \A i \in 1 .. Len(s) : Shows(doc, s[i], u[i])
  BY DEF ShowAllOf, Alike

\* Joining keeps that.
LEMMA ShowsJoined ==
    ASSUME NEW doc, NEW s, NEW u, NEW x, NEW y, ShowAllOf(doc, s, u), ShowAllOf(doc, x, y)
    PROVE  ShowAllOf(doc, s \o x, u \o y)
  <1>1. Alike(s, u, LAMBDA l, e : Shows(doc, l, e)) /\ Alike(x, y, LAMBDA l, e : Shows(doc, l, e))
    BY DEF ShowAllOf
  <1>2. Alike(s \o x, u \o y, LAMBDA l, e : Shows(doc, l, e))
    BY <1>1, AlikeJoined
  <1>3. QED
    BY <1>2 DEF ShowAllOf

\* So does joining n of them.
LEMMA ShowsFlattened ==
    ASSUME NEW doc, NEW n, NEW a, NEW b, AreSeqs(a, n), AreSeqs(b, n),
           \A i \in 1 .. n : ShowAllOf(doc, a[i], b[i])
    PROVE  ShowAllOf(doc, FlattenSeq(a), FlattenSeq(b))
  <1>1. \A i \in 1 .. n : Alike(a[i], b[i], LAMBDA l, e : Shows(doc, l, e))
    BY DEF ShowAllOf
  <1>2. Alike(FlattenSeq(a), FlattenSeq(b), LAMBDA l, e : Shows(doc, l, e))
    BY <1>1, FlattenAlike
  <1>3. QED
    BY <1>2 DEF ShowAllOf

\* Two elements of a function.
LEMMA TwoSeq ==
    ASSUME NEW s, s = [i \in 1 .. 2 |-> s[i]]
    PROVE  s = << s[1], s[2] >>
  <1> DEFINE a == s[1]
             b == s[2]
             r == << a, b >>
             two == 2
  <1>1. IsSeq(r) /\ Len(r) = two /\ r[1] = s[1] /\ r[2] = s[2]
    BY ShortSeqs
  <1>2. \A i \in 1 .. two : i = 1 \/ i = 2
    OBVIOUS
  <1>3. s = [i \in 1 .. two |-> s[i]] /\ two \in Nat
    OBVIOUS
  <1> HIDE DEF r, two
  <1>4. IsSeq(s) /\ Len(s) = two
    BY <1>3, FunctionIsSeq
  <1>5. \A i \in 1 .. two : s[i] = r[i]
    BY <1>1, <1>2
  <1>6. s = r
    BY <1>1, <1>4, <1>5, SameSeq
  <1>7. QED
    BY <1>6 DEF r

\* The leaves of one message.
LEMMA OneMsgLeaves ==
    ASSUME NEW doc, Tokenized(doc), InGrammar(doc), NEW t, NEW i, OrdinaryMsg(t.msgs[i]),
           NEW walk, WalksBy(walk, doc.tokens, "msgs"), NEW at \in PlacesOf(doc.tokens, "msgs"),
           at.key = << "msgs" >>, ValueAt(doc, at.token, EncodeMsg(t.msgs[i]))
    PROVE  ShowAllOf(doc, walk[5][2][at], MsgEntries(t, i))
  <1> DEFINE T == doc.tokens
             m == t.msgs[i]
             keys == << "type", "value" >>
             vals == << Str(m.type), Obj(FieldPairs(m)) >>
             two == 2
             paths == [j \in 1 .. two |-> Append(at.key, keys[j])]
             below == Below(T, at)
             root == "msgs"
             P == PlacesOf(T, root)
             first == below[1]
             second == below[2]
             fields == Below(T, second)
             typeField == [key |-> "type", kind |-> "word", is |-> m.type]
             typeEntry == Entry(i, TypeKey, typeField)
             fieldEntries == [n \in DOMAIN m.value |->
                                Entry(i, << "msgs", "value", m.value[n].key >>, m.value[n])]
             count == Len(m.value)
  <1>1. ArePairs(MsgPairs(m), two, keys, vals) /\ EncodeMsg(m) = Obj(MsgPairs(m))
    BY MsgValue
  <1>2. /\ keys[1] = "type" /\ keys[2] = "value"
        /\ vals[1] = Str(m.type) /\ vals[2] = Obj(FieldPairs(m))
    BY ShortSeqs
  <1>3. paths[1] = TypeKey /\ paths[2] = << "msgs", "value" >>
    <2>1. paths[1] = Append(<< root >>, "type") /\ paths[2] = Append(<< root >>, "value")
      BY <1>2
    <2>2. QED
      BY <2>1, LongerPath DEF TypeKey
  <1>4. two \in Nat /\ 1 \in 1 .. two /\ 2 \in 1 .. two
    OBVIOUS
  <1> HIDE DEF keys, vals
  <1>5. ObjectAt(doc, at.token, two, keys, vals)
    <2> HIDE DEF two, m
    <2>1. QED
      BY <1>1, ObjectValueAt DEF m
  <1>6. T[at.token].type = "JSMN_OBJECT"
    BY <1>5 DEF ObjectAt
  <1>7. BelowIs(doc, at, two, paths, vals)
    <2> HIDE DEF two
    <2>1. QED
      BY <1>4, <1>5, BelowObject
  <1> HIDE DEF paths
  <1>8. /\ IsSeq(below) /\ Len(below) = two
        /\ first.key = TypeKey /\ ValueAt(doc, first.token, Str(m.type))
        /\ second.key = << "msgs", "value" >> /\ ValueAt(doc, second.token, Obj(FieldPairs(m)))
    BY <1>2, <1>3, <1>4, <1>7 DEF BelowIs
  <1>9. first \in P /\ second \in P
    <2>1. below \in Seq(P)
      BY BelowType
    <2> HIDE DEF below, P
    <2>2. \A j \in 1 .. Len(below) : below[j] \in P
      BY <2>1
    <2>3. QED
      BY <1>4, <1>8, <2>2
  \* The walk into the message.
  <1> DEFINE pieces == [j \in DOMAIN below |-> walk[4][1][below[j]]]
  <1>10. walk[5][2][at] = FlattenSeq(pieces)
    <2>1. 5 \in 1 .. 6 /\ 2 \in 1 .. 3 /\ 5 - 1 = 4
      OBVIOUS
    <2>2. ~IsFlat(T, at.token) /\ LevelBelow(T, at.token, 2) = 1
      BY <1>6, NotFlat DEF LevelBelow
    <2>3. walk[5][2][at] =
              IF IsFlat(T, at.token) THEN << at >>
              ELSE FlattenSeq([j \in DOMAIN Below(T, at) |->
                      walk[5 - 1][LevelBelow(T, at.token, 2)][Below(T, at)[j]]])
      BY <2>1 DEF WalksBy
    <2> HIDE DEF T
    <2>4. QED
      BY <2>1, <2>2, <2>3 DEF T
  <1> HIDE DEF below
  <1>11. walk[4][1][first] = << first >>
    <2>1. 4 \in 1 .. 6 /\ 1 \in 0 .. 3
      OBVIOUS
    <2>2. IsFlat(T, first.token)
      BY <1>8, WordAt
    <2> HIDE DEF first
    <2>3. QED
      BY <1>9, <2>1, <2>2, WalkEnds
  <1>12. ArePairs(FieldPairs(m), count, FieldKeys(m), FieldValues(m)) /\ count \in Nat
    BY FieldsArePairs DEF ArePairs
  <1>13. ObjectAt(doc, second.token, count, FieldKeys(m), FieldValues(m))
    <2> HIDE DEF count, m, second
    <2>1. QED
      BY <1>8, <1>12, ObjectValueAt
  <1>14. walk[4][1][second] = fields
    <2>1. 4 \in 1 .. 6 /\ T[second.token].type = "JSMN_OBJECT"
      BY <1>13 DEF ObjectAt
    <2> HIDE DEF second
    <2>2. QED
      BY <1>9, <2>1, LastLevel
  <1>15. pieces = << << first >>, fields >>
    <2>1. DOMAIN below = 1 .. 2
      BY <1>8, SeqFacts
    <2>2. pieces = [j \in 1 .. 2 |-> pieces[j]] /\ pieces[1] = << first >> /\ pieces[2] = fields
      BY <1>11, <1>14, <2>1
    <2> HIDE DEF pieces, first, fields
    <2>3. pieces = << pieces[1], pieces[2] >>
      BY <2>2, TwoSeq
    <2>4. QED
      BY <2>2, <2>3
  <1>16. BelowIs(doc, second, count, [j \in 1 .. count |-> Append(second.key, FieldKeys(m)[j])],
                 FieldValues(m))
    <2> HIDE DEF count, second, m
    <2>1. QED
      BY <1>12, <1>13, BelowObject
  <1>17. /\ IsSeq(fields) /\ Len(fields) = count
         /\ \A j \in 1 .. count : fields[j].key = << "msgs", "value", m.value[j].key >>
                                  /\ ValueAt(doc, fields[j].token, EncodeValue(m.value[j]))
    <2>1. /\ IsSeq(fields) /\ Len(fields) = count
          /\ \A j \in 1 .. count : fields[j].key = Append(second.key, FieldKeys(m)[j])
                                   /\ ValueAt(doc, fields[j].token, FieldValues(m)[j])
      BY <1>16 DEF BelowIs
    <2>2. \A j \in 1 .. count : FieldKeys(m)[j] = m.value[j].key
                                /\ FieldValues(m)[j] = EncodeValue(m.value[j])
      BY DEF FieldKeys, FieldValues
    <2>3. \A x : Append(<< "msgs", "value" >>, x) = << "msgs", "value", x >>
      BY LongerPath
    <2> HIDE DEF fields, count, m, second
    <2>4. QED
      BY <1>8, <2>1, <2>2, <2>3
  <1>18. FlattenSeq(pieces) = << first >> \o fields
    <2>1. IsSeq(<< first >>)
      BY ShortSeqs
    <2> HIDE DEF first, fields, pieces
    <2>2. FlattenSeq(<< << first >>, fields >>) = << first >> \o fields
      BY <1>17, <2>1, FlattenFew
    <2>3. QED
      BY <1>15, <2>2
  \* The entries.
  <1>19. MsgEntries(t, i) = << typeEntry >> \o fieldEntries
    BY DEF MsgEntries
  <1>20. ShowAllOf(doc, << first >>, << typeEntry >>)
    <2>1. typeEntry.key = TypeKey /\ typeEntry.value = typeField
      BY DEF Entry
    <2>2. EncodeValue(typeField) = Str(m.type)
      BY DEF EncodeValue
    <2> HIDE DEF typeField, typeEntry, first
    <2>3. Shows(doc, first, typeEntry)
      BY <1>8, <2>1, <2>2 DEF Shows
    <2> DEFINE one == << first >>
               other == << typeEntry >>
    <2>4. IsSeq(one) /\ IsSeq(other) /\ Len(one) = 1 /\ Len(other) = 1
          /\ one[1] = first /\ other[1] = typeEntry
      BY ShortSeqs
    <2> HIDE DEF one, other
    <2>5. \A j \in 1 .. 1 : Shows(doc, one[j], other[j])
      BY <2>3, <2>4
    <2>6. ShowAllOf(doc, one, other)
      BY <2>4, <2>5, ShowsOneByOne
    <2>7. QED
      BY <2>6 DEF one, other
  <1>21. ShowAllOf(doc, fields, fieldEntries)
    <2>1. DOMAIN m.value = 1 .. count
      BY SeqFacts DEF OrdinaryMsg
    <2>2. fieldEntries = [j \in 1 .. count |-> fieldEntries[j]]
      BY <2>1
    <2>3. \A j \in 1 .. count :
             fieldEntries[j].key = << "msgs", "value", m.value[j].key >>
             /\ fieldEntries[j].value = m.value[j]
      BY <2>1 DEF Entry
    <2> HIDE DEF fieldEntries, fields, count
    <2>4. IsSeq(fieldEntries) /\ Len(fieldEntries) = count
      BY <1>12, <2>2, FunctionIsSeq
    <2>5. \A j \in 1 .. count : Shows(doc, fields[j], fieldEntries[j])
      BY <1>17, <2>3 DEF Shows
    <2>6. QED
      BY <1>17, <2>4, <2>5, ShowsOneByOne
  <1> HIDE DEF first, fields, typeEntry, fieldEntries, pieces
  <1>22. ShowAllOf(doc, << first >> \o fields, << typeEntry >> \o fieldEntries)
    BY <1>20, <1>21, ShowsJoined
  <1>23. QED
    BY <1>10, <1>18, <1>19, <1>22

\* A value that is an array of records, where it lies.
LEMMA ArrayValueAt ==
    ASSUME NEW doc, Tokenized(doc), NEW k, NEW vals, NEW n, AreValues(vals, n),
           ValueAt(doc, k, Arr(vals))
    PROVE  ArrayAt(doc, k, n, vals)
  <1>1. PICK a \in Nat : k = a + 1 /\ Follows(doc, a, Arr(vals))
    BY DEF ValueAt
  <1>2. PICK off : Lies(doc, a, off, Arr(vals))
    BY <1>1 DEF Follows
  <1>3. QED
    BY <1>1, <1>2, ArrayLies

\* The leaves that the traversal finds below msgs (parser_traverse_find) are those of
\* the entries of the messages, in their order: path and text.
THEOREM MsgLeaves ==
    ASSUME NEW doc, NEW t, Encodes(doc, t)
    PROVE  ShowAllOf(doc, RootLeaves(doc, "msgs", FALSE), Entries(t))
  <1> DEFINE T == doc.tokens
             root == "msgs"
             k == RootToken(doc, root)
             at == [token |-> k, key |-> << root >>]
             P == PlacesOf(T, root)
             n == Len(t.msgs)
             vals == MsgValues(t)
             below == Below(T, at)
             leaves == RootLeaves(doc, root, FALSE)
  <1>1. Ordinary(t) /\ Tokenized(doc) /\ InGrammar(doc) /\ doc = Encode(t)
    BY DEF Encodes
  <1>2. ValueAt(doc, k, Arr(vals))
    BY <1>1, RootsAt
  <1>3. AreRecords(vals, n) /\ AreValues(vals, n) /\ n \in Nat
    BY <1>1, MsgsAreRecords DEF AreRecords, AreValues
  <1>4. leaves = Leaves(T, k, root, 2)
    BY DEF RootLeaves, get_root_max_level
  <1>5. at.token = k /\ at.key = << root >>
    OBVIOUS
  <1>6. at \in P
    BY <1>2, RootIsPlace DEF ValueAt
  <1>7. DOMAIN t.msgs = 1 .. n /\ \A i \in 1 .. n : OrdinaryMsg(t.msgs[i])
    BY <1>1, SeqFacts DEF Ordinary
  <1>8. \A i \in 1 .. n : vals[i] = EncodeMsg(t.msgs[i])
    BY <1>7 DEF MsgValues
  <1> HIDE DEF k, n, vals
  <1>9. T[k].type = "JSMN_ARRAY"
    <2>1. ArrayAt(doc, k, n, vals)
      BY <1>1, <1>2, <1>3, ArrayValueAt
    <2>2. QED
      BY <2>1 DEF ArrayAt
  <1>10. PICK walk : WalksBy(walk, T, root)
    BY LeavesWalk
  <1> HIDE DEF at, leaves
  <1>11. leaves = walk[6][2][at]
    <2>1. at = [token |-> k, key |-> << root >>] /\ 2 \in 0 .. 3
      BY DEF at
    <2> HIDE DEF root
    <2>2. QED
      BY <1>4, <1>10, <2>1, WalkStarts
  <1> DEFINE pieces == [i \in DOMAIN below |-> walk[5][2][below[i]]]
             entries == [i \in DOMAIN t.msgs |-> MsgEntries(t, i)]
  <1>12. walk[6][2][at] = FlattenSeq(pieces)
    <2>1. 6 \in 1 .. 6 /\ 2 \in 1 .. 3 /\ 6 - 1 = 5
      OBVIOUS
    <2>2. T[at.token].type = "JSMN_ARRAY"
      BY <1>5, <1>9
    <2>3. ~IsFlat(T, at.token) /\ LevelBelow(T, at.token, 2) = 2
      BY <2>2, NotFlat DEF LevelBelow
    <2>4. walk[6][2][at] =
              IF IsFlat(T, at.token) THEN << at >>
              ELSE FlattenSeq([i \in DOMAIN Below(T, at) |->
                      walk[6 - 1][LevelBelow(T, at.token, 2)][Below(T, at)[i]]])
      BY <1>6, <1>10, <2>1 DEF WalksBy
    <2> HIDE DEF T
    <2>5. QED
      BY <2>1, <2>3, <2>4 DEF T
  <1>13. BelowIs(doc, at, n, [i \in 1 .. n |-> at.key], vals)
    BY <1>1, <1>2, <1>3, <1>5, BelowRecords
  <1>14. /\ IsSeq(below) /\ Len(below) = n /\ DOMAIN below = 1 .. n
         /\ \A i \in 1 .. n : below[i].key = << root >> /\ ValueAt(doc, below[i].token, vals[i])
    BY <1>5, <1>13, SeqFacts DEF BelowIs
  <1>15. \A i \in 1 .. n : below[i] \in P
    <2>1. below \in Seq(P)
      BY <1>1, <1>6, BelowType
    <2> HIDE DEF below, P
    <2>2. \A j \in 1 .. Len(below) : below[j] \in P
      BY <2>1
    <2>3. QED
      BY <1>14, <2>2
  <1>16. \A i \in 1 .. n : pieces[i] = walk[5][2][below[i]] /\ entries[i] = MsgEntries(t, i)
    BY <1>7, <1>14
  <1>17. ASSUME NEW i \in 1 .. n PROVE ShowAllOf(doc, pieces[i], entries[i])
    <2> DEFINE place == below[i]
    <2>1. place \in P /\ place.key = << root >> /\ ValueAt(doc, place.token, EncodeMsg(t.msgs[i]))
      BY <1>8, <1>14, <1>15
    <2> HIDE DEF place
    <2>2. ShowAllOf(doc, walk[5][2][place], MsgEntries(t, i))
      BY <1>1, <1>7, <1>10, <2>1, OneMsgLeaves
    <2>3. QED
      BY <1>16, <2>2 DEF place
  <1>18. pieces = [i \in 1 .. n |-> pieces[i]] /\ entries = [i \in 1 .. n |-> entries[i]]
    BY <1>7, <1>14
  <1>19. Entries(t) = FlattenSeq(entries)
    BY DEF Entries
  <1> HIDE DEF pieces, entries
  <1>20. AreSeqs(pieces, n) /\ AreSeqs(entries, n)
    <2>1. \A i \in 1 .. n : IsSeq(pieces[i]) /\ IsSeq(entries[i])
      BY <1>17, ShowsOneByOne
    <2>2. IsSeq(pieces) /\ Len(pieces) = n /\ IsSeq(entries) /\ Len(entries) = n
      BY <1>3, <1>18, FunctionIsSeq
    <2>3. QED
      BY <1>3, <2>1, <2>2 DEF AreSeqs
  <1>21. ShowAllOf(doc, FlattenSeq(pieces), FlattenSeq(entries))
    BY <1>17, <1>20, ShowsFlattened
  <1>22. QED
    BY <1>11, <1>12, <1>19, <1>21 DEF leaves

-----------------------------------------------------------------------------
(* The text of a value (parser_getToken, parser_formatAmount).             *)

\* A part of a sequence.
LEMMA PartOf ==
    ASSUME NEW s, NEW a \in Nat, NEW n \in Nat, NEW u, u = SubSeq(s, a + 1, a + 1 + n)
    PROVE  u = [i \in 1 .. n + 1 |-> s[a + i]]
  <1>1. u = [i \in 1 .. (1 + (a + 1 + n)) - (a + 1) |-> s[(a + 1 + i) - 1]]
    BY DEF SubSeq
  <1>2. (1 + (a + 1 + n)) - (a + 1) = n + 1
    OBVIOUS
  <1>3. \A i \in 1 .. n + 1 : (a + 1 + i) - 1 = a + i
    OBVIOUS
  <1>4. QED
    BY <1>1, <1>2, <1>3

\* What a piece holds, as its tokens' types and texts.
Held(tokens) == [i \in DOMAIN tokens |-> << tokens[i].type, tokens[i].text >>]

\* The tokens of an object or an array: its own is the first.
LEMMA NestedHeld ==
    ASSUME NEW type, NEW p, IsPiece(p), NEW v, v = Bracketed(type, p)
    PROVE  /\ IsSeq(v.tokens) /\ Len(p.tokens) \in Nat /\ Len(v.tokens) = 1 + Len(p.tokens)
           /\ DOMAIN v.tokens = 1 .. Len(p.tokens) + 1
           /\ Held(v.tokens)[1] = << type, "" >>
  <1> DEFINE n == Len(p.tokens)
             all == v.tokens
             first == all[1]
             end == p.len + 2
  <1>1. IsValue(v) /\ Len(all) = 1 + n
    BY BracketedPiece
  <1>2. first = [type |-> type, start |-> 0, end |-> end, text |-> ""]
    BY BracketedPiece
  <1>3. n \in Nat /\ IsSeq(all)
    BY <1>1 DEF IsPiece, IsValue, IsSeq
  <1>4. DOMAIN all = 1 .. Len(all)
    BY <1>3, SeqFacts
  <1> HIDE DEF first, end, n, all
  <1>5. first.type = type /\ first.text = ""
    BY <1>2
  <1>6. Len(all) = n + 1 /\ 1 \in DOMAIN all
    BY <1>1, <1>3, <1>4
  <1>7. Held(all)[1] = << type, "" >>
    BY <1>5, <1>6 DEF Held, first
  <1>8. DOMAIN all = 1 .. n + 1
    BY <1>4, <1>6
  <1>9. QED
    BY <1>1, <1>3, <1>7, <1>8 DEF n, all

\* An object or an array is shown as all it holds.
LEMMA NestedText ==
    ASSUME NEW doc, Tokenized(doc), NEW type \in {"JSMN_OBJECT", "JSMN_ARRAY"},
           NEW p, IsPiece(p), NEW v, v = Bracketed(type, p), NEW k, ValueAt(doc, k, v)
    PROVE  Text(doc.tokens, k) = Held(v.tokens)
  <1>1. PICK a, off : a \in Nat /\ k = a + 1 /\ Lies(doc, a, off, v)
    BY DEF ValueAt, Follows
  <1> DEFINE n == Len(p.tokens)
  <1>3. /\ doc.tokens[a + 1].type = type
        /\ n = Cardinality(Within(doc.tokens, a + 1))
    BY <1>1, BracketedLies
  <1>4. n \in Nat /\ IsSeq(v.tokens)
    BY NestedHeld
  <1>5. DOMAIN v.tokens = 1 .. n + 1
    BY NestedHeld
  <1>6. \A i \in 1 .. n + 1 : doc.tokens[a + i].type = v.tokens[i].type
                              /\ doc.tokens[a + i].text = v.tokens[i].text
    <2>1. \A i \in 1 .. Len(v.tokens) : IsMoved(doc.tokens[a + i], v.tokens[i], off)
      BY <1>1 DEF Lies
    <2>2. 1 .. Len(v.tokens) = 1 .. n + 1
      <3>1. DOMAIN v.tokens = 1 .. Len(v.tokens)
        BY <1>4, SeqFacts
      <3>2. QED
        BY <1>5, <3>1
    <2>3. \A i \in 1 .. n + 1 : IsMoved(doc.tokens[a + i], v.tokens[i], off)
      BY <2>1, <2>2
    <2> HIDE DEF n
    <2>4. QED
      BY <2>3 DEF IsMoved
  <1> DEFINE part == SubSeq(doc.tokens, k, k + n)
  <1>7. part = [i \in 1 .. n + 1 |-> doc.tokens[a + i]]
    <2>1. part = SubSeq(doc.tokens, a + 1, a + 1 + n)
      BY <1>1
    <2> HIDE DEF part, n
    <2>2. QED
      BY <1>1, <1>4, <2>1, PartOf
  <1>8. Text(doc.tokens, k) = Each(part, LAMBDA t : << t.type, t.text >>)
    <2>1. ~IsFlat(doc.tokens, k)
      BY <1>1, <1>3, NotFlat
    <2>2. QED
      BY <1>1, <1>3, <2>1 DEF Text
  <1> HIDE DEF part, n
  <1>9. Each(part, LAMBDA t : << t.type, t.text >>)
           = [i \in DOMAIN part |-> << part[i].type, part[i].text >>]
    BY DEF Each
  <1>10. Text(doc.tokens, k) = Held(v.tokens)
    <2>1. DOMAIN part = 1 .. n + 1
      BY <1>7
    <2>2. \A i \in 1 .. n + 1 : part[i].type = v.tokens[i].type /\ part[i].text = v.tokens[i].text
      BY <1>6, <1>7
    <2>3. QED
      BY <1>5, <1>8, <1>9, <2>1, <2>2 DEF Held
  <1>11. QED
    BY <1>10

\* The value of a field that is no word is an object or an array.
LEMMA NestedField ==
    ASSUME NEW v, OrdinaryField(v), v.kind \notin {"word", "number"}
    PROVE  \E type \in {"JSMN_OBJECT", "JSMN_ARRAY"} : \E p :
              IsPiece(p) /\ EncodeValue(v) = Bracketed(type, p)
  <1>0. v.kind \in {"coins", "json"} /\ IsSeq(v.is)
    BY DEF OrdinaryField
  <1>1. CASE v.kind = "coins"
    <2> DEFINE coins == [i \in DOMAIN v.is |-> EncodeCoin(v.is[i])]
    <2>1. EncodeValue(v) = Arr(coins)
      BY <1>1 DEF EncodeValue, EncodeCoins
    <2>2. AreValues(coins, Len(v.is))
      BY <1>0, CoinsValue
    <2> HIDE DEF coins
    <2>3. QED
      BY <2>1, <2>2, ArrayPiece
  <1>2. CASE v.kind = "json"
    <2> DEFINE pairs == [i \in DOMAIN v.is |-> Pair(v.is[i][1], Str(v.is[i][2]))]
               keys == [i \in 1 .. Len(v.is) |-> v.is[i][1]]
               vals == [i \in 1 .. Len(v.is) |-> Str(v.is[i][2])]
    <2>1. EncodeValue(v) = Obj(pairs)
      BY <1>2 DEF EncodeValue
    <2>2. Len(v.is) \in Nat /\ DOMAIN v.is = 1 .. Len(v.is)
      BY <1>0, SeqFacts
    <2>3. \A i \in 1 .. Len(v.is) : IsValue(vals[i]) /\ pairs[i] = Pair(keys[i], vals[i])
      BY <2>2, TextPiece
    <2>4. pairs = [i \in 1 .. Len(v.is) |-> pairs[i]]
      BY <2>2
    <2> HIDE DEF pairs, keys, vals
    <2>5. ArePairs(pairs, Len(v.is), keys, vals)
      BY <2>2, <2>3, <2>4, SomePairs
    <2>6. QED
      BY <2>1, <2>5, ObjectPiece
  <1>3. QED
    BY <1>0, <1>1, <1>2

\* The value of a field is no text that the display replaces.
LEMMA RawIsKept ==
    ASSUME NEW v, OrdinaryField(v)
    PROVE  Substituted(Raw(v)) = Raw(v)
  <1>1. MsgExecuteContract[1] = << "JSMN_STRING", "wasm/MsgExecuteContract" >>
    BY DEF MsgExecuteContract, Word
  <1>2. CASE v.kind \in {"word", "number"}
    <2>1. IsKept(v.is)
      BY <1>2 DEF OrdinaryField
    <2>2. Raw(v) = Word(v.is)
      BY <1>2 DEF Raw
    <2>3. Word(v.is)[1] = << "JSMN_STRING", v.is >>
      BY DEF Word
    <2>4. Word(v.is) # MsgExecuteContract
      <3>1. << "JSMN_STRING", v.is >> # << "JSMN_STRING", "wasm/MsgExecuteContract" >>
        BY <2>1 DEF IsKept
      <3>2. QED
        BY <1>1, <2>3, <3>1
    <2>5. QED
      BY <2>2, <2>4 DEF Substituted
  <1>3. CASE v.kind \notin {"word", "number"}
    <2>1. PICK type, p : /\ type \in {"JSMN_OBJECT", "JSMN_ARRAY"} /\ IsPiece(p)
                         /\ EncodeValue(v) = Bracketed(type, p)
      BY <1>3, NestedField
    <2> DEFINE value == EncodeValue(v)
    <2>2. Raw(v) = Held(value.tokens)
      BY <1>3 DEF Raw, Held
    <2>3. value = Bracketed(type, p)
      BY <2>1
    <2> HIDE DEF value
    <2>4. Held(value.tokens)[1] = << type, "" >>
      BY <2>1, <2>3, NestedHeld
    <2>5. << type, "" >> # << "JSMN_STRING", "wasm/MsgExecuteContract" >>
      BY <2>1
    <2>6. Raw(v) # MsgExecuteContract
      BY <1>1, <2>2, <2>4, <2>5
    <2>7. QED
      BY <2>6 DEF Substituted
  <1>4. QED
    BY <1>2, <1>3

\* The value of a field is shown as it is meant.
LEMMA FieldText ==
    ASSUME NEW doc, Tokenized(doc), NEW v, OrdinaryField(v), NEW k,
           ValueAt(doc, k, EncodeValue(v))
    PROVE  Text(doc.tokens, k) = Raw(v)
  <1>1. CASE v.kind \in {"word", "number"}
    <2>1. Raw(v) = Word(v.is)
      BY <1>1 DEF Raw
    <2>2. EncodeValue(v) = Str(v.is) \/ EncodeValue(v) = Number(v.is)
      BY <1>1 DEF EncodeValue
    <2>3. QED
      BY <2>1, <2>2, WordAt
  <1>2. CASE v.kind \notin {"word", "number"}
    <2>1. PICK type, p : /\ type \in {"JSMN_OBJECT", "JSMN_ARRAY"} /\ IsPiece(p)
                         /\ EncodeValue(v) = Bracketed(type, p)
      BY <1>2, NestedField
    <2> DEFINE value == EncodeValue(v)
    <2>2. Raw(v) = Held(value.tokens)
      BY <1>2 DEF Raw, Held
    <2>3. value = Bracketed(type, p) /\ ValueAt(doc, k, value)
      BY <2>1
    <2> HIDE DEF value
    <2>4. Text(doc.tokens, k) = Held(value.tokens)
      BY <2>1, <2>3, NestedText
    <2>5. QED
      BY <2>2, <2>4
  <1>3. QED
    BY <1>1, <1>2

\* A scan of a token with another one inside finds one.
LEMMA ScanFindsOne ==
    ASSUME NEW tokens, NEW k, NEW ends, NEW c \in Nat, c > 0,
           c = Cardinality(Within(tokens, k)), ~(tokens[k + 1].start <= tokens[k].start)
    PROVE  Scan(tokens, k, ends) # << >>
  <1>1. PICK g : /\ g[0] = [end |-> tokens[k].start, elements |-> << >>]
                 /\ \A i \in 1 .. c : g[i] = ScanStep(tokens, k, ends, g[i - 1], i)
                 /\ Scan(tokens, k, ends) = g[c].elements
    BY ScanIsRun
  <1> DEFINE some(i) == IsSeq(g[i].elements) /\ Len(g[i].elements) > 0
             S == {i \in 0 .. c - 1 : some(i + 1)}
  <1>2. some(1)
    <2> DEFINE begin == g[0]
    <2>1. begin.end = tokens[k].start /\ begin.elements = << >>
      BY <1>1
    <2>2. 1 \in 1 .. c /\ 1 - 1 = 0
      OBVIOUS
    <2>3. g[1] = ScanStep(tokens, k, ends, begin, 1)
      BY <1>1, <2>2
    <2> HIDE DEF begin
    <2>4. g[1].elements = Append(<< >>, k + 1)
      BY <2>1, <2>3 DEF ScanStep
    <2>5. IsSeq(Append(<< >>, k + 1)) /\ Len(Append(<< >>, k + 1)) = Len(<< >>) + 1
      BY Appended, ShortSeqs
    <2>6. QED
      BY <2>4, <2>5, ShortSeqs
  <1>3. ASSUME NEW i \in 0 .. c - 1, i \in S, i + 1 \in 0 .. c - 1 PROVE i + 1 \in S
    <2> DEFINE before == g[i + 1]
               after == g[i + 1 + 1]
    <2>1. i + 1 + 1 \in 1 .. c /\ (i + 1 + 1) - 1 = i + 1
      BY <1>3
    <2>2. after = ScanStep(tokens, k, ends, before, i + 1 + 1)
      BY <1>1, <2>1
    <2>3. IsSeq(before.elements) /\ Len(before.elements) > 0 /\ Len(before.elements) \in Nat
      BY <1>3, SeqFacts
    <2> HIDE DEF before, after
    <2>4. \/ after = before
          \/ after.elements = Append(before.elements, k + (i + 1 + 1))
      BY <2>2 DEF ScanStep
    <2>5. IsSeq(after.elements) /\ Len(after.elements) > 0
      <3> DEFINE old == before.elements
                 x == k + (i + 1 + 1)
                 longer == Append(old, x)
      <3>1. IsSeq(old) /\ Len(old) > 0 /\ Len(old) \in Nat
        BY <2>3
      <3>2. after = before \/ after.elements = longer
        BY <2>4
      <3> HIDE DEF x
      <3>3. IsSeq(longer) /\ Len(longer) = Len(old) + 1
        BY <3>1, Appended
      <3> HIDE DEF longer
      <3>4. Len(longer) > 0
        BY <3>1, <3>3
      <3>5. QED
        BY <3>1, <3>2, <3>3, <3>4
    <2>6. QED
      BY <1>3, <2>5 DEF after
  <1>4. 0 \in S
    BY <1>2
  <1>5. c - 1 \in Nat
    OBVIOUS
  <1> HIDE DEF some
  <1>6. \A i \in 0 .. c - 1 : i \in S
    <2> DEFINE last == c - 1
               R == {i \in 0 .. last : i \in S}
    <2>1. 0 \in R
      BY <1>4, <1>5
    <2>2. \A i \in 0 .. last - 1 : i \in R => i + 1 \in R
      BY <1>3, <1>5
    <2>3. last \in Nat
      BY <1>5
    <2> HIDE DEF R, last, S
    <2>4. \A i \in 0 .. last : i \in R
      BY <2>1, <2>2, <2>3, Induction
    <2>5. QED
      BY <2>4 DEF R, last
  <1>7. some(c)
    <2>1. c - 1 \in S /\ c - 1 + 1 = c
      BY <1>5, <1>6
    <2>2. QED
      BY <2>1
  <1>8. QED
    BY <1>1, <1>7, ShortSeqs DEF some

\* A coin of the document: its amount is behind its first key, its denomination
\* behind the second.
LEMMA CoinLies ==
    ASSUME NEW doc, Tokenized(doc), NEW a \in Nat, NEW c, Follows(doc, a, EncodeCoin(c))
    PROVE  Coin(doc.tokens, a + 1) = << Word(c[1]), Word(c[2]) >>
  <1> DEFINE x == Str(c[1])
             y == Str(c[2])
             P == Pair("amount", x)
             Q == Pair("denom", y)
             pairs == << P, Q >>
             p == a + 1
  <1>1. PICK off : Lies(doc, a, off, Bracketed("JSMN_OBJECT", Row(pairs)))
    BY DEF Follows, EncodeCoin, Obj
  <1>2. IsValue(x) /\ Len(x.tokens) = 1 /\ IsValue(y)
    BY TextPiece
  <1>3. /\ IsPiece(P) /\ Len(P.tokens) = 1 + Len(x.tokens) /\ IsPiece(Q)
        /\ Len(Q.tokens) = 1 + Len(y.tokens)
    BY <1>2, PairPiece
  <1> HIDE DEF x, y, P, Q
  <1>4. ArePieces(pairs, 2)
    BY <1>3, ShortSeqs DEF ArePieces
  <1>5. IsPiece(Row(pairs))
    BY <1>4, RowPiece
  <1> HIDE DEF pairs
  <1>6. /\ Lies(doc, a + 1, off + 1, Row(pairs))
        /\ Len(Row(pairs).tokens) = Cardinality(Within(doc.tokens, a + 1))
        /\ p \in DOMAIN doc.tokens
    BY <1>1, <1>5, BracketedLies
  <1>7. PICK at : PlacedAt(doc, at, pairs, 2, p, p + Len(Row(pairs).tokens))
    BY <1>4, <1>6, RowLies
  <1>8. pairs[1] = P /\ pairs[2] = Q
    BY DEF pairs
  <1>9. /\ at[1] = p /\ at[2] = at[1] + Len(P.tokens)
        /\ \E o : Lies(doc, at[1], o, P)
        /\ \E o : Lies(doc, at[2], o, Q)
    <2>1. 1 \in 1 .. 2 /\ 2 \in 1 .. 2 /\ 1 + 1 = 2
      OBVIOUS
    <2>2. QED
      BY <1>7, <1>8, <2>1 DEF PlacedAt
  <1>10. /\ p \in Nat /\ p + 1 \in DOMAIN doc.tokens
         /\ \E o : Lies(doc, p + 1, o, x)
    <2>1. PICK o : Lies(doc, p, o, P)
      BY <1>9
    <2> HIDE DEF p
    <2>2. QED
      BY <1>2, <2>1, PairLies DEF P
  <1>11. /\ p + 2 + 1 \in DOMAIN doc.tokens
         /\ \E o : Lies(doc, p + 2 + 1, o, y)
    <2>1. at[2] = p + 2
      BY <1>2, <1>3, <1>9, <1>10
    <2>2. PICK o : Lies(doc, p + 2, o, Q)
      BY <1>9, <2>1
    <2> HIDE DEF p
    <2>3. QED
      BY <1>2, <2>2, PairLies DEF Q
  <1>12. /\ Len(doc.tokens) \in Nat /\ DOMAIN doc.tokens = 1 .. Len(doc.tokens)
         /\ \A j \in 1 .. Len(doc.tokens) - 1 :
                 ~(doc.tokens[j + 1].start <= doc.tokens[j].start)
    BY TokensOf
  <1>13. /\ Text(doc.tokens, p + 2) = Word(c[1])
         /\ Text(doc.tokens, p + 4) = Word(c[2])
    <2>1. /\ p + 2 = p + 1 + 1 /\ p + 4 = p + 2 + 1 + 1 /\ p + 1 \in Nat /\ p + 2 + 1 \in Nat
      OBVIOUS
    <2>2. p + 2 \in DOMAIN doc.tokens
      <3>1. PICK o : Lies(doc, p + 1, o, x)
        BY <1>10
      <3> DEFINE q == p + 1
      <3>2. Lies(doc, q, o, x)
        BY <3>1
      <3> HIDE DEF q
      <3>3. q + 1 \in DOMAIN doc.tokens
        BY <1>2, <3>2, ValueLies
      <3>4. QED
        BY <2>1, <3>3 DEF q
    <2>3. p + 4 \in DOMAIN doc.tokens
      <3>1. PICK o : Lies(doc, p + 2 + 1, o, y)
        BY <1>11
      <3> DEFINE q == p + 2 + 1
      <3>2. Lies(doc, q, o, y)
        BY <3>1
      <3> HIDE DEF q
      <3>3. q + 1 \in DOMAIN doc.tokens
        BY <1>2, <3>2, ValueLies
      <3>4. QED
        BY <2>1, <3>3 DEF q
    <2>4. ValueAt(doc, p + 2, Str(c[1])) /\ ValueAt(doc, p + 4, Str(c[2]))
      BY <1>10, <1>11, <2>1, <2>2, <2>3 DEF ValueAt, Follows, x, y
    <2> HIDE DEF p
    <2>5. QED
      BY <2>4, WordAt
  <1>14. ~IsEmpty(doc.tokens, p)
    <2> DEFINE n == Cardinality(Within(doc.tokens, p))
    <2>1. n \in Nat /\ n > 0
      <3> DEFINE len == Len(Row(pairs).tokens)
                 q == Len(Q.tokens)
      <3>1. at[2 + 1] = p + len /\ at[2 + 1] = at[2] + q /\ len \in Nat
        <4>1. 2 \in 1 .. 2 /\ len \in Nat
          BY <1>5 DEF IsPiece, IsSeq
        <4>2. QED
          BY <1>7, <1>8, <4>1 DEF PlacedAt
      <3>2. at[2] = p + 2
        BY <1>2, <1>3, <1>9, <1>10
      <3>3. q \in Nat
        BY <1>3 DEF IsPiece, IsSeq
      <3>4. len = n
        BY <1>6
      <3> HIDE DEF len, q, n, p
      <3>5. QED
        BY <1>10, <3>1, <3>2, <3>3, <3>4
    <2>2. ~(doc.tokens[p + 1].start <= doc.tokens[p].start)
      BY <1>6, <1>10, <1>12
    <2> HIDE DEF n
    <2>3. \A ends : Scan(doc.tokens, p, ends) # << >>
      BY <2>1, <2>2, ScanFindsOne DEF n
    <2>4. QED
      BY <2>3 DEF IsEmpty, array_elements
  <1>15. QED
    BY <1>13, <1>14 DEF Coin

\* Coins of the document, as they are shown.
LEMMA CoinsShown ==
    ASSUME NEW doc, Tokenized(doc), NEW k, NEW coins, IsSeq(coins),
           ValueAt(doc, k, EncodeCoins(coins))
    PROVE  parser_formatAmount(doc.tokens, AmountParts(doc.tokens, k)) = ShownCoins(coins)
  <1> DEFINE vals == [i \in DOMAIN coins |-> EncodeCoin(coins[i])]
             n == Len(coins)
             parts == AmountParts(doc.tokens, k)
             found == array_elements(doc.tokens, k)
  <1>1. PICK a, off : a \in Nat /\ k = a + 1 /\ Lies(doc, a, off, Arr(vals))
    BY DEF ValueAt, Follows, EncodeCoins
  <1>2. AreValues(vals, n) /\ n \in Nat /\ DOMAIN coins = 1 .. n
    BY CoinsValue, SeqFacts
  <1>3. \A i \in 1 .. n : vals[i] = EncodeCoin(coins[i])
    BY <1>2
  <1> HIDE DEF vals
  <1>4. ArrayAt(doc, k, n, vals)
    BY <1>1, <1>2, ArrayLies
  <1>5. /\ doc.tokens[k].type = "JSMN_ARRAY" /\ IsSeq(found) /\ Len(found) = n
        /\ \A i \in 1 .. n : \E b \in Nat : found[i] = b + 1 /\ Follows(doc, b, vals[i])
    BY <1>4 DEF ArrayAt
  <1>6. parts = found
    BY <1>5 DEF AmountParts
  <1> HIDE DEF parts, found
  <1>7. DOMAIN found = 1 .. n
    BY <1>5, SeqFacts
  <1>8. ASSUME NEW i \in 1 .. n
        PROVE  Coin(doc.tokens, found[i]) = << Word(coins[i][1]), Word(coins[i][2]) >>
    <2>1. PICK b \in Nat : found[i] = b + 1 /\ Follows(doc, b, EncodeCoin(coins[i]))
      BY <1>3, <1>5
    <2>2. QED
      BY <2>1, CoinLies
  <1>9. CASE n = 0
    <2>1. found = << >> /\ coins = << >>
      BY <1>5, <1>9, ShortSeqs, SameSeq
    <2>2. QED
      BY <1>6, <2>1 DEF parser_formatAmount, ShownCoins, parts
  <1>10. CASE n # 0
    <2>1. found # << >> /\ coins # << >>
      BY <1>5, <1>10, ShortSeqs
    <2>2. Each(found, LAMBDA e : Coin(doc.tokens, e))
             = [i \in 1 .. n |-> << Word(coins[i][1]), Word(coins[i][2]) >>]
      BY <1>7, <1>8 DEF Each
    <2>3. QED
      BY <1>2, <1>6, <2>1, <2>2 DEF parser_formatAmount, ShownCoins, parts
  <1>11. QED
    BY <1>9, <1>10

-----------------------------------------------------------------------------
(* The entries of the messages, and the screens that are expected of them. *)

\* Where FlattenSeq puts the elements of n sequences.
PlacesBy(off, seqs, n) ==
    LET flat == FlattenSeq(seqs)
    IN  /\ \A m \in 0 .. n : off[m] \in Nat
        /\ off[0] = 0 /\ off[n] = Len(flat)
        /\ \A m \in 1 .. n : off[m] = off[m - 1] + Len(seqs[m])
        /\ \A m \in 1 .. n : \A p \in 1 .. Len(seqs[m]) : flat[off[m - 1] + p] = seqs[m][p]

\* Every joined sequence has such places.
LEMMA FlattenPlaces ==
    ASSUME NEW n, NEW seqs, AreSeqs(seqs, n)
    PROVE  \E off : PlacesBy(off, seqs, n)
  <1>1. PICK f : FlattensBy(f, seqs, n)
    BY FlattenRun
  <1>2. /\ n \in Nat /\ \A i \in 1 .. n : IsSeq(seqs[i])
        /\ f[0] = << >> /\ \A i \in 1 .. n : f[i] = f[i - 1] \o seqs[i]
        /\ \A i \in 0 .. n : IsSeq(f[i])
        /\ FlattenSeq(seqs) = f[n]
    BY <1>1 DEF AreSeqs, FlattensBy
  <1> DEFINE off == [m \in 0 .. n |-> Len(f[m])]
  <1>3. \A m \in 0 .. n : off[m] = Len(f[m]) /\ off[m] \in Nat
    BY <1>2, SeqFacts
  <1> HIDE DEF off
  <1>4. 0 \in 0 .. n /\ n \in 0 .. n
    BY <1>2
  <1>5. off[0] = 0 /\ off[n] = Len(FlattenSeq(seqs))
    BY <1>2, <1>3, <1>4, ShortSeqs
  <1>6. ASSUME NEW m \in 1 .. n
        PROVE  /\ m - 1 \in 0 .. n /\ m \in 0 .. n /\ off[m] = off[m - 1] + Len(seqs[m])
               /\ Len(seqs[m]) \in Nat
               /\ \A j \in 1 .. Len(f[m - 1]) : f[m][j] = f[m - 1][j]
               /\ \A p \in 1 .. Len(seqs[m]) : f[m][off[m - 1] + p] = seqs[m][p]
    <2> DEFINE a == f[m - 1]
               b == seqs[m]
    <2>1. m - 1 \in 0 .. n /\ m \in 0 .. n
      BY <1>2
    <2>2. IsSeq(a) /\ IsSeq(b) /\ f[m] = a \o b /\ off[m - 1] = Len(a) /\ off[m] = Len(f[m])
      BY <1>2, <1>3, <2>1
    <2> HIDE DEF a, b
    <2>3. /\ Len(a \o b) = Len(a) + Len(b)
          /\ \A i \in 1 .. Len(a) : (a \o b)[i] = a[i]
          /\ \A j \in 1 .. Len(b) : (a \o b)[Len(a) + j] = b[j]
          /\ Len(b) \in Nat
      BY <2>2, Joined, SeqFacts
    <2>4. QED
      BY <2>1, <2>2, <2>3 DEF a, b
  \* What is in place stays there.
  <1> DEFINE S == {i \in 0 .. n : \A m \in 1 .. i : \A p \in 1 .. Len(seqs[m]) :
                      /\ off[m - 1] + p \in 1 .. off[i]
                      /\ f[i][off[m - 1] + p] = seqs[m][p]}
  <1>7. 0 \in S
    BY <1>2
  <1>8. ASSUME NEW i \in 0 .. n - 1, i \in S PROVE i + 1 \in S
    <2>1. i + 1 \in 1 .. n /\ (i + 1) - 1 = i /\ i \in 0 .. n /\ i + 1 \in 0 .. n
      BY <1>2
    <2>2. /\ off[i + 1] = off[i] + Len(seqs[i + 1]) /\ Len(seqs[i + 1]) \in Nat
          /\ off[i] \in Nat /\ off[i] = Len(f[i])
          /\ \A j \in 1 .. Len(f[i]) : f[i + 1][j] = f[i][j]
          /\ \A p \in 1 .. Len(seqs[i + 1]) : f[i + 1][off[i] + p] = seqs[i + 1][p]
      <3> DEFINE m == i + 1
      <3>1. m \in 1 .. n /\ m - 1 = i
        BY <2>1
      <3> HIDE DEF m
      <3>2. /\ off[m] = off[i] + Len(seqs[m]) /\ Len(seqs[m]) \in Nat
            /\ \A j \in 1 .. Len(f[i]) : f[m][j] = f[i][j]
            /\ \A p \in 1 .. Len(seqs[m]) : f[m][off[i] + p] = seqs[m][p]
        BY <1>6, <3>1
      <3>3. off[i] \in Nat /\ off[i] = Len(f[i])
        BY <1>3, <2>1
      <3>4. QED
        BY <3>2, <3>3 DEF m
    <2>3. ASSUME NEW m \in 1 .. i + 1, NEW p \in 1 .. Len(seqs[m])
          PROVE  /\ off[m - 1] + p \in 1 .. off[i + 1]
                 /\ f[i + 1][off[m - 1] + p] = seqs[m][p]
      <3>1. CASE m = i + 1
        <4> DEFINE j == i + 1
                   len == Len(seqs[j])
        <4>1. m = j /\ m - 1 = i
          BY <2>1, <3>1
        <4>2. /\ off[j] = off[i] + len /\ len \in Nat /\ off[i] \in Nat
              /\ p \in 1 .. len /\ f[j][off[i] + p] = seqs[j][p]
          BY <2>2, <4>1
        <4> HIDE DEF j, len
        <4>3. off[i] + p \in 1 .. off[j]
          BY <4>2
        <4>4. off[m - 1] + p \in 1 .. off[j] /\ f[j][off[m - 1] + p] = seqs[m][p]
          BY <4>1, <4>2, <4>3
        <4>5. QED
          BY <4>4 DEF j
      <3>2. CASE m # i + 1
        <4>1. m \in 1 .. i
          BY <2>1, <3>2
        <4>2. off[m - 1] + p \in 1 .. off[i] /\ f[i][off[m - 1] + p] = seqs[m][p]
          BY <1>8, <4>1
        <4> DEFINE x == off[m - 1] + p
        <4>3. x \in 1 .. off[i] /\ f[i][x] = seqs[m][p]
          BY <4>2
        <4> HIDE DEF x
        <4> DEFINE j == i + 1
                   len == Len(seqs[j])
        <4>4. /\ off[j] = off[i] + len /\ len \in Nat /\ off[i] \in Nat
              /\ off[i] = Len(f[i]) /\ \A y \in 1 .. Len(f[i]) : f[j][y] = f[i][y]
          BY <2>2
        <4> HIDE DEF j, len
        <4>5. x \in 1 .. off[j] /\ f[j][x] = seqs[m][p]
          BY <4>3, <4>4
        <4>6. QED
          BY <4>5 DEF x, j
      <3>3. QED
        BY <3>1, <3>2
    <2>4. QED
      BY <2>1, <2>3
  <1> HIDE DEF S
  <1>9. n \in S
    BY <1>2, <1>4, <1>7, <1>8, Induction
  <1>10. \A m \in 1 .. n : \A p \in 1 .. Len(seqs[m]) : f[n][off[m - 1] + p] = seqs[m][p]
    BY <1>9 DEF S
  <1>11. PlacesBy(off, seqs, n)
    BY <1>2, <1>3, <1>5, <1>6, <1>10 DEF PlacesBy
  <1>12. QED
    BY <1>11

\* They are in the order of the sequences and of the elements in each, and no
\* others.
LEMMA PlacesAreAll ==
    ASSUME NEW n \in Nat, NEW seqs, NEW off, PlacesBy(off, seqs, n), AreSeqs(seqs, n)
    PROVE  /\ \A a, b \in 0 .. n : a <= b => off[a] <= off[b]
           /\ \A x \in 1 .. off[n] : \E m \in 1 .. n : \E p \in 1 .. Len(seqs[m]) :
                 x = off[m - 1] + p
  <1>1. /\ \A m \in 0 .. n : off[m] \in Nat
        /\ off[0] = 0
        /\ \A m \in 1 .. n : off[m] = off[m - 1] + Len(seqs[m])
    BY DEF PlacesBy
  <1>2. \A m \in 1 .. n : Len(seqs[m]) \in Nat
    BY SeqFacts DEF AreSeqs
  <1> DEFINE S == {i \in 0 .. n :
                     /\ \A a \in 0 .. i : off[a] <= off[i]
                     /\ \A x \in 1 .. off[i] : \E m \in 1 .. n : \E p \in 1 .. Len(seqs[m]) :
                           x = off[m - 1] + p}
  <1>3. 0 \in S
    BY <1>1
  <1>4. ASSUME NEW i \in 0 .. n - 1, i \in S PROVE i + 1 \in S
    <2> DEFINE j == i + 1
               len == Len(seqs[j])
    <2>1. /\ j \in 1 .. n /\ j \in 0 .. n /\ i \in 0 .. n /\ j - 1 = i
      OBVIOUS
    <2>2. off[j] = off[i] + len /\ len \in Nat /\ off[i] \in Nat /\ off[j] \in Nat
      BY <1>1, <1>2, <2>1
    <2>3. ASSUME NEW a \in 0 .. j PROVE off[a] <= off[j]
      <3>1. CASE a = j
        BY <2>2, <3>1
      <3>2. CASE a # j
        <4>1. a \in 0 .. i /\ a \in 0 .. n
          BY <2>1, <3>2
        <4>2. off[a] <= off[i] /\ off[a] \in Nat
          BY <1>1, <1>4, <4>1
        <4> HIDE DEF j, len
        <4>3. QED
          BY <2>2, <4>2
      <3>3. QED
        BY <3>1, <3>2
    <2>4. ASSUME NEW x \in 1 .. off[j]
          PROVE  \E m \in 1 .. n : \E p \in 1 .. Len(seqs[m]) : x = off[m - 1] + p
      <3>1. CASE x <= off[i]
        <4>1. x \in 1 .. off[i]
          BY <2>2, <3>1
        <4>2. QED
          BY <1>4, <4>1
      <3>2. CASE ~(x <= off[i])
        <4> DEFINE p == x - off[i]
        <4>1. p \in 1 .. len /\ x = off[i] + p
          BY <2>2, <3>2
        <4> HIDE DEF p
        <4>2. p \in 1 .. Len(seqs[j]) /\ x = off[j - 1] + p
          BY <2>1, <4>1
        <4> HIDE DEF j, len
        <4>3. QED
          BY <2>1, <4>2
      <3>3. QED
        BY <3>1, <3>2
    <2>5. QED
      BY <2>1, <2>3, <2>4
  <1> HIDE DEF S
  <1>5. \A i \in 0 .. n : i \in S
    BY <1>3, <1>4, Induction
  <1>6. n \in S
    BY <1>5
  <1>7. ASSUME NEW a \in 0 .. n, NEW b \in 0 .. n, a <= b PROVE off[a] <= off[b]
    <2>1. b \in S /\ a \in 0 .. b
      BY <1>5, <1>7
    <2>2. QED
      BY <2>1 DEF S
  <1>8. QED
    BY <1>6, <1>7 DEF S

\* The type of a message as one of its fields.
TypeField(m) == [key |-> "type", kind |-> "word", is |-> m.type]

\* What the entries of a message are: its type and then its fields.
AreOfMsg(es, m, i) ==
    /\ IsSeq(es) /\ Len(es) = 1 + Len(m.value) /\ Len(m.value) \in Nat
    /\ es[1].msg = i /\ es[1].key = TypeKey /\ es[1].value = TypeField(m)
    /\ \A n \in 1 .. Len(m.value) :
          /\ es[1 + n].msg = i /\ es[1 + n].key = << "msgs", "value", m.value[n].key >>
          /\ es[1 + n].value = m.value[n]

\* The entries of a message are those.
LEMMA MsgEntriesAre ==
    ASSUME NEW t, NEW i, IsSeq(t.msgs[i].value)
    PROVE  AreOfMsg(MsgEntries(t, i), t.msgs[i], i)
  <1> DEFINE m == t.msgs[i]
             count == Len(m.value)
             first == Entry(i, TypeKey, TypeField(m))
             fields == [n \in DOMAIN m.value |->
                           Entry(i, << "msgs", "value", m.value[n].key >>, m.value[n])]
             es == << first >> \o fields
  <1>1. MsgEntries(t, i) = es
    BY DEF MsgEntries, TypeField
  <1>2. count \in Nat /\ DOMAIN m.value = 1 .. count
    BY SeqFacts
  <1>3. /\ fields = [n \in 1 .. count |-> fields[n]]
        /\ \A n \in 1 .. count :
              /\ fields[n].msg = i /\ fields[n].key = << "msgs", "value", m.value[n].key >>
              /\ fields[n].value = m.value[n]
    BY <1>2 DEF Entry
  <1>4. first.msg = i /\ first.key = TypeKey /\ first.value = TypeField(m)
    BY DEF Entry
  <1> HIDE DEF first, fields, count
  <1>5. IsSeq(fields) /\ Len(fields) = count
    BY <1>2, <1>3, FunctionIsSeq
  <1>6. IsSeq(<< first >>) /\ Len(<< first >>) = 1 /\ << first >>[1] = first
    BY ShortSeqs
  <1>7. /\ IsSeq(es) /\ Len(es) = 1 + count /\ es[1] = first
        /\ \A n \in 1 .. count : es[1 + n] = fields[n]
    <2> DEFINE one == << first >>
    <2>1. IsSeq(one) /\ Len(one) = 1 /\ one[1] = first
      BY <1>6
    <2> HIDE DEF one
    <2>2. /\ IsSeq(one \o fields) /\ Len(one \o fields) = Len(one) + Len(fields)
          /\ \A x \in 1 .. Len(one) : (one \o fields)[x] = one[x]
          /\ \A j \in 1 .. Len(fields) : (one \o fields)[Len(one) + j] = fields[j]
      <3>1. IsSeq(one) /\ IsSeq(fields)
        BY <1>5, <2>1
      <3>2. QED
        BY ONLY <3>1, Joined
    <2>3. QED
      BY <1>5, <2>1, <2>2 DEF one
  <1> HIDE DEF es
  <1>8. AreOfMsg(es, m, i)
    <2>1. \A n \in 1 .. count :
             /\ es[1 + n].msg = i /\ es[1 + n].key = << "msgs", "value", m.value[n].key >>
             /\ es[1 + n].value = m.value[n]
      BY <1>3, <1>7
    <2>2. es[1].msg = i /\ es[1].key = TypeKey /\ es[1].value = TypeField(m)
      BY <1>4, <1>7
    <2>3. IsSeq(es) /\ Len(es) = 1 + count /\ count \in Nat
      BY <1>2, <1>7
    <2> HIDE DEF m
    <2>4. QED
      BY ONLY <2>1, <2>2, <2>3 DEF AreOfMsg, count
  <1>9. QED
    BY <1>1, <1>8

\* A path to a field is no path to a type, and two of them differ in their last
\* key.
LEMMA PathsDiffer ==
    /\ \A x : << "msgs", "value", x >> # TypeKey
    /\ \A x, y : << "msgs", "value", x >> = << "msgs", "value", y >> => x = y
  <1>1. \A x : Len(<< "msgs", "value", x >>) = 3 /\ << "msgs", "value", x >>[3] = x
    OBVIOUS
  <1>2. Len(TypeKey) = 2
    BY DEF TypeKey
  <1>3. QED
    BY <1>1, <1>2

\* The entries of one message have keys of their own.
LEMMA MsgKeysDiffer ==
    ASSUME NEW m, OrdinaryMsg(m), NEW i, NEW es, AreOfMsg(es, m, i),
           NEW p \in 1 .. Len(es), NEW q \in 1 .. Len(es), es[p].key = es[q].key
    PROVE  p = q
  <1> DEFINE count == Len(m.value)
             path(n) == << "msgs", "value", m.value[n].key >>
  <1>1. /\ Len(es) = 1 + count /\ count \in Nat /\ es[1].key = TypeKey
        /\ \A n \in 1 .. count : es[1 + n].key = path(n)
    BY DEF AreOfMsg
  <1>2. \A n \in 1 .. count : path(n) # TypeKey
    BY PathsDiffer
  <1>3. \A n, o \in 1 .. count : path(n) = path(o) => n = o
    <2>1. IsSeq(m.value) /\ DOMAIN m.value = 1 .. count
      BY SeqFacts DEF OrdinaryMsg
    <2>2. \A n, o \in 1 .. count : m.value[n].key = m.value[o].key => n = o
      BY <2>1 DEF OrdinaryMsg
    <2>3. \A n, o \in 1 .. count : path(n) = path(o) => m.value[n].key = m.value[o].key
      BY PathsDiffer
    <2> HIDE DEF count, path
    <2>4. QED
      BY <2>2, <2>3
  <1> HIDE DEF count, path
  <1>4. p = 1 \/ (p - 1 \in 1 .. count /\ 1 + (p - 1) = p)
    BY <1>1
  <1>5. q = 1 \/ (q - 1 \in 1 .. count /\ 1 + (q - 1) = q)
    BY <1>1
  <1>6. CASE p = 1
    BY <1>1, <1>2, <1>5, <1>6
  <1>7. CASE p # 1
    <2>1. p - 1 \in 1 .. count /\ 1 + (p - 1) = p
      BY <1>4, <1>7
    <2>2. es[p].key = path(p - 1)
      BY <1>1, <2>1
    <2>3. q # 1
      BY <1>1, <1>2, <2>1, <2>2
    <2>4. q - 1 \in 1 .. count /\ 1 + (q - 1) = q
      BY <1>5, <2>3
    <2>5. es[q].key = path(q - 1)
      BY <1>1, <2>4
    <2>6. p - 1 = q - 1
      BY <1>3, <2>1, <2>2, <2>4, <2>5
    <2>7. QED
      BY <1>1, <2>6
  <1>8. QED
    BY <1>6, <1>7

\* Entry x is the p-th of its message.
IsEntry(t, e, p) ==
    /\ e.msg \in 1 .. Len(t.msgs) /\ p \in 1 .. Len(MsgEntries(t, e.msg))
    /\ e = MsgEntries(t, e.msg)[p]

\* The entries of a transaction: those of its messages, in their order.
AreEntries(es, t) ==
    /\ IsSeq(es)
    /\ \A x \in 1 .. Len(es) : \E p : IsEntry(t, es[x], p)
    /\ \A i \in 1 .. Len(t.msgs) : \A p \in 1 .. Len(MsgEntries(t, i)) :
          \E x \in 1 .. Len(es) : es[x] = MsgEntries(t, i)[p]
    /\ \A x, y \in 1 .. Len(es) : x < y /\ es[x].key = es[y].key => es[x].msg < es[y].msg

\* The entries of an ordinary transaction are those.
LEMMA EntriesAre ==
    ASSUME NEW t, Ordinary(t)
    PROVE  AreEntries(Entries(t), t)
  <1> DEFINE n == Len(t.msgs)
             seqs == [i \in DOMAIN t.msgs |-> MsgEntries(t, i)]
             es == FlattenSeq(seqs)
  <1>1. /\ n \in Nat /\ DOMAIN t.msgs = 1 .. n
        /\ \A i \in 1 .. n : OrdinaryMsg(t.msgs[i]) /\ IsSeq(t.msgs[i].value)
    BY SeqFacts DEF Ordinary, OrdinaryMsg
  <1>2. \A i \in 1 .. n : AreOfMsg(MsgEntries(t, i), t.msgs[i], i) /\ IsSeq(MsgEntries(t, i))
    BY <1>1, MsgEntriesAre DEF AreOfMsg
  <1>3. seqs = [i \in 1 .. n |-> seqs[i]] /\ \A i \in 1 .. n : seqs[i] = MsgEntries(t, i)
    BY <1>1
  <1>4. Entries(t) = es
    BY DEF Entries
  <1> HIDE DEF seqs
  <1>5. AreSeqs(seqs, n)
    <2>1. IsSeq(seqs) /\ Len(seqs) = n
      BY <1>1, <1>3, FunctionIsSeq
    <2>2. QED
      BY <1>1, <1>2, <1>3, <2>1 DEF AreSeqs
  <1>6. PICK off : PlacesBy(off, seqs, n)
    BY <1>5, FlattenPlaces
  <1>7. /\ \A a, b \in 0 .. n : a <= b => off[a] <= off[b]
        /\ \A x \in 1 .. off[n] : \E i \in 1 .. n : \E p \in 1 .. Len(seqs[i]) :
                 x = off[i - 1] + p
    BY <1>1, <1>5, <1>6, PlacesAreAll
  <1>8. IsSeq(es)
    BY <1>5, FlattenIsSeq
  <1>9. /\ \A i \in 0 .. n : off[i] \in Nat
        /\ off[n] = Len(es)
        /\ \A i \in 1 .. n : off[i] = off[i - 1] + Len(seqs[i])
        /\ \A i \in 1 .. n : \A p \in 1 .. Len(seqs[i]) : es[off[i - 1] + p] = seqs[i][p]
    BY <1>6 DEF PlacesBy
  <1> HIDE DEF es, n
  \* The place of an entry in its message.
  <1>10. \A i \in 1 .. n : \A p \in 1 .. Len(seqs[i]) : seqs[i][p].msg = i
    <2> SUFFICES ASSUME NEW i \in 1 .. n, NEW p \in 1 .. Len(seqs[i]) PROVE seqs[i][p].msg = i
      OBVIOUS
    <2> DEFINE s == MsgEntries(t, i)
               count == Len(t.msgs[i].value)
    <2>1. AreOfMsg(s, t.msgs[i], i) /\ p \in 1 .. Len(s) /\ seqs[i] = s
      BY <1>2, <1>3
    <2> HIDE DEF s
    <2>2. /\ Len(s) = 1 + count /\ count \in Nat /\ s[1].msg = i
          /\ \A j \in 1 .. count : s[1 + j].msg = i
      BY <2>1 DEF AreOfMsg
    <2> HIDE DEF count
    <2>3. p = 1 \/ (p - 1 \in 1 .. count /\ 1 + (p - 1) = p)
      BY <2>1, <2>2
    <2>4. s[p].msg = i
      BY <2>2, <2>3
    <2>5. QED
      BY <2>1, <2>4
  <1>11. ASSUME NEW x \in 1 .. Len(es)
         PROVE  \E i \in 1 .. n : \E p \in 1 .. Len(seqs[i]) :
                   x = off[i - 1] + p /\ es[x] = seqs[i][p] /\ es[x].msg = i
    <2>1. PICK i \in 1 .. n : \E p \in 1 .. Len(seqs[i]) : x = off[i - 1] + p
      BY <1>7, <1>9
    <2>2. PICK p \in 1 .. Len(seqs[i]) : x = off[i - 1] + p
      BY <2>1
    <2>3. QED
      BY <1>9, <1>10, <2>2
  <1>12. ASSUME NEW x \in 1 .. Len(es) PROVE \E p : IsEntry(t, es[x], p)
    <2>1. PICK i \in 1 .. n : \E p \in 1 .. Len(seqs[i]) : es[x] = seqs[i][p] /\ es[x].msg = i
      BY <1>11
    <2>2. PICK p \in 1 .. Len(seqs[i]) : es[x] = seqs[i][p] /\ es[x].msg = i
      BY <2>1
    <2>3. IsEntry(t, es[x], p)
      BY <1>3, <2>2 DEF IsEntry, n
    <2>4. QED
      BY <2>3
  <1>13. ASSUME NEW i \in 1 .. n, NEW p \in 1 .. Len(MsgEntries(t, i))
         PROVE  \E x \in 1 .. Len(es) : es[x] = MsgEntries(t, i)[p]
    <2> DEFINE len == Len(seqs[i])
               x == off[i - 1] + p
    <2>1. i - 1 \in 0 .. n /\ i \in 0 .. n /\ n \in 0 .. n /\ i <= n
      BY <1>1 DEF n
    <2>2. off[i - 1] \in Nat /\ off[i] = off[i - 1] + len /\ off[i] <= off[n] /\ off[n] \in Nat
      BY <1>7, <1>9, <2>1
    <2>3. p \in 1 .. len /\ len \in Nat
      BY <1>2, <1>3 DEF IsSeq
    <2>4. es[x] = MsgEntries(t, i)[p]
      BY <1>3, <1>9, <2>3
    <2> HIDE DEF len
    <2>5. x \in 1 .. off[n]
      BY <2>2, <2>3
    <2>6. QED
      BY <1>9, <2>4, <2>5
  <1>14. ASSUME NEW x \in 1 .. Len(es), NEW y \in 1 .. Len(es), x < y, es[x].key = es[y].key
         PROVE  es[x].msg < es[y].msg
    <2>1. PICK i \in 1 .. n : \E p \in 1 .. Len(seqs[i]) :
             x = off[i - 1] + p /\ es[x] = seqs[i][p] /\ es[x].msg = i
      BY <1>11
    <2>2. PICK p \in 1 .. Len(seqs[i]) : x = off[i - 1] + p /\ es[x] = seqs[i][p] /\ es[x].msg = i
      BY <2>1
    <2>3. PICK j \in 1 .. n : \E q \in 1 .. Len(seqs[j]) :
             y = off[j - 1] + q /\ es[y] = seqs[j][q] /\ es[y].msg = j
      BY <1>11
    <2>4. PICK q \in 1 .. Len(seqs[j]) : y = off[j - 1] + q /\ es[y] = seqs[j][q] /\ es[y].msg = j
      BY <2>3
    <2>5. i # j
      <3>1. SUFFICES ASSUME i = j PROVE FALSE
        OBVIOUS
      <3>2. AreOfMsg(seqs[i], t.msgs[i], i) /\ OrdinaryMsg(t.msgs[i])
        BY <1>1, <1>2, <1>3 DEF n
      <3>3. seqs[i][p].key = seqs[i][q].key /\ q \in 1 .. Len(seqs[i])
        BY <1>14, <2>2, <2>4, <3>1
      <3>4. p = q
        BY <3>2, <3>3, MsgKeysDiffer
      <3>5. x = y
        BY <2>2, <2>4, <3>1, <3>4
      <3>6. QED
        BY <1>14, <3>5
    <2>6. ~(j < i)
      <3>1. SUFFICES ASSUME j < i PROVE FALSE
        OBVIOUS
      <3>2. j \in 0 .. n /\ i - 1 \in 0 .. n /\ j <= i - 1 /\ j - 1 \in 0 .. n
        BY <1>1, <3>1 DEF n
      <3> DEFINE len == Len(seqs[j])
      <3>3. off[j] = off[j - 1] + len /\ off[j] <= off[i - 1] /\ off[j] \in Nat
            /\ off[i - 1] \in Nat /\ off[j - 1] \in Nat
        BY <1>7, <1>9, <3>2
      <3>4. p \in Nat /\ p > 0 /\ q \in 1 .. len /\ len \in Nat
        BY <1>2, <1>3 DEF IsSeq
      <3> HIDE DEF len
      <3> DEFINE a == off[i - 1]
                 b == off[j - 1]
      <3>5. /\ x = a + p /\ y = b + q /\ b + len <= a /\ a \in Nat /\ b \in Nat
            /\ p \in Nat /\ p > 0 /\ q \in Nat /\ q <= len
        BY <2>2, <2>4, <3>3, <3>4
      <3> HIDE DEF a, b
      <3>6. ~(x < y)
        BY ONLY <3>4, <3>5
      <3>7. QED
        BY <1>14, <3>6
    <2>7. i < j
      BY <2>5, <2>6
    <2>8. QED
      BY <2>2, <2>4, <2>7
  <1>15. AreEntries(es, t)
    BY <1>8, <1>12, <1>13, <1>14 DEF AreEntries, n
  <1>16. QED
    BY <1>4, <1>15 DEF es

AmountKey == << "msgs", "value", "amount" >>

\* An entry of an ordinary message: its type, or one of its fields.
IsTypeEntry(e) ==
    e.key = TypeKey /\ \E m : e.value = TypeField(m) /\ m.type # "cosmos-sdk/MsgExecuteContract"
IsFieldEntry(e) ==
    OrdinaryField(e.value) /\ e.key = << "msgs", "value", e.value.key >>

\* The screen of an entry, and what there is of it when its key may be repeated.
EntryItem(e) ==
    IF e.key = AmountKey THEN << e.key, ShownCoins(e.value.is) >>
    ELSE << e.key, Substituted(Raw(e.value)) >>
KeptItem(t, e) == IF Repeated(t, e.msg, e.key) THEN << >> ELSE << EntryItem(e) >>

\* Each entry is the one or the other.
LEMMA EntryIsOrdinary ==
    ASSUME NEW m, OrdinaryMsg(m), NEW i, NEW es, AreOfMsg(es, m, i), NEW p \in 1 .. Len(es)
    PROVE  /\ es[p].msg = i
           /\ \/ p = 1 /\ es[p].key = TypeKey /\ es[p].value = TypeField(m) /\ IsTypeEntry(es[p])
              \/ /\ p - 1 \in 1 .. Len(m.value) /\ p - 1 \in DOMAIN m.value
                 /\ es[p].value = m.value[p - 1]
                 /\ es[p].key = << "msgs", "value", m.value[p - 1].key >>
                 /\ IsFieldEntry(es[p])
  <1> DEFINE count == Len(m.value)
  <1>1. /\ Len(es) = 1 + count /\ count \in Nat
        /\ es[1].msg = i /\ es[1].key = TypeKey /\ es[1].value = TypeField(m)
        /\ \A n \in 1 .. count :
              /\ es[1 + n].msg = i /\ es[1 + n].key = << "msgs", "value", m.value[n].key >>
              /\ es[1 + n].value = m.value[n]
    BY DEF AreOfMsg
  <1>2. /\ DOMAIN m.value = 1 .. count /\ m.type # "cosmos-sdk/MsgExecuteContract"
        /\ \A n \in 1 .. count : OrdinaryField(m.value[n])
    BY SeqFacts DEF OrdinaryMsg
  <1> HIDE DEF count
  <1>3. CASE p = 1
    BY <1>1, <1>2, <1>3 DEF IsTypeEntry
  <1>4. CASE p # 1
    <2> DEFINE n == p - 1
    <2>1. n \in 1 .. count /\ 1 + n = p
      BY <1>1, <1>4
    <2> HIDE DEF n
    <2>2. /\ es[p].msg = i /\ es[p].key = << "msgs", "value", m.value[n].key >>
          /\ es[p].value = m.value[n]
      BY <1>1, <2>1
    <2>3. IsFieldEntry(es[p])
      BY <1>2, <2>1, <2>2 DEF IsFieldEntry
    <2>4. QED
      BY <1>2, <2>1, <2>2, <2>3 DEF n, count
  <1>5. QED
    BY <1>3, <1>4

\* The screens of a field are those of its entry.
LEMMA FieldScreens ==
    ASSUME NEW e, IsFieldEntry(e)
    PROVE  ExpectedField(e.value) = << EntryItem(e) >>
  <1> DEFINE v == e.value
  <1>1. OrdinaryField(v) /\ e.key = << "msgs", "value", v.key >>
    BY DEF IsFieldEntry
  <1>2. Substituted(Raw(v)) = Raw(v)
    BY <1>1, RawIsKept
  <1>3. v.kind # "parties"
    BY <1>1 DEF OrdinaryField
  <1> HIDE DEF v
  <1>4. QED
    BY <1>1, <1>2, <1>3 DEF ExpectedField, EntryItem, AmountKey, v

\* The screens of entries, one sequence for each.
KeepsAll(t, seqs, es) == Alike(seqs, es, LAMBDA s, e : s = KeptItem(t, e))
Screens(t, es) == [x \in DOMAIN es |-> KeptItem(t, es[x])]

\* They are a sequence of sequences, and no other one is.
LEMMA ScreensAre ==
    ASSUME NEW t, NEW es, IsSeq(es)
    PROVE  /\ AreSeqs(Screens(t, es), Len(es)) /\ KeepsAll(t, Screens(t, es), es)
           /\ \A seqs : KeepsAll(t, seqs, es) => seqs = Screens(t, es)
  <1> DEFINE n == Len(es)
             screens == Screens(t, es)
  <1>1. n \in Nat /\ DOMAIN es = 1 .. n
    BY SeqFacts
  <1>2. /\ screens = [x \in 1 .. n |-> screens[x]]
        /\ \A x \in 1 .. n : screens[x] = KeptItem(t, es[x])
    BY <1>1 DEF Screens
  <1> HIDE DEF screens
  <1>3. IsSeq(screens) /\ Len(screens) = n
    BY <1>1, <1>2, FunctionIsSeq
  <1>4. \A x \in 1 .. n : IsSeq(screens[x])
    <2>1. \A e : IsSeq(KeptItem(t, e))
      BY ShortSeqs DEF KeptItem
    <2>2. QED
      BY <1>2, <2>1
  <1>5. AreSeqs(screens, n)
    BY <1>1, <1>3, <1>4 DEF AreSeqs
  <1>6. KeepsAll(t, screens, es)
    BY <1>2, <1>3 DEF KeepsAll, Alike
  <1>7. ASSUME NEW seqs, KeepsAll(t, seqs, es) PROVE seqs = screens
    <2>1. IsSeq(seqs) /\ Len(seqs) = n /\ \A x \in 1 .. n : seqs[x] = KeptItem(t, es[x])
      BY <1>7 DEF KeepsAll, Alike
    <2>2. QED
      BY <1>2, <1>3, <2>1, SameSeq
  <1>8. QED
    BY <1>5, <1>6, <1>7 DEF screens

\* Joining the screens joins the entries that they are of.
LEMMA KeepsFlattened ==
    ASSUME NEW t, NEW n, NEW a, NEW b, AreSeqs(a, n), AreSeqs(b, n),
           \A i \in 1 .. n : KeepsAll(t, a[i], b[i])
    PROVE  KeepsAll(t, FlattenSeq(a), FlattenSeq(b))
  <1>1. \A i \in 1 .. n : Alike(a[i], b[i], LAMBDA s, e : s = KeptItem(t, e))
    BY DEF KeepsAll
  <1>2. Alike(FlattenSeq(a), FlattenSeq(b), LAMBDA s, e : s = KeptItem(t, e))
    BY <1>1, FlattenAlike
  <1>3. QED
    BY <1>2 DEF KeepsAll

\* The screens of one message are those of its entries.
LEMMA ExpectedMsgIs ==
    ASSUME NEW t, NEW i, OrdinaryMsg(t.msgs[i])
    PROVE  /\ AreSeqs(Screens(t, MsgEntries(t, i)), Len(MsgEntries(t, i)))
           /\ ExpectedMsg(t, i) = FlattenSeq(Screens(t, MsgEntries(t, i)))
  <1> DEFINE m == t.msgs[i]
             es == MsgEntries(t, i)
             count == Len(m.value)
             screens == Screens(t, es)
             type == << TypeKey, Substituted(Word(m.type)) >>
             first == IF Repeated(t, i, TypeKey) THEN << >> ELSE << type >>
             rest == [n \in DOMAIN m.value |->
                         IF Repeated(t, i, << "msgs", "value", m.value[n].key >>) THEN << >>
                         ELSE ExpectedField(m.value[n])]
  <1>1. IsSeq(m.value) /\ AreOfMsg(es, m, i) /\ IsSeq(es)
    BY MsgEntriesAre DEF OrdinaryMsg, AreOfMsg
  <1>2. AreSeqs(screens, Len(es)) /\ Len(es) = 1 + count /\ count \in Nat
    BY <1>1, ScreensAre DEF AreOfMsg
  <1>3. ExpectedMsg(t, i) = first \o FlattenSeq(rest)
    BY DEF ExpectedMsg
  <1>4. DOMAIN m.value = 1 .. count /\ DOMAIN es = 1 .. Len(es)
    BY <1>1, SeqFacts
  <1>5. \A p \in 1 .. Len(es) : screens[p] = KeptItem(t, es[p])
    BY <1>4 DEF Screens
  <1> HIDE DEF screens
  <1>6. KeptItem(t, es[1]) = first
    <2>1. es[1].msg = i /\ es[1].key = TypeKey /\ es[1].value = TypeField(m)
      BY <1>1 DEF AreOfMsg
    <2>2. Raw(TypeField(m)) = Word(m.type)
      BY DEF Raw, TypeField
    <2>3. TypeKey # AmountKey
      BY PathsDiffer DEF AmountKey
    <2> HIDE DEF es, m
    <2>4. QED
      BY <2>1, <2>2, <2>3 DEF KeptItem, EntryItem
  <1>7. ASSUME NEW n \in 1 .. count PROVE rest[n] = screens[1 + n]
    <2> DEFINE e == es[1 + n]
               path == << "msgs", "value", m.value[n].key >>
    <2>1. e.msg = i /\ e.key = path /\ e.value = m.value[n]
      BY <1>1 DEF AreOfMsg
    <2>2. OrdinaryField(m.value[n])
      BY <1>4 DEF OrdinaryMsg
    <2>3. 1 + n \in 1 .. Len(es)
      BY <1>2
    <2> HIDE DEF e, es
    <2>4. IsFieldEntry(e)
      BY <2>1, <2>2 DEF IsFieldEntry
    <2>5. ExpectedField(e.value) = << EntryItem(e) >>
      BY <2>4, FieldScreens
    <2>6. rest[n] = IF Repeated(t, i, path) THEN << >> ELSE ExpectedField(m.value[n])
      BY <1>4
    <2>7. KeptItem(t, e) = IF Repeated(t, i, path) THEN << >> ELSE << EntryItem(e) >>
      BY <2>1 DEF KeptItem
    <2>8. screens[1 + n] = KeptItem(t, e)
      BY <1>5, <2>3 DEF e
    <2> HIDE DEF path, rest, m
    <2>9. QED
      BY <2>1, <2>5, <2>6, <2>7, <2>8
  <1>8. rest = [n \in 1 .. count |-> rest[n]]
    BY <1>4
  <1>9. IsSeq(first)
    BY ShortSeqs
  <1> HIDE DEF rest, first
  <1>10. AreSeqs(rest, count)
    <2>1. IsSeq(rest) /\ Len(rest) = count
      BY <1>2, <1>8, FunctionIsSeq
    <2>2. \A n \in 1 .. count : IsSeq(rest[n])
      <3>1. \A n \in 1 .. count : 1 + n \in 1 .. Len(es)
        BY <1>2
      <3>2. \A p \in 1 .. Len(es) : IsSeq(screens[p])
        BY <1>2 DEF AreSeqs
      <3> HIDE DEF es, count
      <3>3. QED
        BY <1>7, <3>1, <3>2
    <2>3. QED
      BY <1>2, <2>1, <2>2 DEF AreSeqs
  <1>11. AreSeqs(<< first >>, 1) /\ FlattenSeq(<< first >>) = first
    <2>1. IsSeq(<< first >>) /\ Len(<< first >>) = 1 /\ << first >>[1] = first
      BY ShortSeqs
    <2> DEFINE one == << first >>
    <2>2. IsSeq(one) /\ Len(one) = 1 /\ \A x \in 1 .. 1 : IsSeq(one[x])
      BY <1>9, <2>1
    <2> HIDE DEF one
    <2>3. AreSeqs(one, 1)
      BY <2>2 DEF AreSeqs
    <2>4. QED
      BY <1>9, <2>3, FlattenFew DEF one
  <1>12. screens = << first >> \o rest
    <2> DEFINE one == << first >>
               all == one \o rest
               len == Len(es)
    <2>1. IsSeq(one) /\ Len(one) = 1 /\ one[1] = first
      BY ShortSeqs
    <2>2. IsSeq(rest) /\ Len(rest) = count
      BY <1>10 DEF AreSeqs
    <2> HIDE DEF one
    <2>3. /\ IsSeq(all) /\ Len(all) = Len(one) + Len(rest)
          /\ \A x \in 1 .. Len(one) : all[x] = one[x]
          /\ \A j \in 1 .. Len(rest) : all[Len(one) + j] = rest[j]
      <3>1. IsSeq(one) /\ IsSeq(rest)
        BY <2>1, <2>2
      <3>2. QED
        BY ONLY <3>1, Joined
    <2>4. IsSeq(screens) /\ Len(screens) = len /\ len = 1 + count /\ count \in Nat
      BY <1>2 DEF AreSeqs
    <2>5. screens[1] = first
      <3>1. 1 \in 1 .. Len(es)
        BY <1>2
      <3>2. QED
        BY <1>5, <1>6, <3>1
    <2>6. \A n \in 1 .. count : screens[1 + n] = rest[n]
      BY <1>7
    <2> HIDE DEF all, len, count, es
    <2>7. Len(all) = Len(screens) /\ all[1] = first /\ \A n \in 1 .. count : all[1 + n] = rest[n]
      BY <2>1, <2>2, <2>3, <2>4
    <2>8. ASSUME NEW x \in 1 .. Len(screens) PROVE screens[x] = all[x]
      <3>1. x = 1 \/ (x - 1 \in 1 .. count /\ 1 + (x - 1) = x)
        BY <2>4
      <3>2. QED
        BY <2>5, <2>6, <2>7, <3>1
    <2>9. screens = all
      BY <2>3, <2>4, <2>7, <2>8, SameSeq
    <2>10. QED
      BY <2>9 DEF all, one
  <1>13. FlattenSeq(<< first >> \o rest) = FlattenSeq(<< first >>) \o FlattenSeq(rest)
    <2> DEFINE one == << first >>
               number == 1
    <2>1. AreSeqs(one, number) /\ AreSeqs(rest, count)
      BY <1>10, <1>11
    <2> HIDE DEF one, number, count
    <2>2. FlattenSeq(one \o rest) = FlattenSeq(one) \o FlattenSeq(rest)
      BY ONLY <2>1, FlattenConcat
    <2>3. QED
      BY <2>2 DEF one
  <1>14. QED
    BY <1>2, <1>3, <1>11, <1>12, <1>13 DEF screens

\* So are the screens of all messages.
LEMMA ExpectedMsgsAre ==
    ASSUME NEW t, Ordinary(t)
    PROVE  FlattenSeq([i \in DOMAIN t.msgs |-> ExpectedMsg(t, i)])
              = FlattenSeq(Screens(t, Entries(t)))
  <1> DEFINE n == Len(t.msgs)
             seqs == [i \in DOMAIN t.msgs |-> MsgEntries(t, i)]
             screens == [i \in DOMAIN t.msgs |-> Screens(t, MsgEntries(t, i))]
             shows == [i \in DOMAIN t.msgs |-> ExpectedMsg(t, i)]
  <1>1. /\ n \in Nat /\ DOMAIN t.msgs = 1 .. n /\ \A i \in 1 .. n : OrdinaryMsg(t.msgs[i])
    BY SeqFacts DEF Ordinary
  <1>2. \A i \in 1 .. n : seqs[i] = MsgEntries(t, i)
                          /\ screens[i] = Screens(t, MsgEntries(t, i))
                          /\ shows[i] = ExpectedMsg(t, i)
    BY <1>1
  <1>3. \A i \in 1 .. n : IsSeq(seqs[i]) /\ AreSeqs(screens[i], Len(seqs[i]))
                          /\ shows[i] = FlattenSeq(screens[i])
                          /\ screens[i] = Screens(t, seqs[i])
    <2> SUFFICES ASSUME NEW i \in 1 .. n
                 PROVE  IsSeq(seqs[i]) /\ AreSeqs(screens[i], Len(seqs[i]))
                          /\ shows[i] = FlattenSeq(screens[i])
                          /\ screens[i] = Screens(t, seqs[i])
      OBVIOUS
    <2>1. OrdinaryMsg(t.msgs[i]) /\ IsSeq(t.msgs[i].value)
      BY <1>1 DEF OrdinaryMsg
    <2>2. IsSeq(MsgEntries(t, i))
      BY <2>1, MsgEntriesAre DEF AreOfMsg
    <2>3. /\ AreSeqs(Screens(t, MsgEntries(t, i)), Len(MsgEntries(t, i)))
          /\ ExpectedMsg(t, i) = FlattenSeq(Screens(t, MsgEntries(t, i)))
      BY <2>1, ExpectedMsgIs
    <2> HIDE DEF seqs, screens, shows
    <2>4. QED
      BY <1>2, <2>2, <2>3
  <1>4. /\ seqs = [i \in 1 .. n |-> seqs[i]] /\ screens = [i \in 1 .. n |-> screens[i]]
        /\ shows = [i \in 1 .. n |-> shows[i]]
    BY <1>1
  <1>5. Entries(t) = FlattenSeq(seqs)
    BY DEF Entries
  <1> HIDE DEF seqs, screens, shows, n
  <1>6. \A i \in 1 .. n : /\ IsSeq(screens[i]) /\ AreSeqs(screens[i], Len(screens[i]))
                          /\ KeepsAll(t, screens[i], seqs[i]) /\ IsSeq(shows[i])
    <2> SUFFICES ASSUME NEW i \in 1 .. n
                 PROVE  /\ IsSeq(screens[i]) /\ AreSeqs(screens[i], Len(screens[i]))
                        /\ KeepsAll(t, screens[i], seqs[i]) /\ IsSeq(shows[i])
      OBVIOUS
    <2> DEFINE es == seqs[i]
               s == screens[i]
    <2>1. IsSeq(es) /\ AreSeqs(s, Len(es)) /\ shows[i] = FlattenSeq(s) /\ s = Screens(t, es)
      BY <1>3
    <2> HIDE DEF es, s
    <2>2. IsSeq(s) /\ Len(s) = Len(es)
      BY <2>1 DEF AreSeqs
    <2>3. KeepsAll(t, s, es)
      BY <2>1, ScreensAre
    <2>4. IsSeq(FlattenSeq(s))
      BY <2>1, FlattenIsSeq
    <2>5. QED
      BY <2>1, <2>2, <2>3, <2>4 DEF es, s
  <1>7. AreSeqs(seqs, n) /\ AreSeqs(screens, n) /\ AreSeqs(shows, n)
    <2>1. /\ IsSeq(seqs) /\ Len(seqs) = n /\ IsSeq(screens) /\ Len(screens) = n
          /\ IsSeq(shows) /\ Len(shows) = n
      BY <1>1, <1>4, FunctionIsSeq
    <2>2. QED
      BY <1>1, <1>3, <1>6, <2>1 DEF AreSeqs
  <1>8. FlattenSeq(FlattenSeq(screens)) = FlattenSeq(shows)
    <2>1. \A i \in 1 .. n : AreSeqs(screens[i], Len(screens[i])) /\ shows[i] = FlattenSeq(screens[i])
      BY <1>3, <1>6
    <2>2. QED
      BY ONLY <1>7, <2>1, FlattenTwice
  <1>9. KeepsAll(t, FlattenSeq(screens), FlattenSeq(seqs))
    BY <1>6, <1>7, KeepsFlattened
  <1>10. FlattenSeq(screens) = Screens(t, FlattenSeq(seqs))
    <2> DEFINE es == FlattenSeq(seqs)
    <2>1. IsSeq(es)
      BY <1>7, FlattenIsSeq
    <2> HIDE DEF es
    <2>2. QED
      BY <1>9, <2>1, ScreensAre DEF es
  <1>11. QED
    BY <1>5, <1>8, <1>10 DEF shows

-----------------------------------------------------------------------------
(* The count (parser_indexRootFields): its loop over the leaves of a field.*)

\* A count as the record of its parts.
CountOf(s, d, dn, ty, fr) ==
    [subitems |-> s, deep |-> d, done |-> dn, types |-> ty, froms |-> fr]

\* The parts of a count.
LEMMA CountParts ==
    ASSUME NEW doc, NEW count, IsCount(doc, count)
    PROVE  /\ count = CountOf(count.subitems, count.deep, count.done, count.types, count.froms)
           /\ count.subitems \in [Range(RootItems) -> 0 .. U8 - 1]
           /\ count.deep \in BOOLEAN /\ count.done \in BOOLEAN
           /\ IsGroup(count.types) /\ IsGroup(count.froms)
           /\ \A r \in Range(RootItems) : RootToken(doc, r) = 0 => count.subitems[r] = 0
  <1>1. PICK types, froms : \E subitems \in [Range(RootItems) -> 0 .. U8 - 1],
                         deep \in BOOLEAN, done \in BOOLEAN :
           /\ IsGroup(types) /\ IsGroup(froms)
           /\ \A r \in Range(RootItems) : RootToken(doc, r) = 0 => subitems[r] = 0
           /\ count = [subitems |-> subitems, deep |-> deep, done |-> done,
                       types |-> types, froms |-> froms]
    BY DEF IsCount
  <1>2. PICK subitems \in [Range(RootItems) -> 0 .. U8 - 1], deep \in BOOLEAN, done \in BOOLEAN :
           /\ IsGroup(types) /\ IsGroup(froms)
           /\ \A r \in Range(RootItems) : RootToken(doc, r) = 0 => subitems[r] = 0
           /\ count = [subitems |-> subitems, deep |-> deep, done |-> done,
                       types |-> types, froms |-> froms]
    BY <1>1
  <1>3. /\ count.subitems = subitems /\ count.deep = deep /\ count.done = done
        /\ count.types = types /\ count.froms = froms
    BY <1>2
  <1>4. QED
    BY <1>2, <1>3 DEF CountOf

\* A count whose loop begins or ends is the same but for that.
Marked(count, done) == [count EXCEPT !.done = done]

AtDepth(count, deep) == [count EXCEPT !.deep = deep]

\* Each sets one part of the count.
LEMMA CountDone ==
    ASSUME NEW s, NEW d, NEW dn, NEW ty, NEW fr, NEW v,
           NEW count, count = CountOf(s, d, dn, ty, fr)
    PROVE  /\ Marked(count, v) = CountOf(s, d, v, ty, fr)
           /\ AtDepth(count, v) = CountOf(s, v, dn, ty, fr)
  BY DEF CountOf, AtDepth, Marked

\* The parts of a count by their names.
LEMMA CountFields ==
    ASSUME NEW s, NEW d, NEW dn, NEW ty, NEW fr, NEW count, count = CountOf(s, d, dn, ty, fr)
    PROVE  /\ count.subitems = s /\ count.deep = d /\ count.done = dn
           /\ count.types = ty /\ count.froms = fr
  BY DEF CountOf

\* The loop over the leaves of a root field begins, and ends.
LEMMA CountMarked ==
    ASSUME NEW doc, NEW count, IsCount(doc, count), NEW v \in BOOLEAN
    PROVE  LET next == Marked(count, v)
           IN  /\ IsCount(doc, next) /\ next.done = v /\ next.deep = count.deep
               /\ next.subitems = count.subitems
               /\ next.types = count.types /\ next.froms = count.froms
  <1> DEFINE next == Marked(count, v)
             s == count.subitems
             d == count.deep
             dn == count.done
             ty == count.types
             fr == count.froms
  <1>1. /\ count = CountOf(s, d, dn, ty, fr)
        /\ s \in [Range(RootItems) -> 0 .. U8 - 1] /\ d \in BOOLEAN
        /\ IsGroup(ty) /\ IsGroup(fr)
        /\ \A r \in Range(RootItems) : RootToken(doc, r) = 0 => s[r] = 0
    BY CountParts
  <1> HIDE DEF s, d, dn, ty, fr, next
  <1>2. next = CountOf(s, d, v, ty, fr)
    BY ONLY <1>1, CountDone DEF next
  <1>3. next.subitems = s /\ next.deep = d /\ next.done = v /\ next.types = ty /\ next.froms = fr
    BY ONLY <1>2, CountFields
  <1>4. IsCount(doc, next)
    BY <1>1, <1>2 DEF IsCount, CountOf
  <1>5. QED
    BY <1>3, <1>4 DEF next, s, d, ty, fr

\* A group with one more leaf of a root field, when its key is the group's.
GroupNext(group, key, i, of, text) ==
    IF key = of THEN Grouped(group, i, Substituted(text)) ELSE group

\* One more leaf, other than an empty memo, is an item of its root field.
CountsText(doc, count, next, root, i, key, text) ==
    /\ next.subitems = [count.subitems EXCEPT ![root] = (@ + 1) % U8]
    /\ next.types = GroupNext(count.types, key, i, TypeKey, text)
    /\ next.froms = GroupNext(count.froms, key, i, FromKey, text)
    /\ next.deep = DeepAfter(count.deep, text) /\ next.done = count.done

\* Every other leaf is counted like that (the count of the code, parser_print.c).
LEMMA CountTextIs ==
    ASSUME NEW doc, NEW count, IsCount(doc, count), NEW root \in Range(RootItems),
           NEW i, NEW key, NEW text, ~(root = "memo" /\ text = Word(""))
    PROVE  CountsText(doc, count, CountText(root, count, i, key, text), root, i, key, text)
  <1> DEFINE next == CountText(root, count, i, key, text)
             s == count.subitems
             d == count.deep
             dn == count.done
             ty == count.types
             fr == count.froms
             after == DeepAfter(count.deep, text)
             seen == AtDepth(count, after)
             types2 == IF key = TypeKey THEN Grouped(ty, i, Substituted(text)) ELSE ty
             froms2 == IF key = FromKey THEN Grouped(fr, i, Substituted(text)) ELSE fr
             subitems2 == [s EXCEPT ![root] = (@ + 1) % U8]
  <1>1. count = CountOf(s, d, dn, ty, fr) /\ s \in [Range(RootItems) -> 0 .. U8 - 1]
    BY CountParts
  <1>2. next = [seen EXCEPT
                   !.subitems[root] = (@ + 1) % U8,
                   !.types = IF key = TypeKey THEN Grouped(@, i, Substituted(text)) ELSE @,
                   !.froms = IF key = FromKey THEN Grouped(@, i, Substituted(text)) ELSE @]
    BY DEF CountText, AtDepth
  <1> HIDE DEF s, d, dn, ty, fr, after
  <1>3. seen = CountOf(s, after, dn, ty, fr)
    BY ONLY <1>1, CountDone DEF seen
  <1> HIDE DEF seen, next
  <1>4. next = CountOf(subitems2, after, dn, types2, froms2)
    <2>1. seen.subitems = s /\ seen.types = ty /\ seen.froms = fr
      BY ONLY <1>3, CountFields
    <2>2. next = [seen EXCEPT !.subitems = subitems2, !.types = types2, !.froms = froms2]
      BY <1>2, <2>1
    <2> HIDE DEF subitems2, types2, froms2
    <2>3. QED
      BY <1>3, <2>2 DEF CountOf
  <1> HIDE DEF subitems2, types2, froms2
  <1>5. /\ next.subitems = subitems2 /\ next.types = types2 /\ next.froms = froms2
        /\ next.deep = after /\ next.done = dn
    BY ONLY <1>4, CountFields
  <1>6. QED
    BY <1>5 DEF CountsText, next, subitems2, types2, froms2, after, GroupNext, s, d, dn, ty, fr

\* The run of a group over n leaves.
GroupRun(T, doc, leaves, of, start, n) ==
    /\ T[0] = start
    /\ \A j \in 1 .. n : T[j] = GroupNext(T[j - 1], leaves[j].key, j, of,
                                          Text(doc.tokens, leaves[j].token))

\* A count with c more items of a root field than another one.
MoreItems(count, next, root, c) ==
    /\ next.subitems[root] = count.subitems[root] + c
    /\ \A r \in Range(RootItems) \ {root} : next.subitems[r] = count.subitems[r]

\* A root field is counted at the depth it is shown at, and its groups are.
RootCounted(doc, root, count, next, leaves) ==
    /\ IsCount(doc, next) /\ ~next.deep
    /\ MoreItems(count, next, root, Len(leaves))
    /\ \E T : GroupRun(T, doc, leaves, TypeKey, count.types, Len(leaves))
              /\ next.types = T[Len(leaves)]
    /\ \E F : GroupRun(F, doc, leaves, FromKey, count.froms, Len(leaves))
              /\ next.froms = F[Len(leaves)]

\* Behind i leaves of a root field: the count is at the depth of the display.
CountedTo(doc, root, count, at, i) ==
    /\ IsCount(doc, at) /\ ~at.deep /\ ~at.done
    /\ MoreItems(count, at, root, i)

\* One more item of the root field, as long as their number fits a byte.
LEMMA OneMoreItem ==
    ASSUME NEW doc, NEW root \in Range(RootItems), NEW count, NEW i \in Nat,
           NEW before, CountedTo(doc, root, count, before, i),
           NEW c0 \in Nat, count.subitems[root] = c0, c0 + i + 1 < U8,
           NEW after, after.subitems = [before.subitems EXCEPT ![root] = (@ + 1) % U8]
    PROVE  MoreItems(count, after, root, i + 1)
  <1> DEFINE s == before.subitems
             u == after.subitems
             k == count.subitems
  <1>1. /\ s \in [Range(RootItems) -> 0 .. U8 - 1] /\ s[root] = c0 + i
        /\ \A r \in Range(RootItems) \ {root} : s[r] = k[r]
    BY CountParts DEF CountedTo, MoreItems
  <1>2. u = [s EXCEPT ![root] = (@ + 1) % U8]
    OBVIOUS
  <1> HIDE DEF s, u
  <1>3. u[root] = (s[root] + 1) % U8 /\ \A r \in Range(RootItems) \ {root} : u[r] = s[r]
    BY <1>1, <1>2
  <1> DEFINE c == c0 + i + 1
  <1>4. c \in Nat /\ c < U8 /\ s[root] + 1 = c
    BY <1>1
  <1>5. c0 + (i + 1) = c
    OBVIOUS
  <1> HIDE DEF c
  <1>6. c % U8 = c
    BY <1>4 DEF U8
  <1>7. u[root] = c0 + (i + 1)
    BY <1>3, <1>4, <1>5, <1>6
  <1>8. \A r \in Range(RootItems) \ {root} : u[r] = k[r]
    BY <1>1, <1>3
  <1>9. QED
    BY <1>7, <1>8 DEF MoreItems, u

\* The step of the loop at a leaf, which is counted.
AtLeaf(doc, root, count, i, leaves, j, before, c0, text, after) ==
    /\ RootToken(doc, root) # 0 /\ j = i + 1 /\ ~(j > Len(leaves))
    /\ CountedTo(doc, root, count, before, i)
    /\ count.subitems[root] = c0 /\ c0 + i + 1 < U8
    /\ text = Text(doc.tokens, leaves[j].token) /\ text # MsgMultiSend
    /\ ~(root = "memo" /\ text = Word(""))
    /\ after = CountNext(doc, root, before, j, leaves)

Counted(doc, root, count, leaves, j, before, text, after) ==
    /\ CountedTo(doc, root, count, after, j)
    /\ after.types = GroupNext(before.types, leaves[j].key, j, TypeKey, text)
    /\ after.froms = GroupNext(before.froms, leaves[j].key, j, FromKey, text)

\* A counted leaf leaves one more item and the groups one leaf further.
LEMMA LeafCounted ==
    ASSUME NEW doc, NEW root \in Range(RootItems), NEW count, NEW i \in Nat, NEW leaves,
           NEW j \in Nat, NEW before, NEW c0 \in Nat, NEW text, NEW after,
           AtLeaf(doc, root, count, i, leaves, j, before, c0, text, after)
    PROVE  Counted(doc, root, count, leaves, j, before, text, after)
  <1> DEFINE key == leaves[j].key
  <1>2. IsCount(doc, before) /\ ~before.deep /\ ~before.done
    BY DEF CountedTo, AtLeaf
  <1>3. after = CountText(root, before, j, key, text)
    BY <1>2 DEF CountNext, AtLeaf
  <1> HIDE DEF key
  <1>r. root \in Range(RootItems) /\ RootToken(doc, root) # 0 /\ j \in Nat
    BY DEF AtLeaf
  <1>t. ~(root = "memo" /\ text = Word("")) /\ text # MsgMultiSend
    BY DEF AtLeaf
  <1>4. IsCount(doc, after)
    BY ONLY <1>r, <1>2, <1>3, CountTextType
  <1>5. CountsText(doc, before, after, root, j, key, text)
    BY ONLY <1>r, <1>t, <1>2, <1>3, CountTextIs
  <1>6. ~after.deep /\ ~after.done
    BY <1>2, <1>5, <1>t DEF DeepAfter, CountsText
  <1>7. MoreItems(count, after, root, i + 1)
    BY <1>5, OneMoreItem DEF CountsText, AtLeaf
  <1>8. QED
    BY <1>4, <1>5, <1>6, <1>7 DEF CountedTo, CountsText, Counted, AtLeaf, key

\* The leaves of a root field that are counted one by one: no text changes the
\* depth, none ends the count, and their number fits a byte.
Countable(doc, root, count, flat, n, c0) ==
    /\ Tokenized(doc) /\ IsJson(doc) /\ Len(doc.tokens) > 0 /\ Never(doc, MsgMultiSend)
    /\ IsCount(doc, count) /\ ~count.deep /\ RootToken(doc, root) # 0
    /\ flat = RootLeaves(doc, root, FALSE) /\ n = Len(flat)
    /\ c0 = count.subitems[root] /\ c0 + n < U8
    /\ root = "memo" => \A j \in 1 .. n : Text(doc.tokens, flat[j].token) # Word("")

\* The texts of a document that its root fields show do not make it deep: they
\* are counted one by one, and behind the last only the end of the loop is noted.
LEMMA LeavesCounted ==
    ASSUME NEW doc, NEW count, NEW root \in Range(RootItems), NEW flat, NEW n, NEW c0,
           Countable(doc, root, count, flat, n, c0)
    PROVE  RootCounted(doc, root, count, CountRoot(doc, root, count), flat)
  <1>1. PICK g : \E m \in Nat : CountRun(g, doc, root, count, m)
    BY CountIsRun DEF Countable
  <1>2. PICK m \in Nat : CountRun(g, doc, root, count, m)
    BY <1>1
  <1> DEFINE deep == RootLeaves(doc, root, TRUE)
             text(j) == Text(doc.tokens, flat[j].token)
  <1>3. /\ g[0] = [count EXCEPT !.done = FALSE]
        /\ \A i \in 1 .. m : g[i] = CountNext(doc, root, g[i - 1], i,
                                             IF g[i - 1].deep THEN deep ELSE flat)
        /\ n <= m /\ CountRoot(doc, root, count) = g[m]
    BY <1>2 DEF CountRun, Countable
  <1>4. n \in Nat /\ \A j \in 1 .. n : flat[j].token \in DOMAIN doc.tokens
    <2> DEFINE P == PlacesOf(doc.tokens, root)
    <2>1. flat \in Seq(P)
      BY RootLeavesType DEF Countable
    <2> HIDE DEF P
    <2>2. n = Len(flat)
      BY DEF Countable
    <2>3. n \in Nat
      BY ONLY <2>1, <2>2
    <2>4. \A j \in DOMAIN flat : flat[j].token \in DOMAIN doc.tokens
      <3> DEFINE leaves == RootLeaves(doc, root, FALSE)
      <3>1. \A j \in 1 .. Len(leaves) : leaves[j].token \in DOMAIN doc.tokens
        <4>1. /\ Tokenized(doc) /\ IsJson(doc) /\ Len(doc.tokens) > 0
              /\ RootToken(doc, root) # 0
          BY DEF Countable
        <4>2. QED
          BY <4>1, LeafIsToken
      <3>2. leaves = flat
        BY DEF Countable
      <3> HIDE DEF leaves
      <3>3. DOMAIN flat = 1 .. Len(flat)
        BY ONLY <2>1
      <3>4. QED
        BY <3>1, <3>2, <3>3
    <2>5. DOMAIN flat = 1 .. n
      BY ONLY <2>1, <2>2
    <2>6. QED
      BY <2>3, <2>4, <2>5
  <1>5. c0 \in Nat /\ IsCount(doc, count) /\ ~count.deep /\ RootToken(doc, root) # 0
        /\ count.subitems[root] = c0 /\ n = Len(flat) /\ c0 + n < U8
    <2>1. count.subitems \in [Range(RootItems) -> 0 .. U8 - 1]
      BY CountParts DEF Countable
    <2>2. count.subitems[root] \in Nat
      BY <2>1
    <2>3. QED
      BY <2>2 DEF Countable
  <1>6. \A j \in 1 .. n : text(j) # MsgMultiSend
    BY <1>4 DEF Never, Countable
  <1>7. \A j \in 1 .. n : ~(root = "memo" /\ text(j) = Word(""))
    BY DEF Countable
  <1>c. n \in Nat /\ m \in Nat /\ n <= m
    BY <1>3, <1>4
  <1>8. CountedTo(doc, root, count, g[0], 0) /\ g[0].types = count.types /\ g[0].froms = count.froms
    <2> DEFINE start == g[0]
    <2>1. start = Marked(count, FALSE)
      BY <1>3 DEF Marked
    <2> HIDE DEF start
    <2>2. /\ IsCount(doc, start) /\ start.done = FALSE /\ start.deep = count.deep
          /\ start.subitems = count.subitems
          /\ start.types = count.types /\ start.froms = count.froms
      BY <1>5, <2>1, CountMarked
    <2>3. MoreItems(count, start, root, 0)
      <3>1. c0 = c0 + 0
        BY ONLY <1>5
      <3> DEFINE z == c0 + 0
      <3>2. z = c0
        BY <3>1
      <3> HIDE DEF z
      <3>3. start.subitems[root] = count.subitems[root] + 0
        BY <1>5, <2>2
      <3>4. QED
        BY <2>2, <3>3 DEF MoreItems
    <2>4. QED
      BY <1>5, <2>2, <2>3 DEF CountedTo, start
  <1> HIDE DEF deep, text
  <1>9. ASSUME NEW i \in 0 .. n - 1, CountedTo(doc, root, count, g[i], i)
        PROVE  /\ CountedTo(doc, root, count, g[i + 1], i + 1)
               /\ g[i + 1].types = GroupNext(g[i].types, flat[i + 1].key, i + 1, TypeKey, text(i + 1))
               /\ g[i + 1].froms = GroupNext(g[i].froms, flat[i + 1].key, i + 1, FromKey, text(i + 1))
    <2> DEFINE j == i + 1
               before == g[i]
               after == g[j]
    <2>1. j \in 1 .. m /\ j \in 1 .. n /\ j - 1 = i /\ j \in Nat /\ i \in Nat /\ ~(j > n)
      BY ONLY <1>c, i \in 0 .. n - 1
    <2>2. c0 + i + 1 < U8
      BY ONLY <1>c, <1>5, i \in 0 .. n - 1 DEF U8
    <2>3. after = CountNext(doc, root, before, j, flat)
      <3>1. g[j] = CountNext(doc, root, g[j - 1], j, IF g[j - 1].deep THEN deep ELSE flat)
        BY <1>3, <2>1
      <3>2. g[j - 1] = before /\ ~before.deep
        BY <1>9, <2>1 DEF CountedTo
      <3> HIDE DEF j, before
      <3>3. QED
        BY <3>1, <3>2
    <2>4. text(j) # MsgMultiSend /\ ~(root = "memo" /\ text(j) = Word(""))
          /\ text(j) = Text(doc.tokens, flat[j].token)
      BY <1>6, <1>7, <2>1 DEF text
    <2>5. CountedTo(doc, root, count, before, i) /\ j = i + 1
      BY <1>9
    <2> DEFINE word == text(j)
    <2>6. /\ word # MsgMultiSend /\ ~(root = "memo" /\ word = Word(""))
          /\ word = Text(doc.tokens, flat[j].token)
      BY <2>4
    <2>7. ~(j > Len(flat)) /\ count.subitems[root] = c0
      BY <1>5, <2>1
    <2> HIDE DEF j, before, after, word
    <2>8. AtLeaf(doc, root, count, i, flat, j, before, c0, word, after)
      BY <1>5, <2>2, <2>3, <2>5, <2>6, <2>7 DEF AtLeaf
    <2>9. c0 \in Nat /\ i \in Nat /\ j \in Nat /\ root \in Range(RootItems)
      BY <1>5, <2>1
    <2>10. Counted(doc, root, count, flat, j, before, word, after)
      BY ONLY <2>8, <2>9, LeafCounted
    <2>11. QED
      BY <2>10 DEF Counted, j, before, after, word
  <1> DEFINE S == {i \in 0 .. n : CountedTo(doc, root, count, g[i], i)}
  <1>10. 0 \in S /\ \A i \in 0 .. n - 1 : i \in S => i + 1 \in S
    <2>1. ASSUME NEW i \in 0 .. n - 1 PROVE i + 1 \in 0 .. n
      BY ONLY <1>c, i \in 0 .. n - 1
    <2>2. 0 \in 0 .. n
      BY ONLY <1>c
    <2>3. QED
      BY <1>8, <1>9, <2>1, <2>2
  <1> HIDE DEF S
  <1>11. \A i \in 0 .. n : CountedTo(doc, root, count, g[i], i)
    <2>1. \A i \in 0 .. n : i \in S
      BY ONLY <1>c, <1>10, Induction
    <2>2. QED
      BY <2>1 DEF S
  <1> DEFINE last == m - n
  <1> DEFINE Same(at) == /\ IsCount(doc, at) /\ ~at.deep
                         /\ at.subitems = g[n].subitems
                         /\ at.types = g[n].types /\ at.froms = g[n].froms
             R == {i \in 0 .. last : Same(g[n + i])}
  <1>12. last \in Nat /\ n + last = m
    BY ONLY <1>c DEF last
  <1>13. 0 \in R
    <2>1. n \in 0 .. n /\ 0 \in 0 .. last /\ n + 0 = n
      BY ONLY <1>c, <1>12
    <2>2. IsCount(doc, g[n]) /\ ~g[n].deep
      BY <1>11, <2>1 DEF CountedTo
    <2> HIDE DEF last
    <2>3. QED
      BY <2>1, <2>2
  <1>14. ASSUME NEW i \in 0 .. last - 1, i \in R PROVE i + 1 \in R
    <2> DEFINE k == n + i
               j == k + 1
               before == g[k]
               after == g[j]
    <2>1. j \in 1 .. m /\ j - 1 = k /\ i + 1 \in 0 .. last /\ n + (i + 1) = j /\ j > n
      BY ONLY <1>c, <1>12, i \in 0 .. last - 1 DEF j, k
    <2>2. Same(before)
      BY <1>14
    <2> HIDE DEF last
    <2>3. after = CountNext(doc, root, before, j, flat)
      <3>1. g[j] = CountNext(doc, root, g[j - 1], j, IF g[j - 1].deep THEN deep ELSE flat)
        BY <1>3, <2>1
      <3>2. g[j - 1] = before /\ ~before.deep
        BY <2>1, <2>2
      <3> HIDE DEF before, j
      <3>3. QED
        BY <3>1, <3>2
    <2> HIDE DEF before, after, j, k
    <2>4. after = [before EXCEPT !.done = TRUE]
      BY <1>5, <2>1, <2>3 DEF CountNext
    <2>5. IsCount(doc, before)
      BY <2>2
    <2> DEFINE next == Marked(before, TRUE)
    <2>6. /\ IsCount(doc, next) /\ next.deep = before.deep
          /\ next.subitems = before.subitems
          /\ next.types = before.types /\ next.froms = before.froms
      BY ONLY <2>5, CountMarked
    <2> HIDE DEF next
    <2>7. Same(next)
      BY <2>2, <2>6
    <2>8. Same(g[n + (i + 1)])
      <3>1. g[n + (i + 1)] = after
        BY <2>1 DEF after
      <3> HIDE DEF Same
      <3>2. QED
        BY <2>4, <2>7, <3>1 DEF next, Marked
    <2> HIDE DEF Same
    <2>9. QED
      BY <2>1, <2>8
  <1> HIDE DEF last, R
  <1>15. Same(g[m])
    <2>1. \A i \in 0 .. last - 1 : i \in R => i + 1 \in R
      BY <1>14
    <2>2. \A i \in 0 .. last : i \in R
      BY ONLY <1>12, <1>13, <2>1, Induction
    <2>3. last \in 0 .. last
      BY ONLY <1>12
    <2>5. last \in R
      BY <2>2, <2>3
    <2>4. QED
      BY <1>12, <2>5 DEF R
  <1>16. MoreItems(count, g[m], root, n) /\ IsCount(doc, g[m]) /\ ~g[m].deep
    <2>1. n \in 0 .. n
      BY ONLY <1>c
    <2>2. MoreItems(count, g[n], root, n)
      BY <1>11, <2>1 DEF CountedTo
    <2>3. QED
      BY <1>15, <2>2 DEF MoreItems
  <1> DEFINE T == [j \in 0 .. n |-> g[j].types]
             F == [j \in 0 .. n |-> g[j].froms]
  <1>17. /\ GroupRun(T, doc, flat, TypeKey, count.types, n) /\ g[m].types = T[n]
         /\ GroupRun(F, doc, flat, FromKey, count.froms, n) /\ g[m].froms = F[n]
    <2>1. n \in 0 .. n /\ 0 \in 0 .. n
      BY ONLY <1>c
    <2>2. T[0] = count.types /\ F[0] = count.froms /\ g[m].types = T[n] /\ g[m].froms = F[n]
      BY <1>8, <1>15, <2>1
    <2>3. ASSUME NEW j \in 1 .. n
          PROVE  /\ T[j] = GroupNext(T[j - 1], flat[j].key, j, TypeKey, text(j))
                 /\ F[j] = GroupNext(F[j - 1], flat[j].key, j, FromKey, text(j))
      <3> DEFINE i == j - 1
      <3>1. i \in 0 .. n - 1 /\ i + 1 = j /\ i \in 0 .. n /\ j \in 0 .. n
        BY ONLY <1>c, j \in 1 .. n DEF i
      <3>2. T[j] = g[j].types /\ T[i] = g[i].types /\ F[j] = g[j].froms /\ F[i] = g[i].froms
        BY <3>1
      <3>3. CountedTo(doc, root, count, g[i], i)
        BY <1>11, <3>1
      <3> HIDE DEF i, T, F
      <3>4. /\ g[i + 1].types = GroupNext(g[i].types, flat[i + 1].key, i + 1, TypeKey, text(i + 1))
            /\ g[i + 1].froms = GroupNext(g[i].froms, flat[i + 1].key, i + 1, FromKey, text(i + 1))
        BY <1>9, <3>1, <3>3
      <3>5. QED
        BY <3>1, <3>2, <3>4 DEF i
    <2> HIDE DEF T, F
    <2>4. QED
      BY <2>2, <2>3 DEF GroupRun, text
  <1> HIDE DEF T, F
  <1>18. RootCounted(doc, root, count, g[m], flat)
    BY <1>5, <1>16, <1>17 DEF RootCounted
  <1>19. QED
    BY <1>3, <1>18

-----------------------------------------------------------------------------
(* The groups of the count: repeated types and repeated delegators.        *)

\* The first of j places with a key.
IsFirst(p, K, of, j) == p \in 1 .. j /\ K[p] = of /\ \A i \in 1 .. p - 1 : K[i] # of

GroupRecord(on, count, idx, text) == [on |-> on, count |-> count, idx |-> idx, text |-> text]

\* A group behind j fields with keys K and texts W: it is on as long as the texts
\* under its key are one, has counted some when there are any, and knows the first.
GroupParts(on, count, idx, text, K, W, of, j) ==
    /\ on \in BOOLEAN /\ count \in 0 .. j /\ idx \in Nat
    /\ ~on => \E i, k \in 1 .. j : K[i] = of /\ K[k] = of /\ W[i] # W[k]
    /\ on /\ count = 0 => \A i \in 1 .. j : K[i] # of
    /\ on /\ count # 0 => /\ IsFirst(idx, K, of, j)
                          /\ \A i \in 1 .. j : K[i] = of => W[i] = text

GroupAt(group, K, W, of, j) ==
    \E on, count, idx, text :
        group = GroupRecord(on, count, idx, text) /\ GroupParts(on, count, idx, text, K, W, of, j)

\* The parts of a group by their names.
LEMMA GroupFields ==
    ASSUME NEW on, NEW count, NEW idx, NEW text, NEW group, group = GroupRecord(on, count, idx, text)
    PROVE  group.on = on /\ group.count = count /\ group.idx = idx /\ group.text = text
  BY DEF GroupRecord

\* What the code does with one more field of a group.
GroupMoves(group, on, count, idx, text, i, w) ==
    /\ ~on => Grouped(group, i, w) = group
    /\ on /\ count = 0 => Grouped(group, i, w) = GroupRecord(on, 1, i, w)
    /\ on /\ count # 0 /\ w = text
         => Grouped(group, i, w) = GroupRecord(on, (count + 1) % U8, idx, text)
    /\ on /\ count # 0 /\ w # text => Grouped(group, i, w) = GroupRecord(FALSE, 1, idx, text)

\* The group moves as the code moves it.
LEMMA GroupedIs ==
    ASSUME NEW on, NEW count, NEW idx, NEW text, NEW i, NEW w,
           NEW group, group = GroupRecord(on, count, idx, text)
    PROVE  GroupMoves(group, on, count, idx, text, i, w)
  BY DEF GroupRecord, Grouped, GroupMoves

\* The parts of a group behind one field more.
LEMMA OtherField ==
    ASSUME NEW j \in Nat, NEW k \in Nat, k = j + 1, NEW K, NEW W, NEW of, K[k] # of,
           NEW on, NEW count, NEW idx, NEW text, GroupParts(on, count, idx, text, K, W, of, j)
    PROVE  GroupParts(on, count, idx, text, K, W, of, k)
  BY DEF GroupParts, IsFirst

\* ... which is the first with its key,
LEMMA FirstField ==
    ASSUME NEW j \in Nat, NEW k \in Nat, k = j + 1, NEW K, NEW W, NEW of, K[k] = of,
           NEW idx, NEW text, GroupParts(TRUE, 0, idx, text, K, W, of, j)
    PROVE  GroupParts(TRUE, 1, k, W[k], K, W, of, k)
  BY DEF GroupParts, IsFirst

\* ... which has the text of those in front of it,
LEMMA SameField ==
    ASSUME NEW j \in Nat, NEW k \in Nat, k = j + 1, NEW K, NEW W, NEW of, K[k] = of,
           NEW count, count # 0, NEW idx, NEW text, W[k] = text,
           GroupParts(TRUE, count, idx, text, K, W, of, j)
    PROVE  GroupParts(TRUE, count + 1, idx, text, K, W, of, k)
  BY DEF GroupParts, IsFirst

\* ... which has another text,
LEMMA DifferentField ==
    ASSUME NEW j \in Nat, NEW k \in Nat, k = j + 1, NEW K, NEW W, NEW of, K[k] = of,
           NEW count, count # 0, NEW idx, NEW text, W[k] # text,
           GroupParts(TRUE, count, idx, text, K, W, of, j)
    PROVE  GroupParts(FALSE, 1, idx, text, K, W, of, k)
  BY DEF GroupParts, IsFirst

\* ... when the group is off already.
LEMMA OffField ==
    ASSUME NEW j \in Nat, NEW k \in Nat, k = j + 1, NEW K, NEW W, NEW of,
           NEW count, NEW idx, NEW text, GroupParts(FALSE, count, idx, text, K, W, of, j)
    PROVE  GroupParts(FALSE, count, idx, text, K, W, of, k)
  BY DEF GroupParts, IsFirst

\* The group behind one field more.
GroupAfter(group, K, W, of, k) == IF K[k] = of THEN Grouped(group, k, W[k]) ELSE group

\* One field more keeps what a group knows.
LEMMA GroupStep ==
    ASSUME NEW j \in Nat, NEW k \in Nat, k = j + 1, k < U8, NEW K, NEW W, NEW of,
           NEW group, GroupAt(group, K, W, of, j)
    PROVE  GroupAt(GroupAfter(group, K, W, of, k), K, W, of, k)
  <1>1. PICK on, count, idx, text :
           group = GroupRecord(on, count, idx, text) /\ GroupParts(on, count, idx, text, K, W, of, j)
    BY DEF GroupAt
  <1> DEFINE next == GroupAfter(group, K, W, of, k)
             w == W[k]
  <1> HIDE DEF w
  <1>g. GroupMoves(group, on, count, idx, text, k, w)
    BY ONLY <1>1, GroupedIs
  <1>2. /\ ~on => Grouped(group, k, w) = group
        /\ on /\ count = 0 => Grouped(group, k, w) = GroupRecord(on, 1, k, w)
        /\ on /\ count # 0 /\ w = text
             => Grouped(group, k, w) = GroupRecord(on, (count + 1) % U8, idx, text)
        /\ on /\ count # 0 /\ w # text
             => Grouped(group, k, w) = GroupRecord(FALSE, 1, idx, text)
    BY <1>g DEF GroupMoves
  <1>3. on \in BOOLEAN /\ count \in 0 .. j
    BY <1>1 DEF GroupParts
  <1>4. CASE K[k] # of
    <2>1. next = group
      BY <1>4 DEF GroupAfter
    <2>2. GroupParts(on, count, idx, text, K, W, of, k)
      BY <1>1, <1>4, OtherField
    <2>3. QED
      BY <1>1, <2>1, <2>2 DEF GroupAt
  <1>5. ASSUME K[k] = of PROVE next = Grouped(group, k, w)
    BY <1>5 DEF GroupAfter, w
  <1>6. CASE K[k] = of /\ ~on
    <2>1. on = FALSE
      BY <1>3, <1>6
    <2>2. GroupParts(on, count, idx, text, K, W, of, k)
      BY <1>1, <2>1, OffField
    <2>3. next = GroupRecord(on, count, idx, text)
      BY <1>1, <1>2, <1>5, <1>6
    <2> HIDE DEF next
    <2>4. QED
      BY <2>2, <2>3 DEF GroupAt, next
  <1>7. CASE K[k] = of /\ on /\ count = 0
    <2>1. on = TRUE
      BY <1>3, <1>7
    <2>2. GroupParts(on, 1, k, w, K, W, of, k)
      BY <1>1, <1>7, <2>1, FirstField DEF w
    <2>3. next = GroupRecord(on, 1, k, w)
      BY <1>2, <1>5, <1>7
    <2> HIDE DEF next
    <2>4. QED
      BY <2>2, <2>3 DEF GroupAt, next
  <1>8. CASE K[k] = of /\ on /\ count # 0 /\ w = text
    <2>1. on = TRUE
      BY <1>3, <1>8
    <2>2. GroupParts(on, count + 1, idx, text, K, W, of, k)
      BY <1>1, <1>8, <2>1, SameField DEF w
    <2> DEFINE c == count + 1
    <2>3. next = GroupRecord(on, c % U8, idx, text)
      BY <1>2, <1>5, <1>8
    <2>4. c \in Nat /\ c < U8
      BY ONLY <1>3, j \in Nat, k = j + 1, k < U8 DEF U8
    <2> HIDE DEF c, next
    <2>5. c % U8 = c
      BY <2>4 DEF U8
    <2>6. next = GroupRecord(on, c, idx, text) /\ GroupParts(on, c, idx, text, K, W, of, k)
      BY <2>2, <2>3, <2>5 DEF c
    <2>7. QED
      BY <2>6 DEF GroupAt, next
  <1>9. CASE K[k] = of /\ on /\ count # 0 /\ w # text
    <2>1. on = TRUE
      BY <1>3, <1>9
    <2>2. GroupParts(FALSE, 1, idx, text, K, W, of, k)
      BY <1>1, <1>9, <2>1, DifferentField DEF w
    <2>3. next = GroupRecord(FALSE, 1, idx, text)
      BY <1>2, <1>5, <1>9
    <2> HIDE DEF next
    <2>4. QED
      BY <2>2, <2>3 DEF GroupAt, next
  <1>10. QED
    BY <1>4, <1>6, <1>7, <1>8, <1>9

\* A group over all fields, from none.
GroupsBy(T, K, W, of, n) ==
    T[0] = NoGroup /\ \A j \in 1 .. n : T[j] = GroupAfter(T[j - 1], K, W, of, j)

\* So a group knows it behind every field.
LEMMA GroupsAre ==
    ASSUME NEW n \in Nat, n < U8, NEW K, NEW W, NEW of, NEW T, GroupsBy(T, K, W, of, n),
           NEW j \in 0 .. n
    PROVE  GroupAt(T[j], K, W, of, j)
  <1> DEFINE S == {i \in 0 .. n : GroupAt(T[i], K, W, of, i)}
  <1>1. 0 \in S
    <2>1. GroupParts(TRUE, 0, 0, << >>, K, W, of, 0)
      BY DEF GroupParts
    <2>2. T[0] = GroupRecord(TRUE, 0, 0, << >>)
      BY DEF GroupsBy, NoGroup, GroupRecord
    <2>3. GroupAt(T[0], K, W, of, 0)
      BY <2>1, <2>2 DEF GroupAt
    <2>4. QED
      BY <2>3
  <1>2. ASSUME NEW i \in 0 .. n - 1, i \in S PROVE i + 1 \in S
    <2> DEFINE k == i + 1
    <2>1. k \in 1 .. n /\ k - 1 = i /\ k < U8 /\ i \in Nat /\ k \in Nat /\ k \in 0 .. n
      BY DEF U8
    <2>2. T[k] = GroupAfter(T[i], K, W, of, k)
      BY <2>1 DEF GroupsBy
    <2>3. GroupAt(T[i], K, W, of, i) /\ k = i + 1
      BY <1>2
    <2> HIDE DEF k
    <2>4. GroupAt(T[k], K, W, of, k)
      BY <2>1, <2>2, <2>3, GroupStep
    <2>5. QED
      BY <2>1, <2>4 DEF k
  <1> HIDE DEF S
  <1>3. \A i \in 0 .. n : i \in S
    BY <1>1, <1>2, Induction
  <1>4. QED
    BY <1>3 DEF S

\* The fields with a key have one text.
OneText(K, W, of, n) == \A i, k \in 1 .. n : K[i] = of /\ K[k] = of => W[i] = W[k]

\* What a group tells when all fields are counted.
GroupTells(group, K, W, of, n) ==
    /\ group.on \in BOOLEAN /\ group.count \in 0 .. n
    /\ group.on <=> OneText(K, W, of, n)
    /\ group.on /\ group.count # 0 => IsFirst(group.idx, K, of, n)
    /\ group.on /\ group.count = 0 => \A i \in 1 .. n : K[i] # of

\* Behind the last field the group is on when the fields have one text.
LEMMA GroupEnds ==
    ASSUME NEW n \in Nat, NEW K, NEW W, NEW of, NEW group, GroupAt(group, K, W, of, n)
    PROVE  GroupTells(group, K, W, of, n)
  <1>1. PICK on, count, idx, text :
           group = GroupRecord(on, count, idx, text) /\ GroupParts(on, count, idx, text, K, W, of, n)
    BY DEF GroupAt
  <1>2. group.on = on /\ group.count = count /\ group.idx = idx /\ group.text = text
    BY ONLY <1>1, GroupFields
  <1>3. on \in BOOLEAN /\ count \in 0 .. n
    BY <1>1 DEF GroupParts
  <1>4. CASE on
    <2>1. OneText(K, W, of, n)
      BY <1>1, <1>4 DEF GroupParts, OneText
    <2>2. count # 0 => IsFirst(idx, K, of, n)
      BY <1>1, <1>4 DEF GroupParts
    <2>3. count = 0 => \A i \in 1 .. n : K[i] # of
      BY <1>1, <1>4 DEF GroupParts
    <2>4. QED
      BY <1>2, <1>3, <1>4, <2>1, <2>2, <2>3 DEF GroupTells
  <1>5. CASE ~on
    <2>1. ~OneText(K, W, of, n)
      BY <1>1, <1>5 DEF GroupParts, OneText
    <2>2. QED
      BY <1>2, <1>3, <1>5, <2>1 DEF GroupTells
  <1>6. QED
    BY <1>4, <1>5

\* There is one first place.
LEMMA FirstIsOne ==
    ASSUME NEW K, NEW of, NEW n \in Nat, NEW m \in Nat, NEW p, NEW q,
           IsFirst(p, K, of, n), IsFirst(q, K, of, m)
    PROVE  p = q
  <1>1. p \in Nat /\ q \in Nat /\ 1 <= p /\ 1 <= q /\ K[p] = of /\ K[q] = of
    BY DEF IsFirst
  <1>2. ~(p < q)
    BY <1>1 DEF IsFirst
  <1>3. ~(q < p)
    BY <1>1 DEF IsFirst
  <1>4. QED
    BY <1>1, <1>2, <1>3

\* A field the traversal passes over for a group.
PassedBy(group, K, of, i) == K[i] = of /\ group.on /\ group.idx # i

OneIf(b) == IF b THEN 1 ELSE 0

\* The number of repeated fields is that of the fields passed over.
LEMMA RepeatsGrow ==
    ASSUME NEW n \in Nat, n < U8, NEW K, NEW W, NEW of, NEW T, GroupsBy(T, K, W, of, n),
           T[n].on, NEW j \in 0 .. n - 1, NEW k, k = j + 1
    PROVE  /\ Repeats(T[j]) \in Nat
           /\ Repeats(T[k]) = Repeats(T[j]) + OneIf(PassedBy(T[n], K, of, k))
  <1> DEFINE last == T[n]
             next == T[k]
             group == T[j]
             w == W[k]
  <1>0. j \in 0 .. n /\ k \in 0 .. n /\ n \in 0 .. n /\ k \in 1 .. n /\ k - 1 = j
        /\ j \in Nat /\ k \in Nat /\ k < U8
    BY DEF U8
  <1>1. GroupAt(group, K, W, of, j) /\ GroupAt(next, K, W, of, k) /\ GroupAt(last, K, W, of, n)
    BY <1>0, GroupsAre
  <1>2. GroupTells(group, K, W, of, j) /\ GroupTells(next, K, W, of, k)
        /\ GroupTells(last, K, W, of, n)
    BY <1>0, <1>1, GroupEnds
  <1>3. OneText(K, W, of, n) /\ last.on
    BY <1>2 DEF GroupTells
  <1>4. group.on /\ next.on
    <2>1. OneText(K, W, of, j) /\ OneText(K, W, of, k)
      BY <1>0, <1>3 DEF OneText
    <2>2. QED
      BY <1>2, <2>1 DEF GroupTells
  <1>5. group.count \in 0 .. j
    BY <1>2 DEF GroupTells
  <1>6. next = GroupAfter(group, K, W, of, k)
    BY <1>0 DEF GroupsBy
  <1>7. PICK on, count, idx, text :
           group = GroupRecord(on, count, idx, text) /\ GroupParts(on, count, idx, text, K, W, of, j)
    BY <1>1 DEF GroupAt
  <1>8. group.on = on /\ group.count = count /\ group.idx = idx /\ group.text = text
    BY ONLY <1>7, GroupFields
  <1> HIDE DEF last, next, group, w
  <1>9. Repeats(group) \in Nat
    BY <1>5 DEF Repeats
  <1>10. CASE K[k] # of
    <2>1. next = group /\ ~PassedBy(last, K, of, k)
      BY <1>6, <1>10 DEF GroupAfter, PassedBy
    <2>2. QED
      BY <1>9, <2>1 DEF OneIf, next, group, last
  <1>11. ASSUME K[k] = of
         PROVE  /\ GroupMoves(group, on, count, idx, text, k, w)
                /\ next = Grouped(group, k, w)
                /\ last.count # 0 /\ IsFirst(last.idx, K, of, n)
    <2>1. GroupMoves(group, on, count, idx, text, k, w)
      BY ONLY <1>7, GroupedIs
    <2>2. next = Grouped(group, k, w)
      BY <1>6, <1>11 DEF GroupAfter, w
    <2>3. last.count # 0
      BY <1>0, <1>2, <1>3, <1>11 DEF GroupTells
    <2>4. QED
      BY <1>2, <1>3, <2>1, <2>2, <2>3 DEF GroupTells
  <1>12. CASE K[k] = of /\ group.count = 0
    <2>1. next = GroupRecord(on, 1, k, w)
      BY <1>4, <1>8, <1>11, <1>12 DEF GroupMoves
    <2>2. next.count = 1
      BY ONLY <2>1, GroupFields
    <2>3. Repeats(group) = 0 /\ Repeats(next) = 0
      BY <1>12, <2>2 DEF Repeats
    <2>4. IsFirst(k, K, of, k)
      <3>1. \A i \in 1 .. j : K[i] # of
        BY <1>2, <1>4, <1>12 DEF GroupTells
      <3>2. QED
        BY <1>0, <1>12, <3>1 DEF IsFirst
    <2>5. last.idx = k
      BY <1>0, <1>11, <1>12, <2>4, FirstIsOne
    <2>6. OneIf(PassedBy(last, K, of, k)) = 0
      BY <2>5 DEF PassedBy, OneIf
    <2>7. QED
      BY <2>3, <2>6 DEF next, group, last
  <1>13. CASE K[k] = of /\ group.count # 0
    <2>1. w = text
      <3>1. SUFFICES ASSUME w # text PROVE FALSE
        OBVIOUS
      <3>2. next = GroupRecord(FALSE, 1, idx, text)
        BY <1>4, <1>8, <1>11, <1>13, <3>1 DEF GroupMoves
      <3>3. next.on = FALSE
        BY ONLY <3>2 DEF GroupRecord
      <3>4. QED
        BY <1>4, <3>3
    <2>2. next = GroupRecord(on, (count + 1) % U8, idx, text)
      BY <1>4, <1>8, <1>11, <1>13, <2>1 DEF GroupMoves
    <2> DEFINE c == count + 1
    <2>3. c \in Nat /\ c < U8
      BY ONLY <1>0, <1>5, <1>8 DEF U8
    <2>4. next = GroupRecord(on, c % U8, idx, text)
      BY <2>2
    <2> HIDE DEF c
    <2>5. c % U8 = c
      BY ONLY <2>3 DEF U8
    <2>6. next.count = c
      <3>1. next = GroupRecord(on, c, idx, text)
        BY <2>4, <2>5
      <3>2. QED
        BY ONLY <3>1, GroupFields
    <2>7. Repeats(group) = count - 1 /\ Repeats(next) = c - 1
      BY <1>4, <1>5, <1>8, <1>13, <2>3, <2>6 DEF Repeats, c
    <2>8. IsFirst(group.idx, K, of, j)
      BY <1>2, <1>4, <1>13 DEF GroupTells
    <2>9. last.idx # k
      <3>1. last.idx = group.idx
        BY <1>0, <1>11, <1>13, <2>8, FirstIsOne
      <3>2. group.idx \in 1 .. j
        BY <2>8 DEF IsFirst
      <3>3. QED
        BY <1>0, <3>1, <3>2
    <2>10. OneIf(PassedBy(last, K, of, k)) = 1
      BY <1>3, <1>13, <2>9 DEF PassedBy, OneIf
    <2>11. c - 1 = (count - 1) + 1
      BY <1>5, <1>8 DEF c
    <2>12. QED
      BY <1>9, <2>7, <2>10, <2>11 DEF next, group, last
  <1>14. QED
    BY <1>10, <1>12, <1>13

\* The number of fields a group has passed over, one after the other.
RepeatsBy(r, group, K, of, n) ==
    /\ r[0] = 0 /\ r[n] = Repeats(group)
    /\ \A j \in 0 .. n : r[j] \in Nat
    /\ \A j \in 1 .. n : r[j] = r[j - 1] + OneIf(PassedBy(group, K, of, j))

\* A group that is off passes over none.
LEMMA OffRepeats ==
    ASSUME NEW n \in Nat, NEW K, NEW of, NEW group, ~group.on
    PROVE  \E r : RepeatsBy(r, group, K, of, n)
  <1> DEFINE r == [j \in 0 .. n |-> 0]
  <1>1. Repeats(group) = 0 /\ \A j : OneIf(PassedBy(group, K, of, j)) = 0
    BY DEF Repeats, PassedBy, OneIf
  <1>2. \A j \in 0 .. n : r[j] = 0
    OBVIOUS
  <1>3. \A j \in 1 .. n : j \in 0 .. n /\ j - 1 \in 0 .. n
    OBVIOUS
  <1>4. 0 \in 0 .. n /\ n \in 0 .. n
    OBVIOUS
  <1> HIDE DEF r
  <1>5. RepeatsBy(r, group, K, of, n)
    BY <1>1, <1>2, <1>3, <1>4 DEF RepeatsBy
  <1>6. QED
    BY <1>5

\* A group that is on has passed over all its fields but the first.
LEMMA OnRepeats ==
    ASSUME NEW n \in Nat, n < U8, NEW K, NEW W, NEW of, NEW T, GroupsBy(T, K, W, of, n), T[n].on
    PROVE  \E r : RepeatsBy(r, T[n], K, of, n)
  <1> DEFINE r == [j \in 0 .. n |-> Repeats(T[j])]
             last == T[n]
  <1>1. 0 \in 0 .. n /\ n \in 0 .. n
    OBVIOUS
  <1>2. r[0] = 0
    <2>1. T[0].count = 0
      BY DEF GroupsBy, NoGroup
    <2>2. Repeats(T[0]) = 0
      BY <2>1 DEF Repeats
    <2>3. QED
      BY <1>1, <2>2
  <1>3. r[n] = Repeats(last)
    BY <1>1
  <1>4. \A j \in 0 .. n : r[j] \in Nat
    <2> TAKE j \in 0 .. n
    <2>1. GroupTells(T[j], K, W, of, j)
      <3>1. GroupAt(T[j], K, W, of, j)
        BY GroupsAre
      <3>2. j \in Nat
        OBVIOUS
      <3>3. QED
        BY <3>1, <3>2, GroupEnds
    <2> DEFINE c == T[j].count
    <2>2. c \in 0 .. j
      BY <2>1 DEF GroupTells
    <2> HIDE DEF c
    <2>3. (IF T[j].on /\ c > 0 THEN c - 1 ELSE 0) \in Nat
      BY <2>2
    <2>4. QED
      BY <2>3 DEF Repeats, c
  <1>5. ASSUME NEW j \in 1 .. n PROVE r[j] = r[j - 1] + OneIf(PassedBy(last, K, of, j))
    <2> DEFINE i == j - 1
    <2>1. i \in 0 .. n - 1 /\ j = i + 1 /\ i \in 0 .. n /\ j \in 0 .. n
      OBVIOUS
    <2>2. r[j] = Repeats(T[j]) /\ r[i] = Repeats(T[i])
      BY <2>1
    <2> HIDE DEF i, r
    <2>3. Repeats(T[j]) = Repeats(T[i]) + OneIf(PassedBy(T[n], K, of, j))
      BY <2>1, RepeatsGrow
    <2>4. QED
      BY <2>2, <2>3 DEF i
  <1> HIDE DEF r, last
  <1>6. RepeatsBy(r, last, K, of, n)
    BY <1>2, <1>3, <1>4, <1>5 DEF RepeatsBy
  <1>7. QED
    BY <1>6 DEF last

\* What a group becomes when it applies only under a condition.
OnIf(group, b) == [group EXCEPT !.on = @ /\ b]

SwitchedBy(group, b, next) ==
    (b => next = group) /\ (next.on <=> group.on /\ b) /\ next.idx = group.idx

\* Such a group differs in that alone.
LEMMA OnIfIs ==
    ASSUME NEW n, NEW K, NEW W, NEW of, NEW group, GroupAt(group, K, W, of, n), NEW b \in BOOLEAN
    PROVE  SwitchedBy(group, b, OnIf(group, b))
  <1>1. PICK on, count, idx, text :
           group = GroupRecord(on, count, idx, text) /\ GroupParts(on, count, idx, text, K, W, of, n)
    BY DEF GroupAt
  <1>2. on \in BOOLEAN
    BY <1>1 DEF GroupParts
  <1>3. OnIf(group, b) = [on |-> on /\ b, count |-> count, idx |-> idx, text |-> text]
    BY <1>1 DEF OnIf, GroupRecord
  <1>4. group = [on |-> on, count |-> count, idx |-> idx, text |-> text]
    BY <1>1 DEF GroupRecord
  <1>5. b => (on /\ b) = on
    BY <1>2
  <1> DEFINE c == on /\ b
  <1>6. c \in BOOLEAN /\ (b => c = on) /\ (c <=> on /\ b)
    BY <1>2
  <1>7. OnIf(group, b) = [on |-> c, count |-> count, idx |-> idx, text |-> text]
    BY <1>3
  <1> HIDE DEF c
  <1>8. QED
    BY <1>2, <1>4, <1>6, <1>7 DEF SwitchedBy

\* The fields passed over for a group that applies under a condition.
LEMMA RepeatsAre ==
    ASSUME NEW n \in Nat, n < U8, NEW K, NEW W, NEW of, NEW T, GroupsBy(T, K, W, of, n),
           NEW b \in BOOLEAN
    PROVE  \E r : RepeatsBy(r, OnIf(T[n], b), K, of, n)
  <1>1. GroupAt(T[n], K, W, of, n)
    BY GroupsAre
  <1> DEFINE group == T[n]
             next == OnIf(group, b)
  <1>2. (b => next = group) /\ (next.on <=> group.on /\ b)
    BY <1>1, OnIfIs DEF SwitchedBy
  <1>3. CASE ~next.on
    <2> HIDE DEF next
    <2>1. QED
      BY <1>3, OffRepeats DEF next
  <1>4. CASE next.on
    <2>1. next = T[n] /\ T[n].on
      BY <1>2, <1>4
    <2> HIDE DEF next, group
    <2>2. QED
      BY <2>1, OnRepeats DEF next, group
  <1>5. QED
    BY <1>3, <1>4

\* Two groups of different keys: what is passed over for the one is none of the
\* other, and the leaves that are not are kept.
KeptPart(i, leaf, types, froms, K) ==
    IF PassedBy(types, K, TypeKey, i) \/ PassedBy(froms, K, FromKey, i) THEN << >> ELSE << leaf >>

KeptParts(parts, leaves, n, types, froms, K) ==
    AreSeqs(parts, n) /\ \A i \in 1 .. n : parts[i] = KeptPart(i, leaves[i], types, froms, K)

\* As many leaves are kept as the groups do not repeat.
LEMMA KeptLength ==
    ASSUME NEW n \in Nat, NEW K, NEW types, NEW froms, NEW leaves,
           NEW parts, KeptParts(parts, leaves, n, types, froms, K),
           NEW r, RepeatsBy(r, types, K, TypeKey, n), NEW s, RepeatsBy(s, froms, K, FromKey, n)
    PROVE  Len(FlattenSeq(parts)) = n - Repeats(types) - Repeats(froms)
  <1>1. PICK off : PlacesBy(off, parts, n)
    BY FlattenPlaces DEF KeptParts
  <1>2. /\ \A m \in 0 .. n : off[m] \in Nat
        /\ off[0] = 0 /\ off[n] = Len(FlattenSeq(parts))
        /\ \A m \in 1 .. n : off[m] = off[m - 1] + Len(parts[m])
    BY <1>1 DEF PlacesBy
  <1>3. TypeKey # FromKey
    BY PathsDiffer DEF FromKey
  <1>4. ASSUME NEW i \in 1 .. n
        PROVE  Len(parts[i]) + OneIf(PassedBy(types, K, TypeKey, i))
                  + OneIf(PassedBy(froms, K, FromKey, i)) = 1
               /\ Len(parts[i]) \in Nat
    <2>1. Len(<< >>) = 0 /\ Len(<< leaves[i] >>) = 1
      BY ShortSeqs
    <2>2. ~(PassedBy(types, K, TypeKey, i) /\ PassedBy(froms, K, FromKey, i))
      BY <1>3 DEF PassedBy
    <2>3. Len(parts[i]) = IF PassedBy(types, K, TypeKey, i) \/ PassedBy(froms, K, FromKey, i)
                          THEN 0 ELSE 1
      BY <2>1 DEF KeptPart, KeptParts
    <2>4. QED
      BY <2>2, <2>3 DEF OneIf
  <1> DEFINE S == {m \in 0 .. n : off[m] + r[m] + s[m] = m}
  <1>5. 0 \in S
    BY <1>2 DEF RepeatsBy
  <1>6. ASSUME NEW i \in 0 .. n - 1, i \in S PROVE i + 1 \in S
    <2> DEFINE k == i + 1
               a == OneIf(PassedBy(types, K, TypeKey, k))
               b == OneIf(PassedBy(froms, K, FromKey, k))
               c == Len(parts[k])
    <2>1. k \in 1 .. n /\ k - 1 = i /\ k \in 0 .. n /\ i \in 0 .. n
      OBVIOUS
    <2>2. off[k] = off[i] + c /\ r[k] = r[i] + a /\ s[k] = s[i] + b
      BY <1>2, <2>1 DEF RepeatsBy
    <2>3. c + a + b = 1 /\ a \in Nat /\ b \in Nat /\ c \in Nat
      BY <1>4, <2>1 DEF OneIf
    <2>4. off[i] \in Nat /\ r[i] \in Nat /\ s[i] \in Nat /\ off[i] + r[i] + s[i] = i
      BY <1>2, <1>6, <2>1 DEF RepeatsBy
    <2> HIDE DEF a, b, c
    <2> DEFINE x == off[i]
               y == r[i]
               z == s[i]
    <2>7. off[k] = x + c /\ r[k] = y + a /\ s[k] = z + b
      BY <2>2
    <2>8. x \in Nat /\ y \in Nat /\ z \in Nat /\ x + y + z = i
      BY <2>4
    <2> HIDE DEF x, y, z
    <2>9. (x + c) + (y + a) + (z + b) = i + 1
      BY ONLY <2>3, <2>8
    <2>5. off[k] + r[k] + s[k] = k
      BY <2>7, <2>9
    <2>6. QED
      BY <2>1, <2>5
  <1> HIDE DEF S
  <1>7. \A i \in 0 .. n : i \in S
    BY <1>5, <1>6, Induction
  <1>8. n \in 0 .. n
    OBVIOUS
  <1>9. off[n] + r[n] + s[n] = n /\ off[n] \in Nat /\ r[n] \in Nat /\ s[n] \in Nat
    BY <1>2, <1>7, <1>8 DEF S, RepeatsBy
  <1>10. r[n] = Repeats(types) /\ s[n] = Repeats(froms)
    BY DEF RepeatsBy
  <1> DEFINE o == off[n]
             p == r[n]
             q == s[n]
  <1>11. o + p + q = n /\ o \in Nat /\ p \in Nat /\ q \in Nat
    BY <1>9
  <1>12. Len(FlattenSeq(parts)) = o /\ Repeats(types) = p /\ Repeats(froms) = q
    BY <1>2, <1>10
  <1> HIDE DEF o, p, q
  <1>13. o = n - p - q
    BY ONLY <1>11
  <1>14. QED
    BY <1>12, <1>13

\* Words are the same when their texts are, and types that the display does not
\* show for another one stay different.
LEMMA WordsDiffer == \A v, w : Word(v) = Word(w) => v = w
  BY DEF Word

\* Two such types whose texts are shown alike are one type.
LEMMA TypesDiffer ==
    ASSUME NEW v, NEW w, v # "cosmos-sdk/MsgExecuteContract", w # "cosmos-sdk/MsgExecuteContract",
           Substituted(Word(v)) = Substituted(Word(w))
    PROVE  v = w
  <1> DEFINE kept == "cosmos-sdk/MsgExecuteContract"
  <1>1. v # kept /\ w # kept
    OBVIOUS
  <1>2. Word(v) # Word(kept) /\ Word(w) # Word(kept)
    BY <1>1, WordsDiffer
  <1>3. \A text : Substituted(text) = IF text = MsgExecuteContract THEN Word(kept) ELSE text
    BY DEF Substituted
  <1> HIDE DEF kept
  <1>4. Word(v) = Word(w)
    BY <1>2, <1>3
  <1>5. QED
    BY <1>4, WordsDiffer

\* What the display makes of an entry: the text a group compares.
Meant(e) == Substituted(Raw(e.value))

IsOrdinaryEntry(e) == IsTypeEntry(e) \/ IsFieldEntry(e)

\* An entry is a type or a field.
LEMMA TypeMeant ==
    ASSUME NEW m
    PROVE  Raw(TypeField(m)) = Word(m.type)
  BY DEF Raw, TypeField

\* The text of a leaf is that of the entry it shows.
LEMMA LeafMeans ==
    ASSUME NEW doc, Tokenized(doc), NEW leaf, NEW e, Shows(doc, leaf, e), IsOrdinaryEntry(e)
    PROVE  Text(doc.tokens, leaf.token) = Raw(e.value)
  <1>1. ValueAt(doc, leaf.token, EncodeValue(e.value))
    BY DEF Shows
  <1>2. CASE IsFieldEntry(e)
    <2>1. OrdinaryField(e.value)
      BY <1>2 DEF IsFieldEntry
    <2>2. QED
      BY <1>1, <2>1, FieldText
  <1>3. CASE IsTypeEntry(e)
    <2>1. PICK m : e.value = TypeField(m)
      BY <1>3 DEF IsTypeEntry
    <2>2. EncodeValue(TypeField(m)) = Str(m.type)
      BY DEF EncodeValue, TypeField
    <2>3. ValueAt(doc, leaf.token, Str(m.type))
      BY <1>1, <2>1, <2>2
    <2>4. Text(doc.tokens, leaf.token) = Word(m.type)
      BY <2>3, WordAt
    <2>5. QED
      BY <2>1, <2>4, TypeMeant
  <1>4. QED
    BY <1>2, <1>3 DEF IsOrdinaryEntry

\* An entry of a message: its type is the first, a field one behind.
EntryOf(t, e, m) ==
    /\ e.msg = m /\ m \in 1 .. Len(t.msgs) /\ m \in DOMAIN t.msgs
    /\ \/ e.key = TypeKey /\ e.value = TypeField(t.msgs[m]) /\ IsTypeEntry(e)
       \/ /\ e.key # TypeKey /\ IsFieldEntry(e)
          /\ \E q \in DOMAIN t.msgs[m].value : e.value = t.msgs[m].value[q]

\* An entry of an ordinary transaction is the type or a field of its message.
LEMMA EntryHas ==
    ASSUME NEW t, Ordinary(t), NEW e, NEW p, IsEntry(t, e, p)
    PROVE  EntryOf(t, e, e.msg) /\ IsOrdinaryEntry(e)
  <1> DEFINE i == e.msg
             m == t.msgs[i]
             es == MsgEntries(t, i)
  <1>1. i \in 1 .. Len(t.msgs) /\ p \in 1 .. Len(es) /\ e = es[p]
    BY DEF IsEntry
  <1>2. i \in DOMAIN t.msgs /\ OrdinaryMsg(m)
    <2>1. DOMAIN t.msgs = 1 .. Len(t.msgs)
      BY SeqFacts DEF Ordinary
    <2>2. QED
      BY <1>1, <2>1 DEF Ordinary
  <1>3. AreOfMsg(es, m, i)
    BY <1>2, MsgEntriesAre DEF OrdinaryMsg
  <1> HIDE DEF i, m, es
  <1>4. /\ es[p].msg = i
        /\ \/ p = 1 /\ es[p].key = TypeKey /\ es[p].value = TypeField(m) /\ IsTypeEntry(es[p])
           \/ /\ p - 1 \in 1 .. Len(m.value) /\ p - 1 \in DOMAIN m.value
              /\ es[p].value = m.value[p - 1]
              /\ es[p].key = << "msgs", "value", m.value[p - 1].key >>
              /\ IsFieldEntry(es[p])
    BY <1>1, <1>2, <1>3, EntryIsOrdinary
  <1>5. CASE e.key = TypeKey /\ e.value = TypeField(m) /\ IsTypeEntry(e)
    BY <1>1, <1>2, <1>4, <1>5 DEF EntryOf, IsOrdinaryEntry, i, m
  <1>6. CASE /\ p - 1 \in DOMAIN m.value /\ e.value = m.value[p - 1]
             /\ e.key = << "msgs", "value", m.value[p - 1].key >> /\ IsFieldEntry(e)
    <2>1. e.key # TypeKey
      BY <1>6, PathsDiffer
    <2>2. \E q \in DOMAIN m.value : e.value = m.value[q]
      BY <1>6
    <2>3. QED
      BY <1>1, <1>2, <1>4, <1>6, <2>1, <2>2 DEF EntryOf, IsOrdinaryEntry, i, m
  <1>7. QED
    BY <1>1, <1>4, <1>5, <1>6

\* A field among the entries of a message.
HasField(es, n, i, v) ==
    \E x \in 1 .. n :
        es[x].msg = i /\ es[x].value = v /\ es[x].key = << "msgs", "value", v.key >>

\* Every message has its type among the entries, and its fields.
LEMMA EntriesHave ==
    ASSUME NEW t, Ordinary(t), NEW es, AreEntries(es, t), NEW i \in DOMAIN t.msgs
    PROVE  /\ \E x \in 1 .. Len(es) :
                 es[x].msg = i /\ es[x].key = TypeKey /\ es[x].value = TypeField(t.msgs[i])
           /\ \A q \in DOMAIN t.msgs[i].value : HasField(es, Len(es), i, t.msgs[i].value[q])
  <1> DEFINE m == t.msgs[i]
             own == MsgEntries(t, i)
  <1>1. OrdinaryMsg(m) /\ i \in 1 .. Len(t.msgs)
    <2>1. DOMAIN t.msgs = 1 .. Len(t.msgs)
      BY SeqFacts DEF Ordinary
    <2>2. QED
      BY <2>1 DEF Ordinary
  <1>2. AreOfMsg(own, m, i)
    BY <1>1, MsgEntriesAre DEF OrdinaryMsg
  <1>3. \A p \in 1 .. Len(own) : \E x \in 1 .. Len(es) : es[x] = own[p]
    BY <1>1 DEF AreEntries
  <1>4. DOMAIN m.value = 1 .. Len(m.value)
    BY <1>1, SeqFacts DEF OrdinaryMsg
  <1> HIDE DEF own, m
  <1> DEFINE k == Len(m.value)
             n == Len(own)
  <1>5. n = 1 + k /\ k \in Nat
    BY <1>2 DEF AreOfMsg
  <1> HIDE DEF k, n
  <1>6. 1 \in 1 .. n /\ \A q \in 1 .. k : 1 + q \in 1 .. n
    BY ONLY <1>5
  <1>7. \E x \in 1 .. Len(es) : es[x].msg = i /\ es[x].key = TypeKey /\ es[x].value = TypeField(m)
    <2>1. PICK x \in 1 .. Len(es) : es[x] = own[1]
      BY <1>3, <1>6 DEF n
    <2>2. own[1].msg = i /\ own[1].key = TypeKey /\ own[1].value = TypeField(m)
      BY <1>2 DEF AreOfMsg
    <2>3. QED
      BY <2>1, <2>2
  <1>8. \A q \in DOMAIN m.value : \E x \in 1 .. Len(es) :
           /\ es[x].msg = i /\ es[x].value = m.value[q]
           /\ es[x].key = << "msgs", "value", m.value[q].key >>
    <2> TAKE q \in DOMAIN m.value
    <2>1. q \in 1 .. k /\ 1 + q \in 1 .. n
      BY <1>4, <1>6 DEF k
    <2>2. PICK x \in 1 .. Len(es) : es[x] = own[1 + q]
      BY <1>3, <2>1 DEF n
    <2>3. /\ own[1 + q].msg = i /\ own[1 + q].value = m.value[q]
          /\ own[1 + q].key = << "msgs", "value", m.value[q].key >>
      BY <1>2, <2>1 DEF AreOfMsg, k
    <2>4. QED
      BY <2>2, <2>3
  <1>9. QED
    BY <1>7, <1>8 DEF m, HasField

\* The keys and the texts that the groups see: those of the entries.
SeesEntries(K, W, es, n) ==
    \A x \in 1 .. n : K[x] = es[x].key /\ W[x] = Meant(es[x])

\* The entries of an ordinary transaction, n of them.
OrdinaryEntries(t, es, n) ==
    /\ Ordinary(t) /\ AreEntries(es, t) /\ n = Len(es) /\ n \in Nat
    /\ \A x \in 1 .. n : EntryOf(t, es[x], es[x].msg)
    /\ \A x, y \in 1 .. n : x < y /\ es[x].key = es[y].key => es[x].msg < es[y].msg

\* So are all entries of an ordinary transaction.
LEMMA EntriesAreOrdinary ==
    ASSUME NEW t, Ordinary(t), NEW es, AreEntries(es, t), NEW n, n = Len(es)
    PROVE  OrdinaryEntries(t, es, n) /\ \A x \in 1 .. n : IsOrdinaryEntry(es[x])
  <1>1. n \in Nat
    BY SeqFacts DEF AreEntries
  <1>2. ASSUME NEW x \in 1 .. n PROVE EntryOf(t, es[x], es[x].msg) /\ IsOrdinaryEntry(es[x])
    <2>1. PICK p : IsEntry(t, es[x], p)
      BY DEF AreEntries
    <2>2. QED
      BY <2>1, EntryHas
  <1>3. QED
    BY <1>1, <1>2 DEF OrdinaryEntries, AreEntries

\* An entry under the key of the types, and one under that of the delegators.
LEMMA TypeEntry ==
    ASSUME NEW t, NEW e, NEW m, EntryOf(t, e, m), e.key = TypeKey
    PROVE  Meant(e) = Substituted(Word(t.msgs[m].type))
  <1>1. e.value = TypeField(t.msgs[m])
    BY DEF EntryOf
  <1>2. QED
    BY <1>1, TypeMeant DEF Meant

\* An entry of a delegator is a field of that key, and its text is a word.
LEMMA FromEntry ==
    ASSUME NEW t, NEW e, NEW m, EntryOf(t, e, m), e.key = FromKey
    PROVE  /\ Meant(e) = Word(e.value.is)
           /\ e.value.key = "delegator_address"
           /\ m \in DOMAIN t.msgs /\ \E q \in DOMAIN t.msgs[m].value : e.value = t.msgs[m].value[q]
  <1>1. FromKey # TypeKey
    BY PathsDiffer DEF FromKey
  <1>2. IsFieldEntry(e) /\ m \in DOMAIN t.msgs
        /\ \E q \in DOMAIN t.msgs[m].value : e.value = t.msgs[m].value[q]
    BY <1>1 DEF EntryOf
  <1>3. e.value.key = "delegator_address"
    <2> DEFINE k == e.value.key
               d == "delegator_address"
    <2>1. << "msgs", "value", k >> = << "msgs", "value", d >>
      BY <1>2 DEF IsFieldEntry, FromKey
    <2> HIDE DEF k, d
    <2>2. k = d
      BY <2>1, PathsDiffer
    <2>3. QED
      BY <2>2 DEF k, d
  <1>4. e.value.kind = "word" /\ OrdinaryField(e.value)
    BY <1>2, <1>3 DEF IsFieldEntry, OrdinaryField
  <1>5. Raw(e.value) = Word(e.value.is)
    BY <1>4 DEF Raw
  <1>6. Meant(e) = Word(e.value.is)
    BY <1>4, <1>5, RawIsKept DEF Meant
  <1>7. QED
    BY <1>2, <1>3, <1>6

\* The types of the entries are one when those of the messages are.
LEMMA OneTypeIs ==
    ASSUME NEW t, NEW es, NEW n, OrdinaryEntries(t, es, n), NEW K, NEW W, SeesEntries(K, W, es, n)
    PROVE  OneText(K, W, TypeKey, n) <=> OneType(t)
  <1>1. \A x \in 1 .. n : K[x] = TypeKey => W[x] = Substituted(Word(t.msgs[es[x].msg].type))
                                            /\ es[x].msg \in DOMAIN t.msgs
    <2> TAKE x \in 1 .. n
    <2>1. EntryOf(t, es[x], es[x].msg)
      BY DEF OrdinaryEntries
    <2>2. es[x].msg \in DOMAIN t.msgs
      BY <2>1 DEF EntryOf
    <2>3. es[x].key = TypeKey => Meant(es[x]) = Substituted(Word(t.msgs[es[x].msg].type))
      BY <2>1, TypeEntry
    <2>4. QED
      BY <2>2, <2>3 DEF SeesEntries
  <1>2. ASSUME OneType(t) PROVE OneText(K, W, TypeKey, n)
    <2>1. \A x \in 1 .. n : K[x] = TypeKey => W[x] = Substituted(Word(t.msgs[1].type))
      BY <1>1, <1>2 DEF OneType
    <2>2. QED
      BY <2>1 DEF OneText
  <1>3. ASSUME OneText(K, W, TypeKey, n), NEW i \in DOMAIN t.msgs
        PROVE  t.msgs[i].type = t.msgs[1].type
    <2>0. DOMAIN t.msgs = 1 .. Len(t.msgs) /\ Len(t.msgs) \in Nat
      BY SeqFacts DEF OrdinaryEntries, Ordinary
    <2>1. 1 \in DOMAIN t.msgs
      BY <2>0
    <2>2. ASSUME NEW j \in DOMAIN t.msgs
          PROVE  \E x \in 1 .. n : K[x] = TypeKey /\ W[x] = Substituted(Word(t.msgs[j].type))
      <3>1. PICK x \in 1 .. n :
               es[x].msg = j /\ es[x].key = TypeKey /\ es[x].value = TypeField(t.msgs[j])
        BY EntriesHave DEF OrdinaryEntries
      <3>2. K[x] = TypeKey
        BY <3>1 DEF SeesEntries
      <3>3. QED
        BY <1>1, <3>1, <3>2
    <2>3. Substituted(Word(t.msgs[i].type)) = Substituted(Word(t.msgs[1].type))
      BY <1>3, <2>1, <2>2 DEF OneText
    <2>4. \A j \in DOMAIN t.msgs : t.msgs[j].type # "cosmos-sdk/MsgExecuteContract"
      BY DEF OrdinaryEntries, Ordinary, OrdinaryMsg
    <2> DEFINE a == t.msgs[i].type
               b == t.msgs[1].type
    <2>5. a # "cosmos-sdk/MsgExecuteContract" /\ b # "cosmos-sdk/MsgExecuteContract"
          /\ Substituted(Word(a)) = Substituted(Word(b))
      BY <2>1, <2>3, <2>4
    <2> HIDE DEF a, b
    <2>6. a = b
      BY <2>5, TypesDiffer
    <2>7. QED
      BY <2>6 DEF a, b
  <1>4. QED
    BY <1>2, <1>3 DEF OneType

\* The first of the entries with a key is the one of the earliest message.
LEMMA FirstEntry ==
    ASSUME NEW t, NEW es, NEW n, OrdinaryEntries(t, es, n), NEW K, NEW W, SeesEntries(K, W, es, n),
           NEW of, NEW p, IsFirst(p, K, of, n), NEW x \in 1 .. n, K[x] = of
    PROVE  /\ p = x => \A y \in 1 .. n : K[y] = of => es[x].msg <= es[y].msg
           /\ p # x => es[p].msg < es[x].msg /\ p \in 1 .. n /\ es[p].key = of
           /\ es[x].msg \in Nat /\ 1 <= es[x].msg
           /\ \A y \in 1 .. n : es[y].msg \in Nat
  <1>1. n \in Nat /\ \A y \in 1 .. n : es[y].msg \in Nat /\ 1 <= es[y].msg
    <2>1. \A y \in 1 .. n : es[y].msg \in 1 .. Len(t.msgs)
      BY DEF OrdinaryEntries, EntryOf
    <2>2. Len(t.msgs) \in Nat
      BY SeqFacts DEF OrdinaryEntries, Ordinary
    <2> DEFINE k == Len(t.msgs)
    <2>3. \A i \in 1 .. k : i \in Nat /\ 1 <= i
      BY <2>2
    <2>4. \A y \in 1 .. n : es[y].msg \in 1 .. k
      BY <2>1
    <2> HIDE DEF k
    <2>5. QED
      BY <2>3, <2>4 DEF OrdinaryEntries
  <1>2. p \in 1 .. n /\ K[p] = of /\ \A i \in 1 .. p - 1 : K[i] # of
    BY DEF IsFirst
  <1>3. \A y \in 1 .. n : K[y] = of => p <= y
    BY <1>1, <1>2
  <1>4. \A y, z \in 1 .. n : y < z /\ K[y] = K[z] => es[y].msg < es[z].msg
    BY DEF OrdinaryEntries, SeesEntries
  <1>5. ASSUME p = x, NEW y \in 1 .. n, K[y] = of PROVE es[x].msg <= es[y].msg
    <2>1. x = y \/ x < y
      BY <1>1, <1>3, <1>5
    <2>2. x < y => es[x].msg < es[y].msg
      BY <1>4, <1>5
    <2>3. es[x].msg \in Nat /\ es[y].msg \in Nat
      BY <1>1
    <2> DEFINE a == es[x].msg
               b == es[y].msg
    <2>4. a \in Nat /\ b \in Nat /\ (a = b \/ a < b)
      BY <2>1, <2>2, <2>3
    <2> HIDE DEF a, b
    <2>5. a <= b
      BY <2>4
    <2>6. QED
      BY <2>5 DEF a, b
  <1>6. ASSUME p # x PROVE es[p].msg < es[x].msg /\ p \in 1 .. n /\ es[p].key = of
    <2>1. p < x
      BY <1>1, <1>2, <1>3, <1>6
    <2>2. es[p].msg < es[x].msg
      BY <1>2, <1>4, <2>1
    <2>3. QED
      BY <1>2, <2>2 DEF SeesEntries
  <1>7. QED
    BY <1>1, <1>5, <1>6

-----------------------------------------------------------------------------
(* The leaves the traversal keeps are the screens of the entries.          *)

\* The types are shown once, with the first message, when they are one.
LEMMA TypePassed ==
    ASSUME NEW t, NEW es, NEW n, OrdinaryEntries(t, es, n), NEW K, NEW W, SeesEntries(K, W, es, n),
           NEW group, GroupTells(group, K, W, TypeKey, n), NEW x \in 1 .. n
    PROVE  PassedBy(group, K, TypeKey, x)
              <=> es[x].key = TypeKey /\ OneType(t) /\ es[x].msg > 1
  <1>1. K[x] = es[x].key
    BY DEF SeesEntries
  <1>2. group.on <=> OneType(t)
    BY OneTypeIs DEF GroupTells
  <1>3. CASE ~(K[x] = TypeKey /\ group.on)
    BY <1>1, <1>2, <1>3 DEF PassedBy
  <1>4. CASE K[x] = TypeKey /\ group.on
    <2> DEFINE p == group.idx
    <2>1. IsFirst(p, K, TypeKey, n)
      BY <1>4 DEF GroupTells
    <2> HIDE DEF p
    <2>2. /\ p = x => \A y \in 1 .. n : K[y] = TypeKey => es[x].msg <= es[y].msg
          /\ p # x => es[p].msg < es[x].msg /\ p \in 1 .. n /\ es[p].key = TypeKey
          /\ es[x].msg \in Nat /\ 1 <= es[x].msg
          /\ \A y \in 1 .. n : es[y].msg \in Nat
      BY <1>4, <2>1, FirstEntry
    <2>3. ASSUME p # x PROVE es[x].msg > 1
      <3> DEFINE a == es[p].msg
                 b == es[x].msg
      <3>1. a < b /\ b \in Nat /\ a \in Nat
        BY <2>2, <2>3
      <3>2. 1 <= a
        <4>1. p \in 1 .. n
          BY <2>2, <2>3
        <4>2. EntryOf(t, es[p], es[p].msg)
          BY <4>1 DEF OrdinaryEntries
        <4>3. a \in 1 .. Len(t.msgs)
          BY <4>2 DEF EntryOf
        <4>4. Len(t.msgs) \in Nat
          BY SeqFacts DEF OrdinaryEntries, Ordinary
        <4> HIDE DEF a
        <4>5. QED
          BY <4>3, <4>4
      <3> HIDE DEF a, b
      <3>3. b > 1
        BY <3>1, <3>2
      <3>4. QED
        BY <3>3 DEF b
    <2>4. ASSUME p = x PROVE ~(es[x].msg > 1)
      <3>1. DOMAIN t.msgs = 1 .. Len(t.msgs) /\ Len(t.msgs) \in Nat
        BY SeqFacts DEF OrdinaryEntries, Ordinary
      <3>2. es[x].msg \in DOMAIN t.msgs
        BY DEF OrdinaryEntries, EntryOf
      <3>3. 1 \in DOMAIN t.msgs
        BY <3>1, <3>2
      <3>4. PICK y \in 1 .. n : es[y].msg = 1 /\ es[y].key = TypeKey
        BY <3>3, EntriesHave DEF OrdinaryEntries
      <3>5. K[y] = TypeKey
        BY <3>4 DEF SeesEntries
      <3>6. es[x].msg <= es[y].msg
        BY <2>2, <2>4, <3>5
      <3> DEFINE b == es[x].msg
      <3>7. b <= 1 /\ b \in Nat
        BY <2>2, <3>4, <3>6
      <3> HIDE DEF b
      <3>8. ~(b > 1)
        BY <3>7
      <3>9. QED
        BY <3>8 DEF b
    <2>5. PassedBy(group, K, TypeKey, x) <=> p # x
      BY <1>4 DEF PassedBy, p
    <2>6. QED
      BY <1>1, <1>2, <1>4, <2>3, <2>4, <2>5
  <1>5. QED
    BY <1>3, <1>4

\* A field of a message is among the entries.
LEMMA FieldIsEntry ==
    ASSUME NEW t, NEW es, NEW n, OrdinaryEntries(t, es, n), NEW i \in DOMAIN t.msgs,
           NEW v \in Range(t.msgs[i].value)
    PROVE  HasField(es, n, i, v)
  <1>1. PICK q \in DOMAIN t.msgs[i].value : v = t.msgs[i].value[q]
    BY DEF Range
  <1>2. Ordinary(t) /\ AreEntries(es, t) /\ n = Len(es)
    BY DEF OrdinaryEntries
  <1>3. \A p \in DOMAIN t.msgs[i].value : HasField(es, Len(es), i, t.msgs[i].value[p])
    BY <1>2, EntriesHave
  <1>4. QED
    BY <1>1, <1>2, <1>3

\* The delegators of a transaction are those of its entries.
LEMMA DelegatorsAre ==
    ASSUME NEW t, NEW es, NEW n, OrdinaryEntries(t, es, n)
    PROVE  /\ \A x \in 1 .. n : es[x].key = FromKey => es[x].value.is \in Delegators(t)
           /\ \A who \in Delegators(t) : \E x \in 1 .. n :
                 es[x].key = FromKey /\ es[x].value.is = who
  <1>1. ASSUME NEW x \in 1 .. n, es[x].key = FromKey PROVE es[x].value.is \in Delegators(t)
    <2> DEFINE m == es[x].msg
               v == es[x].value
    <2>1. /\ v.key = "delegator_address" /\ m \in DOMAIN t.msgs
          /\ \E q \in DOMAIN t.msgs[m].value : v = t.msgs[m].value[q]
      BY <1>1, FromEntry DEF OrdinaryEntries
    <2> HIDE DEF m, v
    <2>2. v \in Range(t.msgs[m].value)
      BY <2>1 DEF Range
    <2>3. v.is \in Delegators(t)
      BY <2>1, <2>2 DEF Delegators
    <2>4. QED
      BY <2>3 DEF v
  <1>2. ASSUME NEW who \in Delegators(t)
        PROVE  \E x \in 1 .. n : es[x].key = FromKey /\ es[x].value.is = who
    <2>1. PICK v \in UNION {Range(t.msgs[i].value) : i \in DOMAIN t.msgs} :
             v.key = "delegator_address" /\ who = v.is
      BY DEF Delegators
    <2>2. PICK i \in DOMAIN t.msgs : v \in Range(t.msgs[i].value)
      BY <2>1
    <2>3. HasField(es, n, i, v)
      BY <2>2, FieldIsEntry
    <2>4. PICK x \in 1 .. n : es[x].value = v /\ es[x].key = << "msgs", "value", v.key >>
      BY <2>3 DEF HasField
    <2>5. es[x].key = FromKey /\ es[x].value.is = who
      BY <2>1, <2>4 DEF FromKey
    <2>6. QED
      BY <2>5
  <1>3. QED
    BY <1>1, <1>2

\* When there is a delegator at all, the texts of the entries are one when there
\* is one delegator only.
LEMMA OneFromIs ==
    ASSUME NEW t, NEW es, NEW n, OrdinaryEntries(t, es, n), NEW K, NEW W, SeesEntries(K, W, es, n),
           NEW x \in 1 .. n, es[x].key = FromKey
    PROVE  OneText(K, W, FromKey, n) <=> \E who \in Delegators(t) : Delegators(t) = {who}
  <1>1. \A y \in 1 .. n : K[y] = es[y].key /\ (es[y].key = FromKey => W[y] = Word(es[y].value.is))
    <2> TAKE y \in 1 .. n
    <2>1. K[y] = es[y].key /\ W[y] = Meant(es[y])
      BY DEF SeesEntries
    <2>2. es[y].key = FromKey => Meant(es[y]) = Word(es[y].value.is)
      BY FromEntry DEF OrdinaryEntries
    <2>3. QED
      BY <2>1, <2>2
  <1>2. /\ \A y \in 1 .. n : es[y].key = FromKey => es[y].value.is \in Delegators(t)
        /\ \A who \in Delegators(t) : \E y \in 1 .. n :
              es[y].key = FromKey /\ es[y].value.is = who
    BY DelegatorsAre
  <1>3. ASSUME OneText(K, W, FromKey, n) PROVE \E who \in Delegators(t) : Delegators(t) = {who}
    <2> DEFINE who == es[x].value.is
    <2>1. who \in Delegators(t)
      BY <1>2
    <2>2. ASSUME NEW other \in Delegators(t) PROVE other = who
      <3>1. PICK y \in 1 .. n : es[y].key = FromKey /\ es[y].value.is = other
        BY <1>2
      <3>2. W[y] = W[x]
        BY <1>1, <1>3, <3>1 DEF OneText
      <3>3. Word(other) = Word(who)
        BY <1>1, <3>1, <3>2
      <3> HIDE DEF who
      <3>4. QED
        BY <3>3, WordsDiffer
    <2> HIDE DEF who
    <2>3. Delegators(t) = {who}
      BY <2>1, <2>2
    <2>4. QED
      BY <2>1, <2>3
  <1>4. ASSUME NEW who \in Delegators(t), Delegators(t) = {who} PROVE OneText(K, W, FromKey, n)
    <2>1. \A y \in 1 .. n : K[y] = FromKey => W[y] = Word(who)
      BY <1>1, <1>2, <1>4
    <2>2. QED
      BY <2>1 DEF OneText
  <1>5. QED
    BY <1>3, <1>4

\* The group of the delegators, as the display uses it.
FromsOf(t, froms, group) ==
    /\ froms.on <=> group.on /\ ~expert /\ t.chain_id = COIN_DEFAULT_CHAINID
    /\ froms.idx = group.idx

\* The delegator is shown once, with the first message that has one, when there
\* is one delegator, to a user of the default chain.
LEMMA FromPassed ==
    ASSUME NEW t, NEW es, NEW n, OrdinaryEntries(t, es, n), NEW K, NEW W, SeesEntries(K, W, es, n),
           NEW group, GroupTells(group, K, W, FromKey, n), NEW x \in 1 .. n,
           NEW froms, FromsOf(t, froms, group)
    PROVE  PassedBy(froms, K, FromKey, x)
              <=> es[x].key = FromKey /\ OneDelegator(t) /\ ~FirstDelegation(t, es[x].msg)
  <1>1. K[x] = es[x].key
    BY DEF SeesEntries
  <1>2. es[x].key = FromKey => (froms.on <=> OneDelegator(t))
    BY OneFromIs DEF GroupTells, OneDelegator, FromsOf
  <1>3. CASE ~(K[x] = FromKey /\ froms.on)
    BY <1>1, <1>2, <1>3 DEF PassedBy
  <1>4. CASE K[x] = FromKey /\ froms.on
    <2> DEFINE p == group.idx
               i == es[x].msg
    <2>1. IsFirst(p, K, FromKey, n)
      BY <1>4 DEF GroupTells, FromsOf
    <2> HIDE DEF p
    <2>2. /\ p = x => \A y \in 1 .. n : K[y] = FromKey => es[x].msg <= es[y].msg
          /\ p # x => es[p].msg < es[x].msg /\ p \in 1 .. n /\ es[p].key = FromKey
          /\ es[x].msg \in Nat /\ 1 <= es[x].msg
          /\ \A y \in 1 .. n : es[y].msg \in Nat
      BY <1>4, <2>1, FirstEntry
    <2>3. ASSUME p # x PROVE ~FirstDelegation(t, i)
      <3> DEFINE j == es[p].msg
                 v == es[p].value
      <3>1. p \in 1 .. n /\ es[p].key = FromKey /\ j < i
        BY <2>2, <2>3
      <3>2. /\ v.key = "delegator_address" /\ j \in DOMAIN t.msgs
            /\ \E q \in DOMAIN t.msgs[j].value : v = t.msgs[j].value[q]
        BY <3>1, FromEntry DEF OrdinaryEntries
      <3>3. DOMAIN t.msgs = 1 .. Len(t.msgs) /\ Len(t.msgs) \in Nat
        BY SeqFacts DEF OrdinaryEntries, Ordinary
      <3>4. i \in Nat
        BY <2>2
      <3> HIDE DEF j, v, i
      <3>5. v \in Range(t.msgs[j].value)
        BY <3>2 DEF Range
      <3>6. j \in 1 .. i - 1
        BY <3>1, <3>2, <3>3, <3>4
      <3>7. QED
        BY <3>2, <3>5, <3>6 DEF FirstDelegation
    <2>4. ASSUME p = x PROVE FirstDelegation(t, i)
      <3>1. SUFFICES ASSUME NEW j \in 1 .. i - 1, NEW v \in Range(t.msgs[j].value),
                            v.key = "delegator_address"
                     PROVE  FALSE
        BY DEF FirstDelegation
      <3>2. DOMAIN t.msgs = 1 .. Len(t.msgs) /\ Len(t.msgs) \in Nat
        BY SeqFacts DEF OrdinaryEntries, Ordinary
      <3>3. i \in DOMAIN t.msgs
        BY DEF OrdinaryEntries, EntryOf
      <3>4. j \in DOMAIN t.msgs /\ j \in Nat /\ i \in Nat /\ j < i
        <4> HIDE DEF i
        <4>1. QED
          BY <3>1, <3>2, <3>3
      <3>5. HasField(es, n, j, v)
        BY <3>1, <3>4, FieldIsEntry
      <3>6. PICK y \in 1 .. n : es[y].msg = j /\ es[y].key = << "msgs", "value", v.key >>
        BY <3>5 DEF HasField
      <3>7. K[y] = FromKey
        BY <3>1, <3>6 DEF SeesEntries, FromKey
      <3>8. i <= j
        BY <2>2, <2>4, <3>6, <3>7
      <3> HIDE DEF i
      <3>9. QED
        BY <3>4, <3>8
    <2>5. PassedBy(froms, K, FromKey, x) <=> p # x
      BY <1>4 DEF PassedBy, p, FromsOf
    <2>6. QED
      BY <1>1, <1>2, <1>4, <2>3, <2>4, <2>5
  <1>5. QED
    BY <1>3, <1>4

\* So the leaves that are passed over are those of the entries that are repeated.
LEMMA PassedIsRepeated ==
    ASSUME NEW t, NEW es, NEW n, OrdinaryEntries(t, es, n), NEW K, NEW W, SeesEntries(K, W, es, n),
           NEW types, GroupTells(types, K, W, TypeKey, n),
           NEW group, GroupTells(group, K, W, FromKey, n),
           NEW froms, FromsOf(t, froms, group), NEW x \in 1 .. n
    PROVE  PassedBy(types, K, TypeKey, x) \/ PassedBy(froms, K, FromKey, x)
              <=> Repeated(t, es[x].msg, es[x].key)
  BY TypePassed, FromPassed DEF Repeated

\* A leaf of an entry, and its screen.
KeptAs(doc, leaf, item) ==
    \E e : Shows(doc, leaf, e) /\ IsOrdinaryEntry(e) /\ item = EntryItem(e)

KeepsItems(doc, kept, items) == Alike(kept, items, LAMBDA l, s : KeptAs(doc, l, s))

\* Joining keeps that leaves are kept as screens.
LEMMA ItemsFlattened ==
    ASSUME NEW doc, NEW n, NEW a, NEW b, AreSeqs(a, n), AreSeqs(b, n),
           \A i \in 1 .. n : KeepsItems(doc, a[i], b[i])
    PROVE  KeepsItems(doc, FlattenSeq(a), FlattenSeq(b))
  <1>1. \A i \in 1 .. n : Alike(a[i], b[i], LAMBDA l, s : KeptAs(doc, l, s))
    BY DEF KeepsItems
  <1>2. Alike(FlattenSeq(a), FlattenSeq(b), LAMBDA l, s : KeptAs(doc, l, s))
    BY <1>1, FlattenAlike
  <1>3. QED
    BY <1>2 DEF KeepsItems

\* No leaves are kept as no screens, and one leaf as one.
LEMMA ItemsFew ==
    ASSUME NEW doc
    PROVE  /\ KeepsItems(doc, << >>, << >>)
           /\ \A l, s : KeptAs(doc, l, s) => KeepsItems(doc, << l >>, << s >>)
  <1>1. KeepsItems(doc, << >>, << >>)
    <2>1. IsSeq(<< >>) /\ Len(<< >>) = 0
      BY ShortSeqs
    <2>2. QED
      BY <2>1 DEF KeepsItems, Alike
  <1>2. ASSUME NEW l, NEW s, KeptAs(doc, l, s) PROVE KeepsItems(doc, << l >>, << s >>)
    <2> DEFINE a == << l >>
               b == << s >>
    <2>1. IsSeq(a) /\ IsSeq(b) /\ Len(a) = 1 /\ Len(b) = 1 /\ a[1] = l /\ b[1] = s
      BY ShortSeqs
    <2> HIDE DEF a, b
    <2>2. \A i \in 1 .. Len(a) : KeptAs(doc, a[i], b[i])
      BY <1>2, <2>1
    <2>3. KeepsItems(doc, a, b)
      BY <2>1, <2>2 DEF KeepsItems, Alike
    <2>4. QED
      BY <2>3 DEF a, b
  <1>3. QED
    BY <1>1, <1>2

\* The groups over the leaves of the messages.
GroupsOfMsgs(doc, leaves, n, types, group) ==
    /\ \E T : GroupRun(T, doc, leaves, TypeKey, NoGroup, n) /\ types = T[n]
    /\ \E F : GroupRun(F, doc, leaves, FromKey, NoGroup, n) /\ group = F[n]

\* What is kept of the messages' leaves are their screens, and as many as the
\* display counts.
MsgsKept(doc, t, leaves, c) ==
    /\ KeepsItems(doc, Kept(leaves, c), FlattenSeq(Screens(t, Entries(t))))
    /\ Len(Kept(leaves, c)) = Len(leaves) - Repeats(c.types) - Repeats(c.froms)

\* The run of a group over leaves is one over their keys and their texts.
LEMMA GroupsOfLeaves ==
    ASSUME NEW doc, NEW leaves, NEW n, NEW of, NEW T, GroupRun(T, doc, leaves, of, NoGroup, n)
    PROVE  GroupsBy(T, [i \in 1 .. n |-> leaves[i].key],
                       [i \in 1 .. n |-> Substituted(Text(doc.tokens, leaves[i].token))], of, n)
  BY DEF GroupRun, GroupsBy, GroupNext, GroupAfter

\* The leaves of an ordinary transaction that the traversal keeps, with the
\* groups of the count, are kept as the screens expected.
LEMMA MsgsAreKept ==
    ASSUME NEW doc, NEW t, Encodes(doc, t), NEW leaves, leaves = RootLeaves(doc, "msgs", FALSE),
           NEW n, n = Len(leaves), n < U8, NEW types, NEW group,
           GroupsOfMsgs(doc, leaves, n, types, group),
           NEW b \in BOOLEAN, b <=> ~expert /\ t.chain_id = COIN_DEFAULT_CHAINID,
           NEW cache0, cache0.types = types, cache0.froms = OnIf(group, b)
    PROVE  MsgsKept(doc, t, leaves, cache0)
  <1> DEFINE es == Entries(t)
             K == [i \in 1 .. n |-> leaves[i].key]
             W == [i \in 1 .. n |-> Substituted(Text(doc.tokens, leaves[i].token))]
             froms == OnIf(group, b)
             parts == [i \in DOMAIN leaves |->
                          IF Skipped(cache0, i, leaves[i]) THEN << >> ELSE << leaves[i] >>]
  <1>1. ShowAllOf(doc, leaves, es)
    BY MsgLeaves
  <1>2. /\ IsSeq(leaves) /\ IsSeq(es) /\ Len(es) = n /\ n \in Nat
        /\ \A i \in 1 .. n : Shows(doc, leaves[i], es[i])
    <2>1. /\ IsSeq(leaves) /\ IsSeq(es) /\ Len(leaves) = Len(es)
          /\ \A i \in 1 .. Len(leaves) : Shows(doc, leaves[i], es[i])
      BY <1>1, ShowsOneByOne
    <2>2. n \in Nat
      BY <2>1, SeqFacts
    <2>3. QED
      BY <2>1, <2>2
  <1>n. n \in Nat
    BY <1>2
  <1>3. OrdinaryEntries(t, es, n) /\ \A x \in 1 .. n : IsOrdinaryEntry(es[x])
    <2>1. Ordinary(t) /\ AreEntries(es, t)
      BY EntriesAre DEF Encodes
    <2> HIDE DEF es
    <2>2. QED
      BY <1>2, <2>1, EntriesAreOrdinary
  <1>4. Tokenized(doc)
    BY DEF Encodes
  <1> HIDE DEF es
  <1>5. SeesEntries(K, W, es, n)
    <2>1. ASSUME NEW x \in 1 .. n PROVE K[x] = es[x].key /\ W[x] = Meant(es[x])
      <3>1. Shows(doc, leaves[x], es[x]) /\ IsOrdinaryEntry(es[x])
        BY <1>2, <1>3
      <3>2. Text(doc.tokens, leaves[x].token) = Raw(es[x].value)
        BY <1>4, <3>1, LeafMeans
      <3>3. leaves[x].key = es[x].key
        BY <3>1 DEF Shows
      <3>4. QED
        BY <3>2, <3>3 DEF Meant
    <2> HIDE DEF K, W
    <2>2. QED
      BY <2>1 DEF SeesEntries
  <1>6. PICK T : GroupsBy(T, K, W, TypeKey, n) /\ types = T[n]
    BY GroupsOfLeaves DEF GroupsOfMsgs
  <1>7. PICK F : GroupsBy(F, K, W, FromKey, n) /\ group = F[n]
    BY GroupsOfLeaves DEF GroupsOfMsgs
  <1>8. \A i \in 1 .. n : K[i] = leaves[i].key
    OBVIOUS
  <1> HIDE DEF K, W, froms
  <1>9. GroupAt(types, K, W, TypeKey, n) /\ GroupAt(group, K, W, FromKey, n)
    <2>1. n \in 0 .. n
      BY ONLY <1>n
    <2>2. QED
      BY <1>2, <1>6, <1>7, <2>1, GroupsAre
  <1>10. GroupTells(types, K, W, TypeKey, n) /\ GroupTells(group, K, W, FromKey, n)
    BY <1>2, <1>9, GroupEnds
  <1>11. FromsOf(t, froms, group)
    <2>1. SwitchedBy(group, b, froms)
      BY <1>9, OnIfIs DEF froms
    <2>2. QED
      BY <2>1 DEF SwitchedBy, FromsOf
  <1>12. \A x \in 1 .. n : PassedBy(types, K, TypeKey, x) \/ PassedBy(froms, K, FromKey, x)
                             <=> Repeated(t, es[x].msg, es[x].key)
    BY ONLY <1>3, <1>5, <1>10, <1>11, PassedIsRepeated
  <1>13. DOMAIN leaves = 1 .. n
    BY <1>2, SeqFacts
  <1>14. \A i \in 1 .. n : Skipped(cache0, i, leaves[i])
            <=> PassedBy(types, K, TypeKey, i) \/ PassedBy(froms, K, FromKey, i)
    BY <1>8 DEF Skipped, PassedBy, froms
  <1>15. AreSeqs(parts, n)
         /\ \A i \in 1 .. n : parts[i] = KeptPart(i, leaves[i], types, froms, K)
    <2>1. \A i \in 1 .. n : parts[i] = KeptPart(i, leaves[i], types, froms, K)
      BY <1>13, <1>14 DEF KeptPart
    <2>2. parts = [i \in 1 .. n |-> parts[i]]
      BY <1>13
    <2> HIDE DEF parts
    <2>3. IsSeq(parts) /\ Len(parts) = n
      BY <1>2, <2>2, FunctionIsSeq
    <2>4. \A i \in 1 .. n : IsSeq(parts[i])
      BY <2>1, ShortSeqs DEF KeptPart
    <2>5. QED
      BY <1>2, <2>1, <2>3, <2>4 DEF AreSeqs
  <1>16. Kept(leaves, cache0) = FlattenSeq(parts)
    BY DEF Kept
  <1> HIDE DEF parts
  <1>17. Len(FlattenSeq(parts)) = n - Repeats(types) - Repeats(froms)
    <2>1. PICK r : RepeatsBy(r, OnIf(types, TRUE), K, TypeKey, n)
      BY <1>2, <1>6, RepeatsAre
    <2>2. OnIf(types, TRUE) = types
      <3>1. SwitchedBy(types, TRUE, OnIf(types, TRUE))
        BY <1>9, OnIfIs
      <3>2. QED
        BY <3>1 DEF SwitchedBy
    <2>3. PICK s : RepeatsBy(s, froms, K, FromKey, n)
      BY <1>2, <1>7, RepeatsAre DEF froms
    <2>4. RepeatsBy(r, types, K, TypeKey, n)
      BY <2>1, <2>2
    <2>6. KeptParts(parts, leaves, n, types, froms, K)
      BY <1>15 DEF KeptParts
    <2>5. QED
      BY ONLY <1>n, <2>3, <2>4, <2>6, KeptLength
  <1>18. KeepsItems(doc, FlattenSeq(parts), FlattenSeq(Screens(t, es)))
    <2> DEFINE screens == Screens(t, es)
    <2>1. AreSeqs(screens, n)
      BY <1>2, ScreensAre
    <2>2. DOMAIN es = 1 .. n
      BY <1>2, SeqFacts
    <2>3. ASSUME NEW x \in 1 .. n PROVE KeepsItems(doc, parts[x], screens[x])
      <3>1. screens[x] = KeptItem(t, es[x])
        BY <2>2 DEF Screens
      <3>2. parts[x] = KeptPart(x, leaves[x], types, froms, K)
        BY <1>15
      <3>3. CASE Repeated(t, es[x].msg, es[x].key)
        <4>1. parts[x] = << >> /\ screens[x] = << >>
          BY <1>12, <3>1, <3>2, <3>3 DEF KeptPart, KeptItem
        <4> HIDE DEF screens
        <4>2. QED
          BY <4>1, ItemsFew
      <3>4. CASE ~Repeated(t, es[x].msg, es[x].key)
        <4>1. parts[x] = << leaves[x] >> /\ screens[x] = << EntryItem(es[x]) >>
          BY <1>12, <3>1, <3>2, <3>4 DEF KeptPart, KeptItem
        <4>2. KeptAs(doc, leaves[x], EntryItem(es[x]))
          BY <1>2, <1>3 DEF KeptAs
        <4> HIDE DEF screens
        <4>3. QED
          BY <4>1, <4>2, ItemsFew
      <3>5. QED
        BY <3>3, <3>4
    <2> HIDE DEF screens
    <2>4. QED
      BY <1>15, <2>1, <2>3, ItemsFlattened DEF screens
  <1>19. QED
    BY <1>16, <1>17, <1>18 DEF MsgsKept, froms, es

\* A leaf, and the item it is when it is one.
LeafShows(doc, leaf, item) ==
    \A deep : ItemOf(doc.tokens, leaf, deep).ok => ItemOf(doc.tokens, leaf, deep).item = item

\* A path that holds no amounts: its text is shown.
LEMMA TextShown ==
    ASSUME NEW doc, NEW leaf, leaf.key \notin AmountKeys,
           NEW text, Text(doc.tokens, leaf.token) = text,
           NEW item, item = << leaf.key, Substituted(text) >>
    PROVE  LeafShows(doc, leaf, item)
  <1>1. ASSUME NEW deep PROVE ItemOf(doc.tokens, leaf, deep).item = item
    <2>1. ItemOf(doc.tokens, leaf, deep) = TextItem(leaf.key, text, deep)
      BY DEF ItemOf
    <2> DEFINE k == leaf.key
               s == Substituted(text)
               d == DeepAfter(deep, text)
    <2>2. TextItem(k, text, deep) = [ok |-> TRUE, deep |-> d, item |-> << k, s >>]
      BY DEF TextItem
    <2> HIDE DEF k, s, d
    <2>3. TextItem(k, text, deep).item = << k, s >>
      BY <2>2
    <2>4. QED
      BY <2>1, <2>3 DEF k, s
  <1>2. QED
    BY <1>1 DEF LeafShows

\* A path that holds amounts: its coins are.
LEMMA AmountShown ==
    ASSUME NEW doc, Tokenized(doc), NEW leaf, leaf.key \in AmountKeys,
           NEW coins, IsSeq(coins), ValueAt(doc, leaf.token, EncodeCoins(coins)),
           NEW item, item = << leaf.key, ShownCoins(coins) >>
    PROVE  LeafShows(doc, leaf, item)
  <1> DEFINE parts == AmountParts(doc.tokens, leaf.token)
             k == leaf.key
             s == ShownCoins(coins)
  <1>1. parser_formatAmount(doc.tokens, parts) = s
    BY CoinsShown
  <1>2. ASSUME NEW deep, ItemOf(doc.tokens, leaf, deep).ok
        PROVE  ItemOf(doc.tokens, leaf, deep).item = item
    <2> DEFINE shows == AmountShows(doc.tokens, parts)
               it == ItemOf(doc.tokens, leaf, deep)
               f == parser_formatAmount(doc.tokens, parts)
    <2>1. it = IF shows THEN [ok |-> TRUE, deep |-> deep, item |-> << k, f >>] ELSE Failed(deep)
      BY DEF ItemOf
    <2>2. f = s
      BY <1>1
    <2>3. item = << k, s >> /\ it.ok
      BY <1>2
    <2> HIDE DEF shows, it, f, k, s
    <2>4. shows
      BY <2>1, <2>3 DEF Failed
    <2>5. it.item = << k, f >>
      BY <2>1, <2>4
    <2>6. QED
      BY <2>2, <2>3, <2>5 DEF it
  <1>3. QED
    BY <1>2 DEF LeafShows

\* The paths of amounts that can be paths of entries.
LEMMA AmountPaths ==
    /\ AmountKey \in AmountKeys /\ << "fee", "amount" >> \in AmountKeys
    /\ TypeKey \notin AmountKeys /\ TypeKey # AmountKey
    /\ \A k : << "msgs", "value", k >> # AmountKey => << "msgs", "value", k >> \notin AmountKeys
    /\ << "fee", "gas" >> \notin AmountKeys
    /\ \A root : << root >> \notin AmountKeys
  <1>1. AmountKey \in AmountKeys /\ << "fee", "amount" >> \in AmountKeys
    BY DEF AmountKeys, AmountKey
  <1>2. TypeKey \notin AmountKeys /\ TypeKey # AmountKey
    BY DEF AmountKeys, AmountKey, TypeKey
  <1>3. \A k : << "msgs", "value", k >> # AmountKey => << "msgs", "value", k >> \notin AmountKeys
    BY DEF AmountKeys, AmountKey
  <1>4. << "fee", "gas" >> \notin AmountKeys
    BY DEF AmountKeys
  <1>5. \A root : << root >> \notin AmountKeys
    BY DEF AmountKeys
  <1>6. QED
    BY <1>1, <1>2, <1>3, <1>4, <1>5

\* A kept leaf is shown as the screen of its entry.
LEMMA KeptShown ==
    ASSUME NEW doc, Tokenized(doc), NEW leaf, NEW item, KeptAs(doc, leaf, item)
    PROVE  LeafShows(doc, leaf, item)
  <1>1. PICK e : Shows(doc, leaf, e) /\ IsOrdinaryEntry(e) /\ item = EntryItem(e)
    BY DEF KeptAs
  <1> DEFINE v == e.value
  <1>2. leaf.key = e.key /\ ValueAt(doc, leaf.token, EncodeValue(v))
    BY <1>1 DEF Shows
  <1>3. CASE e.key = AmountKey
    <2>1. IsFieldEntry(e)
      BY <1>1, <1>3, AmountPaths DEF IsOrdinaryEntry, IsTypeEntry
    <2>2. v.key = "amount"
      <3> DEFINE k == v.key
                 a == "amount"
      <3>1. << "msgs", "value", k >> = << "msgs", "value", a >>
        BY <1>3, <2>1 DEF IsFieldEntry, AmountKey
      <3> HIDE DEF k, a
      <3>2. k = a
        BY <3>1, PathsDiffer
      <3>3. QED
        BY <3>2 DEF k, a
    <2>3. OrdinaryField(v)
      BY <2>1 DEF IsFieldEntry
    <2> HIDE DEF v
    <2>4. v.kind = "coins" /\ IsSeq(v.is)
      BY <2>2, <2>3 DEF OrdinaryField
    <2>5. EncodeValue(v) = EncodeCoins(v.is)
      BY <2>4 DEF EncodeValue
    <2>6. item = << leaf.key, ShownCoins(v.is) >> /\ leaf.key \in AmountKeys
      BY <1>1, <1>2, <1>3, AmountPaths DEF EntryItem, v
    <2>7. ValueAt(doc, leaf.token, EncodeCoins(v.is))
      BY <1>2, <2>5
    <2>8. QED
      BY <2>4, <2>6, <2>7, AmountShown
  <1>4. CASE e.key # AmountKey
    <2>1. leaf.key \notin AmountKeys
      <3>1. CASE IsTypeEntry(e)
        BY <1>2, <3>1, AmountPaths DEF IsTypeEntry
      <3>2. CASE IsFieldEntry(e)
        BY <1>2, <1>4, <3>2, AmountPaths DEF IsFieldEntry
      <3>3. QED
        BY <1>1, <3>1, <3>2 DEF IsOrdinaryEntry
    <2>2. Text(doc.tokens, leaf.token) = Raw(v)
      BY <1>1, LeafMeans
    <2>3. item = << leaf.key, Substituted(Raw(v)) >>
      BY <1>1, <1>2, <1>4 DEF EntryItem
    <2> HIDE DEF v
    <2>4. QED
      BY <2>1, <2>2, <2>3, TextShown
  <1>5. QED
    BY <1>3, <1>4

\* A word of the transaction is shown as it is.
LEMMA WordKept ==
    ASSUME NEW w, IsKept(w)
    PROVE  Substituted(Word(w)) = Word(w)
  <1> DEFINE kept == "wasm/MsgExecuteContract"
  <1>1. w # kept
    BY DEF IsKept
  <1>2. MsgExecuteContract = Word(kept)
    BY DEF MsgExecuteContract
  <1> HIDE DEF kept
  <1>3. Word(w) # MsgExecuteContract
    BY <1>1, <1>2, WordsDiffer
  <1>4. QED
    BY <1>3 DEF Substituted

\* A leaf that is a word shows the word under the path of its key.
LEMMA WordShown ==
    ASSUME NEW doc, Tokenized(doc), NEW leaf, leaf.key \notin AmountKeys, NEW w, IsKept(w),
           ValueAt(doc, leaf.token, Str(w))
    PROVE  LeafShows(doc, leaf, << leaf.key, Word(w) >>)
  <1>1. Text(doc.tokens, leaf.token) = Word(w)
    BY WordAt
  <1>2. Substituted(Word(w)) = Word(w)
    BY WordKept
  <1>3. QED
    BY <1>1, <1>2, TextShown

-----------------------------------------------------------------------------
(* The counts of the seven root fields, one after the other.               *)

\* A document under review that encodes an ordinary transaction, and does not
\* ask for more depth.
Reads(doc, t) ==
    /\ Encodes(doc, t) /\ IsJson(doc) /\ Len(doc.tokens) > 0 /\ Never(doc, MsgMultiSend)

\* A root field is counted: c items of it, and what it does to the groups.
RootCounts(doc, root, count, next, c) ==
    IsCount(doc, next) /\ ~next.deep /\ MoreItems(count, next, root, c)

SameGroups(count, next) == next.types = count.types /\ next.froms = count.froms

\* A count that has not come to a root field yet.
NotYet(doc, root, count) ==
    IsCount(doc, count) /\ ~count.deep /\ count.subitems[root] = 0

\* A group that no leaf has the key of stays as it is.
LEMMA GroupStays ==
    ASSUME NEW doc, NEW leaves, NEW n \in Nat, NEW of, \A j \in 1 .. n : leaves[j].key # of,
           NEW start, NEW T, GroupRun(T, doc, leaves, of, start, n)
    PROVE  T[n] = start
  <1> DEFINE S == {j \in 0 .. n : T[j] = start}
  <1>1. 0 \in S
    BY DEF GroupRun
  <1>2. ASSUME NEW j \in 0 .. n - 1, j \in S PROVE j + 1 \in S
    <2> DEFINE k == j + 1
    <2>1. k \in 1 .. n /\ k \in 0 .. n /\ k - 1 = j
      BY ONLY n \in Nat, j \in 0 .. n - 1
    <2>2. T[j] = start
      BY <1>2
    <2>3. T[k] = GroupNext(T[k - 1], leaves[k].key, k, of, Text(doc.tokens, leaves[k].token))
      BY <2>1 DEF GroupRun
    <2>4. leaves[k].key # of /\ T[k - 1] = start
      BY <2>1, <2>2
    <2> HIDE DEF k
    <2>5. T[k] = start
      BY <2>3, <2>4 DEF GroupNext
    <2>6. k \in S
      BY <2>1, <2>5
    <2>7. QED
      BY <2>6 DEF k
  <1> HIDE DEF S
  <1>3. \A j \in 0 .. n : j \in S
    BY ONLY n \in Nat, <1>1, <1>2, Induction
  <1>4. n \in S
    BY <1>3
  <1>5. QED
    BY <1>4 DEF S

\* The keys of the leaves that belong to no group.
LEMMA OffKeys ==
    /\ \A root : << root >> # TypeKey /\ << root >> # FromKey
    /\ << "fee", "amount" >> # TypeKey /\ << "fee", "amount" >> # FromKey
    /\ << "fee", "gas" >> # TypeKey /\ << "fee", "gas" >> # FromKey
  <1>1. Len(TypeKey) = 2 /\ Len(FromKey) = 3 /\ TypeKey[1] = "msgs" /\ FromKey[1] = "msgs"
    BY DEF TypeKey, FromKey
  <1>2. \A root : Len(<< root >>) = 1
    OBVIOUS
  <1>3. \A x : << "fee", x >>[1] = "fee"
    OBVIOUS
  <1>4. "fee" # "msgs"
    OBVIOUS
  <1>5. QED
    BY <1>1, <1>2, <1>3, <1>4

\* The leaves of a root field are counted from none.
LEMMA RootIsCounted ==
    ASSUME NEW doc, NEW t, Reads(doc, t), NEW root \in Range(RootItems), NEW count,
           NotYet(doc, root, count), RootToken(doc, root) # 0,
           NEW flat, flat = RootLeaves(doc, root, FALSE), NEW n \in Nat, n = Len(flat), n < U8,
           root = "memo" => \A j \in 1 .. n : Text(doc.tokens, flat[j].token) # Word("")
    PROVE  RootCounted(doc, root, count, CountRoot(doc, root, count), flat)
  <1>1. Tokenized(doc) /\ IsJson(doc) /\ Len(doc.tokens) > 0 /\ Never(doc, MsgMultiSend)
    BY DEF Reads, Encodes
  <1> DEFINE c0 == count.subitems[root]
             m == U8
  <1>2. IsCount(doc, count) /\ ~count.deep /\ c0 = 0
    BY DEF NotYet
  <1>3. n < m
    OBVIOUS
  <1> HIDE DEF c0, m
  <1>4. c0 + n < m
    BY ONLY <1>2, <1>3, n \in Nat
  <1>5. Countable(doc, root, count, flat, n, c0)
    BY <1>1, <1>2, <1>4 DEF Countable, c0, m
  <1>6. QED
    BY ONLY <1>5, LeavesCounted, root \in Range(RootItems)

\* When none of them belongs to a group, both groups stay as they are.
LEMMA OffRoot ==
    ASSUME NEW doc, NEW root, NEW count, NEW next, NEW flat, NEW n \in Nat, n = Len(flat),
           \A j \in 1 .. n : flat[j].key # TypeKey /\ flat[j].key # FromKey,
           RootCounted(doc, root, count, next, flat)
    PROVE  RootCounts(doc, root, count, next, n) /\ SameGroups(count, next)
  <1>1. /\ IsCount(doc, next) /\ ~next.deep /\ MoreItems(count, next, root, n)
        /\ \E T : GroupRun(T, doc, flat, TypeKey, count.types, n) /\ next.types = T[n]
        /\ \E F : GroupRun(F, doc, flat, FromKey, count.froms, n) /\ next.froms = F[n]
    BY DEF RootCounted
  <1>2. next.types = count.types
    <2>1. PICK T : GroupRun(T, doc, flat, TypeKey, count.types, n) /\ next.types = T[n]
      BY <1>1
    <2>2. QED
      BY <2>1, GroupStays
  <1>3. next.froms = count.froms
    <2>1. PICK F : GroupRun(F, doc, flat, FromKey, count.froms, n) /\ next.froms = F[n]
      BY <1>1
    <2>2. QED
      BY <2>1, GroupStays
  <1>4. QED
    BY <1>1, <1>2, <1>3 DEF RootCounts, SameGroups

\* The leaf of a word, at both depths.
WordLeaf(doc, root, w) ==
    LET k == RootToken(doc, root)
        leaves == << [token |-> k, key |-> << root >>] >>
    IN  /\ k # 0 /\ ValueAt(doc, k, Str(w))
        /\ RootLeaves(doc, root, FALSE) = leaves /\ RootLeaves(doc, root, TRUE) = leaves

\* The four root fields that are words have one leaf each, the field itself.
LEMMA WordsHaveLeaves ==
    ASSUME NEW doc, NEW t, Encodes(doc, t)
    PROVE  /\ WordLeaf(doc, "chain_id", t.chain_id)
           /\ WordLeaf(doc, "account_number", t.account_number)
           /\ WordLeaf(doc, "sequence", t.sequence)
           /\ WordLeaf(doc, "memo", t.memo)
  <1>1. /\ Tokenized(doc)
        /\ ValueAt(doc, RootToken(doc, "account_number"), Str(t.account_number))
        /\ ValueAt(doc, RootToken(doc, "chain_id"), Str(t.chain_id))
        /\ ValueAt(doc, RootToken(doc, "memo"), Str(t.memo))
        /\ ValueAt(doc, RootToken(doc, "sequence"), Str(t.sequence))
    BY RootsAt DEF Encodes
  <1>2. ASSUME NEW root \in {"chain_id", "account_number", "sequence", "memo"}, NEW w,
               ValueAt(doc, RootToken(doc, root), Str(w))
        PROVE  WordLeaf(doc, root, w)
    <2>1. RootToken(doc, root) # 0
      <3>1. RootToken(doc, root) \in DOMAIN doc.tokens /\ DOMAIN doc.tokens = 1 .. Len(doc.tokens)
        BY <1>1, <1>2 DEF ValueAt, Tokenized
      <3>2. QED
        BY <3>1
    <2>2. get_root_max_level(root, FALSE) = 2 /\ get_root_max_level(root, TRUE) = 2
      BY DEF get_root_max_level
    <2> DEFINE k == RootToken(doc, root)
               level == 2
    <2>4. level \in 0 .. 3
      OBVIOUS
    <2> HIDE DEF level, k
    <2>5. Leaves(doc.tokens, k, root, level) = << [token |-> k, key |-> << root >>] >>
      BY <1>1, <1>2, <2>4, WordLeaves DEF k
    <2>6. /\ RootLeaves(doc, root, FALSE) = << [token |-> k, key |-> << root >>] >>
          /\ RootLeaves(doc, root, TRUE) = << [token |-> k, key |-> << root >>] >>
      BY <2>2, <2>5 DEF RootLeaves, level, k
    <2>3. QED
      BY <1>2, <2>1, <2>6 DEF WordLeaf, k
  <1>3. QED
    BY <1>1, <1>2

\* One item fits the counters.
LEMMA OneFits == 1 \in Nat /\ 1 < U8 /\ \A j \in 1 .. 1 : j = 1
  BY DEF U8

\* The only leaf of a sequence of one.
LEMMA OnlyLeaf ==
    ASSUME NEW k, NEW key, NEW leaves, leaves = << [token |-> k, key |-> key] >>
    PROVE  Len(leaves) = 1 /\ leaves[1].token = k /\ leaves[1].key = key
  OBVIOUS

\* A word is counted as one item.
LEMMA WordIsCounted ==
    ASSUME NEW doc, NEW t, Reads(doc, t), NEW root \in Range(RootItems), NEW count,
           NotYet(doc, root, count), NEW w, WordLeaf(doc, root, w),
           root \in {"chain_id", "account_number", "sequence"} \/ (root = "memo" /\ w # ""),
           NEW next, next = CountRoot(doc, root, count)
    PROVE  RootCounts(doc, root, count, next, 1) /\ SameGroups(count, next)
  <1> DEFINE flat == RootLeaves(doc, root, FALSE)
             n == Len(flat)
             k == RootToken(doc, root)
  <1>1. flat = << [token |-> k, key |-> << root >>] >> /\ k # 0 /\ ValueAt(doc, k, Str(w))
    BY DEF WordLeaf
  <1>2. n = 1 /\ flat[1].token = k /\ flat[1].key = << root >>
    <2> HIDE DEF flat, k
    <2> DEFINE key == << root >>
    <2>1. flat = << [token |-> k, key |-> key] >>
      BY <1>1
    <2> HIDE DEF key
    <2>2. Len(flat) = 1 /\ flat[1].token = k /\ flat[1].key = key
      BY ONLY <2>1, OnlyLeaf
    <2>3. QED
      BY <2>2 DEF key
  <1>3. Text(doc.tokens, k) = Word(w)
    BY <1>1, WordAt DEF Reads, Encodes
  <1>4. w # "" => Word(w) # Word("")
    BY WordsDiffer
  <1> HIDE DEF k
  <1>5. \A j \in 1 .. 1 : j = 1
    BY OneFits
  <1>6. 1 \in Nat /\ 1 < U8
    BY OneFits
  <1>7. root = "memo" => \A j \in 1 .. 1 : Text(doc.tokens, flat[j].token) # Word("")
    BY <1>2, <1>3, <1>4, <1>5
  <1> HIDE DEF flat
  <1> DEFINE one == 1
  <1>8. /\ one \in Nat /\ one = n /\ one < U8
        /\ root = "memo" => \A j \in 1 .. one : Text(doc.tokens, flat[j].token) # Word("")
    BY <1>2, <1>6, <1>7
  <1>9. \A j \in 1 .. one : flat[j].key # TypeKey /\ flat[j].key # FromKey
    BY <1>2, <1>5, OffKeys
  <1>10. flat = RootLeaves(doc, root, FALSE) /\ RootToken(doc, root) # 0
    BY <1>1 DEF flat, k
  <1> HIDE DEF one
  <1>11. RootCounted(doc, root, count, next, flat)
    BY <1>8, <1>10, RootIsCounted
  <1>12. RootCounts(doc, root, count, next, one) /\ SameGroups(count, next)
    BY <1>8, <1>9, <1>11, OffRoot
  <1>13. QED
    BY <1>12 DEF one

\* The text of an empty memo ends its count, and is no item.
LEMMA EmptyTextEnds ==
    ASSUME NEW doc, NEW before, IsCount(doc, before), ~before.deep,
           NEW text, text = Word(""), text # MsgMultiSend, NEW i, NEW key
    PROVE  CountText("memo", before, i, key, text) = Marked(before, TRUE)
  <1> DEFINE s == before.subitems
             d == before.deep
             dn == before.done
             ty == before.types
             fr == before.froms
             seen == AtDepth(before, DeepAfter(before.deep, text))
             next == CountText("memo", before, i, key, text)
  <1>1. before = CountOf(s, d, dn, ty, fr) /\ d \in BOOLEAN
    BY CountParts
  <1>2. d = FALSE
    BY <1>1
  <1>3. DeepAfter(before.deep, text) = d
    BY <1>2 DEF DeepAfter
  <1>4. next = Marked(seen, TRUE)
    BY DEF CountText, AtDepth, Marked
  <1>5. seen = AtDepth(before, d)
    BY <1>3
  <1> HIDE DEF s, d, dn, ty, fr, seen, next
  <1>6. seen = CountOf(s, d, dn, ty, fr)
    BY ONLY <1>1, <1>5, CountDone
  <1>7. QED
    BY <1>1, <1>4, <1>6 DEF next

\* So does the loop go on.
LEMMA EmptyMemoNext ==
    ASSUME NEW doc, NEW before, IsCount(doc, before), ~before.deep,
           NEW text, text = Word(""), text # MsgMultiSend,
           NEW leaves, Len(leaves) = 1, Text(doc.tokens, leaves[1].token) = text,
           NEW i \in Nat \ {0}
    PROVE  CountNext(doc, "memo", before, i, leaves) = Marked(before, TRUE)
  <1> DEFINE one == 1
  <1>1. i = one \/ i > one
    BY ONLY i \in Nat \ {0}
  <1>2. Len(leaves) = one /\ Text(doc.tokens, leaves[one].token) = text
    OBVIOUS
  <1>3. ~(one > one)
    BY ONLY i \in Nat \ {0}
  <1> HIDE DEF one
  <1>4. CASE i > one \/ before.done
    BY <1>2, <1>4 DEF CountNext, Marked
  <1>5. CASE i = one /\ ~before.done
    <2>1. CountNext(doc, "memo", before, i, leaves)
             = CountText("memo", before, i, leaves[one].key, text)
      BY <1>2, <1>3, <1>5 DEF CountNext
    <2>2. CountText("memo", before, i, leaves[one].key, text) = Marked(before, TRUE)
      BY EmptyTextEnds
    <2>3. QED
      BY <2>1, <2>2
  <1>6. QED
    BY <1>1, <1>4, <1>5

\* A count that another is as far as it shows.
AsCounted(doc, count, at) ==
    IsCount(doc, at) /\ ~at.deep /\ at.subitems = count.subitems /\ SameGroups(count, at)

\* The mark of the loop does not count.
LEMMA AsMarked ==
    ASSUME NEW doc, NEW count, NEW before, AsCounted(doc, count, before), NEW v \in BOOLEAN
    PROVE  AsCounted(doc, count, Marked(before, v))
  <1> DEFINE next == Marked(before, v)
  <1>1. IsCount(doc, before)
    BY DEF AsCounted
  <1>2. /\ IsCount(doc, next) /\ next.deep = before.deep
        /\ next.subitems = before.subitems
        /\ next.types = before.types /\ next.froms = before.froms
    BY ONLY <1>1, CountMarked, v \in BOOLEAN
  <1> HIDE DEF next
  <1>3. AsCounted(doc, count, next)
    BY <1>2 DEF AsCounted, SameGroups
  <1>4. QED
    BY <1>3 DEF next

\* An empty memo is counted as none.
LEMMA EmptyMemoCounts ==
    ASSUME NEW doc, NEW t, Reads(doc, t), NEW count, IsCount(doc, count), ~count.deep,
           WordLeaf(doc, "memo", ""), NEW next, next = CountRoot(doc, "memo", count)
    PROVE  RootCounts(doc, "memo", count, next, 0) /\ SameGroups(count, next)
  <1> DEFINE flat == RootLeaves(doc, "memo", FALSE)
             deep == RootLeaves(doc, "memo", TRUE)
             k == RootToken(doc, "memo")
             text == Word("")
             key == << "memo" >>
  <1>1. /\ k # 0 /\ ValueAt(doc, k, Str("")) /\ deep = flat
        /\ flat = << [token |-> k, key |-> key] >>
    BY DEF WordLeaf
  <1>0. /\ Tokenized(doc) /\ IsJson(doc) /\ Len(doc.tokens) > 0 /\ Never(doc, MsgMultiSend)
    BY DEF Reads, Encodes
  <1>2. Text(doc.tokens, k) = text /\ k \in DOMAIN doc.tokens
    BY <1>0, <1>1, WordAt DEF ValueAt
  <1>3. text # MsgMultiSend
    BY <1>0, <1>2 DEF Never
  <1>4. PICK g : \E m \in Nat : CountRun(g, doc, "memo", count, m)
    BY <1>0, <1>1, CountIsRun
  <1>5. PICK m \in Nat : CountRun(g, doc, "memo", count, m)
    BY <1>4
  <1>6. /\ g[0] = Marked(count, FALSE)
        /\ \A i \in 1 .. m : g[i] = CountNext(doc, "memo", g[i - 1], i,
                                             IF g[i - 1].deep THEN deep ELSE flat)
        /\ next = g[m]
    BY <1>5 DEF CountRun, Marked
  <1> HIDE DEF flat, deep, k, key
  <1>7. Len(flat) = 1 /\ Text(doc.tokens, flat[1].token) = text
    <2>1. Len(flat) = 1 /\ flat[1].token = k /\ flat[1].key = key
      BY ONLY <1>1, OnlyLeaf
    <2>2. QED
      BY <1>2, <2>1
  <1> HIDE DEF text
  <1>t. text = Word("")
    BY DEF text
  <1> DEFINE S == {i \in 0 .. m : AsCounted(doc, count, g[i])}
             v == FALSE
             w == TRUE
  <1>8. v \in BOOLEAN /\ w \in BOOLEAN
    OBVIOUS
  <1>9. 0 \in S
    <2>1. AsCounted(doc, count, count)
      BY DEF SameGroups, AsCounted
    <2>3. g[0] = Marked(count, v)
      BY <1>6
    <2> HIDE DEF v
    <2>4. AsCounted(doc, count, Marked(count, v))
      BY ONLY <1>8, <2>1, AsMarked
    <2>2. 0 \in 0 .. m
      BY ONLY m \in Nat
    <2>5. QED
      BY <2>2, <2>3, <2>4
  <1>10. ASSUME NEW i \in 0 .. m - 1, i \in S PROVE i + 1 \in S
    <2> DEFINE j == i + 1
               before == g[i]
    <2>1. j \in 1 .. m /\ j \in 0 .. m /\ j - 1 = i /\ j \in Nat \ {0}
      BY ONLY m \in Nat, i \in 0 .. m - 1
    <2>2. AsCounted(doc, count, before)
      BY <1>10
    <2>3. IsCount(doc, before) /\ ~before.deep
      BY <2>2 DEF AsCounted
    <2>4. g[j] = CountNext(doc, "memo", before, j, flat)
      <3>1. g[j] = CountNext(doc, "memo", g[j - 1], j, IF g[j - 1].deep THEN deep ELSE flat)
        BY <1>6, <2>1
      <3>2. g[j - 1] = before /\ ~before.deep
        BY <2>1, <2>3
      <3> HIDE DEF j, before
      <3>3. QED
        BY <3>1, <3>2
    <2> HIDE DEF j, before
    <2>5. g[j] = Marked(before, w)
      BY ONLY <1>3, <1>t, <1>7, <2>1, <2>3, <2>4, EmptyMemoNext DEF w
    <2> HIDE DEF w
    <2>6. AsCounted(doc, count, g[j])
      BY ONLY <1>8, <2>2, <2>5, AsMarked
    <2>7. QED
      BY <2>1, <2>6 DEF j
  <1> HIDE DEF S
  <1>11. m \in S
    <2>1. \A i \in 0 .. m - 1 : i \in S => i + 1 \in S
      BY <1>10
    <2>2. \A i \in 0 .. m : i \in S
      BY ONLY m \in Nat, <1>9, <2>1, Induction
    <2>3. m \in 0 .. m
      BY ONLY m \in Nat
    <2>4. QED
      BY <2>2, <2>3
  <1>12. AsCounted(doc, count, next)
    BY <1>6, <1>11 DEF S
  <1>13. count.subitems["memo"] + 0 = count.subitems["memo"]
    <2> DEFINE s == count.subitems
               root == "memo"
    <2>1. s \in [Range(RootItems) -> 0 .. U8 - 1] /\ root \in Range(RootItems)
      BY CountParts, RootNames
    <2> HIDE DEF s, root
    <2>2. s[root] \in Nat
      BY ONLY <2>1 DEF U8
    <2>3. s[root] + 0 = s[root]
      BY ONLY <2>2
    <2>4. QED
      BY <2>3 DEF s, root
  <1>14. MoreItems(count, next, "memo", 0)
    BY <1>12, <1>13 DEF MoreItems, AsCounted
  <1>15. QED
    BY <1>12, <1>14 DEF RootCounts, AsCounted

\* The fee is counted as two.
LEMMA FeeIsCounted ==
    ASSUME NEW doc, NEW t, Reads(doc, t), NEW count, NotYet(doc, "fee", count),
           NEW next, next = CountRoot(doc, "fee", count)
    PROVE  RootCounts(doc, "fee", count, next, 2) /\ SameGroups(count, next)
  <1> DEFINE flat == RootLeaves(doc, "fee", FALSE)
             n == 2
             root == "fee"
  <1>1. /\ IsSeq(flat) /\ Len(flat) = n
        /\ flat[1].key = << "fee", "amount" >> /\ flat[2].key = << "fee", "gas" >>
    BY FeeLeaves DEF Reads
  <1>2. RootToken(doc, root) # 0
    <2>1. Ordinary(t) /\ doc = Encode(t) /\ Tokenized(doc)
      BY DEF Reads, Encodes
    <2>2. ValueAt(doc, RootToken(doc, "fee"), Obj(FeePairs(t)))
      BY <2>1, RootsAt
    <2>3. RootToken(doc, root) \in DOMAIN doc.tokens /\ DOMAIN doc.tokens = 1 .. Len(doc.tokens)
      BY <2>1, <2>2 DEF ValueAt, Tokenized
    <2>4. QED
      BY <2>3
  <1>3. n \in Nat /\ n < U8 /\ root \in Range(RootItems) /\ root # "memo"
    BY RootNames DEF U8
  <1> DEFINE at == flat
  <1>4. \A j \in 1 .. n : flat[j].key # TypeKey /\ flat[j].key # FromKey
    <2>1. \A j \in 1 .. n : j = 1 \/ j = 2
      OBVIOUS
    <2> HIDE DEF n, flat
    <2>2. QED
      BY <1>1, <2>1, OffKeys
  <1> HIDE DEF at, n, root
  <1>5. /\ flat = RootLeaves(doc, root, FALSE) /\ NotYet(doc, root, count)
        /\ next = CountRoot(doc, root, count)
    BY DEF root
  <1> HIDE DEF flat
  <1>6. RootCounted(doc, root, count, next, flat)
    BY <1>1, <1>2, <1>3, <1>5, RootIsCounted
  <1>7. RootCounts(doc, root, count, next, n) /\ SameGroups(count, next)
    BY <1>1, <1>3, <1>4, <1>6, OffRoot
  <1>8. QED
    BY <1>7 DEF n, root

\* The leaves of the messages are counted one by one, and the groups are over
\* them.
LEMMA MsgsAreCounted ==
    ASSUME NEW doc, NEW t, Reads(doc, t), NEW count, NotYet(doc, "msgs", count),
           count.types = NoGroup, count.froms = NoGroup,
           NEW leaves, leaves = RootLeaves(doc, "msgs", FALSE),
           NEW n \in Nat, n = Len(leaves), n < U8,
           NEW next, next = CountRoot(doc, "msgs", count)
    PROVE  /\ RootCounts(doc, "msgs", count, next, n)
           /\ GroupsOfMsgs(doc, leaves, n, next.types, next.froms)
  <1> DEFINE root == "msgs"
  <1>1. RootToken(doc, root) # 0
    <2>1. Ordinary(t) /\ doc = Encode(t) /\ Tokenized(doc)
      BY DEF Reads, Encodes
    <2>2. ValueAt(doc, RootToken(doc, "msgs"), Arr(MsgValues(t)))
      BY <2>1, RootsAt
    <2>3. RootToken(doc, root) \in DOMAIN doc.tokens /\ DOMAIN doc.tokens = 1 .. Len(doc.tokens)
      BY <2>1, <2>2 DEF ValueAt, Tokenized
    <2>4. QED
      BY <2>3
  <1>2. root \in Range(RootItems) /\ root # "memo"
    BY RootNames
  <1> HIDE DEF root
  <1>3. /\ leaves = RootLeaves(doc, root, FALSE) /\ NotYet(doc, root, count)
        /\ next = CountRoot(doc, root, count)
    BY DEF root
  <1>4. RootCounted(doc, root, count, next, leaves)
    BY <1>1, <1>2, <1>3, RootIsCounted
  <1>5. QED
    BY <1>4 DEF RootCounted, RootCounts, GroupsOfMsgs, root

\* The counting of the root fields, one by one.
CountsBy(after, doc) ==
    /\ after[0] = [subitems |-> NoCounts, deep |-> FALSE, done |-> FALSE,
                   types |-> NoGroup, froms |-> NoGroup]
    /\ \A r \in 1 .. 7 : after[r] = CountRoot(doc, RootItems[r], after[r - 1])
    /\ Counts(doc, FALSE) = after[7]

\* There is such a counting.
LEMMA CountsRun ==
    ASSUME NEW doc
    PROVE  \E after : CountsBy(after, doc)
  <1> DEFINE first == [subitems |-> NoCounts, deep |-> FALSE, done |-> FALSE,
                       types |-> NoGroup, froms |-> NoGroup]
             after[r \in 0 .. Len(RootItems)] ==
                 IF r = 0 THEN first ELSE CountRoot(doc, RootItems[r], after[r - 1])
  <1>1. Counts(doc, FALSE) = after[Len(RootItems)]
    BY DEF Counts
  <1>2. FiniteNatInductiveDefHypothesis(after, first,
            LAMBDA v, r : CountRoot(doc, RootItems[r], v), 0, Len(RootItems))
    BY DEF FiniteNatInductiveDefHypothesis
  <1> HIDE DEF after, first
  <1>3. FiniteNatInductiveDefConclusion(after, first,
            LAMBDA v, r : CountRoot(doc, RootItems[r], v), 0, Len(RootItems))
    <2>1. Len(RootItems) \in Nat /\ 0 \in Nat
      BY RootNames
    <2>2. QED
      BY <1>2, <2>1, FiniteNatInductiveDef
  <1>4. after = [r \in 0 .. 7 |-> IF r = 0 THEN first
                                  ELSE CountRoot(doc, RootItems[r], after[r - 1])]
    BY <1>3, RootNames DEF FiniteNatInductiveDefConclusion
  <1>5. after[0] = first
    BY <1>4
  <1>6. ASSUME NEW r \in 1 .. 7
        PROVE  after[r] = CountRoot(doc, RootItems[r], after[r - 1])
    <2>1. r \in 0 .. 7 /\ r # 0
      OBVIOUS
    <2>2. QED
      BY <1>4, <2>1
  <1>7. Counts(doc, FALSE) = after[7]
    BY <1>1, RootNames
  <1>8. CountsBy(after, doc)
    BY <1>5, <1>6, <1>7 DEF CountsBy, first
  <1>9. QED
    BY <1>8

\* The root fields are seven different ones.
LEMMA RootsDiffer ==
    /\ RootItems[1] = "chain_id" /\ RootItems[2] = "account_number"
    /\ RootItems[3] = "sequence" /\ RootItems[4] = "msgs" /\ RootItems[5] = "memo"
    /\ RootItems[6] = "fee" /\ RootItems[7] = "?"
    /\ \A q, r \in 1 .. 7 : RootItems[q] = RootItems[r] => q = r
  <1>1. /\ RootItems[1] = "chain_id" /\ RootItems[2] = "account_number"
        /\ RootItems[3] = "sequence" /\ RootItems[4] = "msgs" /\ RootItems[5] = "memo"
        /\ RootItems[6] = "fee" /\ RootItems[7] = "?"
    BY DEF RootItems
  <1>2. \A q \in 1 .. 7 : q = 1 \/ q = 2 \/ q = 3 \/ q = 4 \/ q = 5 \/ q = 6 \/ q = 7
    OBVIOUS
  <1>3. QED
    BY <1>1, <1>2

\* The first r root fields have been counted, with the numbers A.
Tally(doc, c, A, r) ==
    /\ IsCount(doc, c) /\ ~c.deep
    /\ \A q \in 1 .. r : c.subitems[RootItems[q]] = A[q]
    /\ \A q \in r + 1 .. 7 : c.subitems[RootItems[q]] = 0

\* The next root field has not been counted.
LEMMA TallyNot ==
    ASSUME NEW doc, NEW c, NEW A, NEW r \in 1 .. 7, NEW p \in Nat, p + 1 = r, Tally(doc, c, A, p)
    PROVE  NotYet(doc, RootItems[r], c) /\ RootItems[r] \in Range(RootItems)
  <1>1. r \in p + 1 .. 7
    OBVIOUS
  <1>2. QED
    BY <1>1, RootNames DEF Tally, NotYet

\* Counting it makes the tally one longer.
LEMMA TallyStep ==
    ASSUME NEW doc, NEW c, NEW A, NEW r \in 1 .. 7, NEW p \in Nat, p + 1 = r, Tally(doc, c, A, p),
           NEW next, NEW k \in Nat, RootCounts(doc, RootItems[r], c, next, k), A[r] = k
    PROVE  Tally(doc, next, A, r)
  <1> DEFINE root == RootItems[r]
  <1>1. /\ IsCount(doc, next) /\ ~next.deep
        /\ next.subitems[root] = c.subitems[root] + k
        /\ \A q \in Range(RootItems) \ {root} : next.subitems[q] = c.subitems[q]
    BY DEF RootCounts, MoreItems
  <1>2. /\ \A q \in 1 .. p : c.subitems[RootItems[q]] = A[q]
        /\ \A q \in p + 1 .. 7 : c.subitems[RootItems[q]] = 0
    BY DEF Tally
  <1>3. \A q \in 1 .. 7 : q # r => RootItems[q] \in Range(RootItems) \ {root}
    BY RootNames, RootsDiffer
  <1>4. next.subitems[root] = k
    <2>1. r \in p + 1 .. 7
      OBVIOUS
    <2>2. c.subitems[root] = 0
      BY <1>2, <2>1
    <2>3. 0 + k = k
      OBVIOUS
    <2>4. QED
      BY <1>1, <2>2, <2>3
  <1>5. /\ \A q \in 1 .. r : q = r \/ (q \in 1 .. p /\ q \in 1 .. 7 /\ q # r)
        /\ \A q \in r + 1 .. 7 : q \in p + 1 .. 7 /\ q \in 1 .. 7 /\ q # r
    BY ONLY r \in 1 .. 7, p \in Nat, p + 1 = r
  <1> HIDE DEF root
  <1>6. \A q \in 1 .. r : next.subitems[RootItems[q]] = A[q]
    BY <1>1, <1>2, <1>3, <1>4, <1>5 DEF root
  <1>7. \A q \in r + 1 .. 7 : next.subitems[RootItems[q]] = 0
    BY <1>1, <1>2, <1>3, <1>5
  <1>8. QED
    BY <1>1, <1>6, <1>7 DEF Tally

\* Nothing has been counted.
LEMMA TallyNone ==
    ASSUME NEW doc, NEW A, NEW c, c = [subitems |-> NoCounts, deep |-> FALSE, done |-> FALSE,
                                       types |-> NoGroup, froms |-> NoGroup]
    PROVE  Tally(doc, c, A, 0) /\ c.types = NoGroup /\ c.froms = NoGroup
  <1>1. IsGroup(NoGroup)
    <2>1. 0 \in 0 .. U8 - 1
      BY DEF U8
    <2>2. QED
      BY <2>1 DEF IsGroup, NoGroup
  <1>2. /\ NoCounts \in [Range(RootItems) -> 0 .. U8 - 1]
        /\ \A root \in Range(RootItems) : NoCounts[root] = 0
    BY DEF NoCounts, U8
  <1>3. IsCount(doc, c)
    BY <1>1, <1>2 DEF IsCount
  <1>4. c.subitems = NoCounts /\ ~c.deep /\ c.types = NoGroup /\ c.froms = NoGroup
    OBVIOUS
  <1>5. \A q \in 0 + 1 .. 7 : NoCounts[RootItems[q]] = 0
    BY <1>2, RootNames
  <1>6. \A q \in 1 .. 0 : c.subitems[RootItems[q]] = A[q]
    OBVIOUS
  <1>7. QED
    BY <1>3, <1>4, <1>5, <1>6 DEF Tally

\* How many items the root fields have.
MemoItems(t) == IF t.memo = "" THEN 0 ELSE 1
ItemNumbers(n, t) == << 1, 1, 1, n, MemoItems(t), 2, 0 >>

\* The numbers by their root fields.
LEMMA NumbersAre ==
    ASSUME NEW n, NEW t, NEW A, A = ItemNumbers(n, t)
    PROVE  /\ A[1] = 1 /\ A[2] = 1 /\ A[3] = 1 /\ A[4] = n /\ A[5] = MemoItems(t)
           /\ A[6] = 2 /\ A[7] = 0
  BY DEF ItemNumbers

\* A word is an item more.
LEMMA WordTally ==
    ASSUME NEW doc, NEW t, Reads(doc, t), NEW r \in 1 .. 7, NEW p \in Nat, p + 1 = r,
           NEW c, NEW A, Tally(doc, c, A, p), A[r] = 1, NEW w, WordLeaf(doc, RootItems[r], w),
           RootItems[r] \in {"chain_id", "account_number", "sequence"}
              \/ (RootItems[r] = "memo" /\ w # ""),
           NEW next, next = CountRoot(doc, RootItems[r], c)
    PROVE  Tally(doc, next, A, r) /\ SameGroups(c, next)
  <1> DEFINE root == RootItems[r]
  <1>1. NotYet(doc, root, c) /\ root \in Range(RootItems)
    BY TallyNot
  <1>2. /\ WordLeaf(doc, root, w) /\ next = CountRoot(doc, root, c)
        /\ root \in {"chain_id", "account_number", "sequence"} \/ (root = "memo" /\ w # "")
    OBVIOUS
  <1> HIDE DEF root
  <1>3. RootCounts(doc, root, c, next, 1) /\ SameGroups(c, next)
    BY <1>1, <1>2, WordIsCounted
  <1> DEFINE k == 1
  <1>4. RootCounts(doc, RootItems[r], c, next, k) /\ A[r] = k /\ k \in Nat
    BY <1>3 DEF root
  <1> HIDE DEF k
  <1>5. Tally(doc, next, A, r)
    BY <1>4, TallyStep
  <1>6. QED
    BY <1>3, <1>5

\* The counts behind each root field.
CountsOf(doc, c0, c1, c2, c3, c4, c5, c6, c7) ==
    /\ c0 = [subitems |-> NoCounts, deep |-> FALSE, done |-> FALSE,
             types |-> NoGroup, froms |-> NoGroup]
    /\ c1 = CountRoot(doc, RootItems[1], c0) /\ c2 = CountRoot(doc, RootItems[2], c1)
    /\ c3 = CountRoot(doc, RootItems[3], c2) /\ c4 = CountRoot(doc, RootItems[4], c3)
    /\ c5 = CountRoot(doc, RootItems[5], c4) /\ c6 = CountRoot(doc, RootItems[6], c5)
    /\ c7 = CountRoot(doc, RootItems[7], c6) /\ c7 = Counts(doc, FALSE)

\* The counting of the document leads through such counts.
LEMMA CountsInTurn ==
    ASSUME NEW doc
    PROVE  \E c0, c1, c2, c3, c4, c5, c6, c7 : CountsOf(doc, c0, c1, c2, c3, c4, c5, c6, c7)
  <1>1. PICK after : CountsBy(after, doc)
    BY CountsRun
  <1>2. /\ 1 - 1 = 0 /\ 2 - 1 = 1 /\ 3 - 1 = 2 /\ 4 - 1 = 3 /\ 5 - 1 = 4 /\ 6 - 1 = 5 /\ 7 - 1 = 6
        /\ 1 \in 1 .. 7 /\ 2 \in 1 .. 7 /\ 3 \in 1 .. 7 /\ 4 \in 1 .. 7 /\ 5 \in 1 .. 7
        /\ 6 \in 1 .. 7 /\ 7 \in 1 .. 7
    OBVIOUS
  <1>3. \A r \in 1 .. 7 : after[r] = CountRoot(doc, RootItems[r], after[r - 1])
    BY <1>1 DEF CountsBy
  <1>4. /\ after[1] = CountRoot(doc, RootItems[1], after[0])
        /\ after[2] = CountRoot(doc, RootItems[2], after[1])
        /\ after[3] = CountRoot(doc, RootItems[3], after[2])
        /\ after[4] = CountRoot(doc, RootItems[4], after[3])
        /\ after[5] = CountRoot(doc, RootItems[5], after[4])
        /\ after[6] = CountRoot(doc, RootItems[6], after[5])
        /\ after[7] = CountRoot(doc, RootItems[7], after[6])
    BY <1>2, <1>3
  <1>5. CountsOf(doc, after[0], after[1], after[2], after[3], after[4], after[5], after[6], after[7])
    BY <1>1, <1>4 DEF CountsBy, CountsOf
  <1>6. QED
    BY <1>5

\* Each index, and the one before it.
LEMMA InTurn ==
    /\ 1 \in 1 .. 7 /\ 2 \in 1 .. 7 /\ 3 \in 1 .. 7 /\ 4 \in 1 .. 7 /\ 5 \in 1 .. 7
    /\ 6 \in 1 .. 7 /\ 7 \in 1 .. 7
    /\ 0 \in Nat /\ 1 \in Nat /\ 2 \in Nat /\ 3 \in Nat /\ 4 \in Nat /\ 5 \in Nat /\ 6 \in Nat
    /\ 0 + 1 = 1 /\ 1 + 1 = 2 /\ 2 + 1 = 3 /\ 3 + 1 = 4 /\ 4 + 1 = 5 /\ 5 + 1 = 6 /\ 6 + 1 = 7
  OBVIOUS

\* The counts of an ordinary transaction: as many items as its root fields have,
\* and the groups over the leaves of its messages.
LEMMA CountsAre ==
    ASSUME NEW doc, NEW t, Reads(doc, t),
           NEW leaves, leaves = RootLeaves(doc, "msgs", FALSE),
           NEW n \in Nat, n = Len(leaves), n < U8,
           NEW counts, counts = Counts(doc, FALSE), NEW A, A = ItemNumbers(n, t)
    PROVE  /\ Tally(doc, counts, A, 7)
           /\ GroupsOfMsgs(doc, leaves, n, counts.types, counts.froms)
  <1>1. PICK c0, c1, c2, c3, c4, c5, c6, c7 : CountsOf(doc, c0, c1, c2, c3, c4, c5, c6, c7)
    BY CountsInTurn
  <1>2. /\ A[1] = 1 /\ A[2] = 1 /\ A[3] = 1 /\ A[4] = n /\ A[5] = MemoItems(t)
        /\ A[6] = 2 /\ A[7] = 0
    BY ONLY A = ItemNumbers(n, t), NumbersAre
  <1>3. /\ WordLeaf(doc, "chain_id", t.chain_id)
        /\ WordLeaf(doc, "account_number", t.account_number)
        /\ WordLeaf(doc, "sequence", t.sequence)
        /\ WordLeaf(doc, "memo", t.memo)
    BY WordsHaveLeaves DEF Reads
  <1>4. RootToken(doc, "?") = 0
    BY RootsAt DEF Reads, Encodes
  <1>5. /\ RootItems[1] = "chain_id" /\ RootItems[2] = "account_number"
        /\ RootItems[3] = "sequence" /\ RootItems[4] = "msgs" /\ RootItems[5] = "memo"
        /\ RootItems[6] = "fee" /\ RootItems[7] = "?"
    BY RootsDiffer
  <1>r. Reads(doc, t)
    OBVIOUS
  <1>c. /\ c1 = CountRoot(doc, RootItems[1], c0) /\ c2 = CountRoot(doc, RootItems[2], c1)
        /\ c3 = CountRoot(doc, RootItems[3], c2) /\ c4 = CountRoot(doc, RootItems[4], c3)
        /\ c5 = CountRoot(doc, RootItems[5], c4) /\ c6 = CountRoot(doc, RootItems[6], c5)
        /\ c7 = CountRoot(doc, RootItems[7], c6) /\ c7 = counts
    BY <1>1 DEF CountsOf
  <1>6. Tally(doc, c0, A, 0) /\ c0.types = NoGroup /\ c0.froms = NoGroup
    BY <1>1, TallyNone DEF CountsOf
  <1>7. Tally(doc, c1, A, 1) /\ SameGroups(c0, c1)
    <2>1. /\ WordLeaf(doc, RootItems[1], t.chain_id)
          /\ RootItems[1] \in {"chain_id", "account_number", "sequence"}
      BY <1>3, <1>5
    <2>2. QED
      BY ONLY <1>r, <1>c, <1>2, <1>6, <2>1, InTurn, WordTally
  <1>8. Tally(doc, c2, A, 2) /\ SameGroups(c1, c2)
    <2>1. /\ WordLeaf(doc, RootItems[2], t.account_number)
          /\ RootItems[2] \in {"chain_id", "account_number", "sequence"}
      BY <1>3, <1>5
    <2>2. QED
      BY ONLY <1>r, <1>c, <1>2, <1>7, <2>1, InTurn, WordTally
  <1>9. Tally(doc, c3, A, 3) /\ SameGroups(c2, c3)
    <2>1. /\ WordLeaf(doc, RootItems[3], t.sequence)
          /\ RootItems[3] \in {"chain_id", "account_number", "sequence"}
      BY <1>3, <1>5
    <2>2. QED
      BY ONLY <1>r, <1>c, <1>2, <1>8, <2>1, InTurn, WordTally
  <1>10. Tally(doc, c4, A, 4) /\ GroupsOfMsgs(doc, leaves, n, c4.types, c4.froms)
    <2>1. NotYet(doc, RootItems[4], c3)
      BY ONLY <1>9, InTurn, TallyNot
    <2>2. c3.types = NoGroup /\ c3.froms = NoGroup
      BY <1>6, <1>7, <1>8, <1>9 DEF SameGroups
    <2>3. NotYet(doc, "msgs", c3) /\ c4 = CountRoot(doc, "msgs", c3)
      BY <1>c, <1>5, <2>1
    <2>4. RootCounts(doc, "msgs", c3, c4, n) /\ GroupsOfMsgs(doc, leaves, n, c4.types, c4.froms)
      BY <2>2, <2>3, MsgsAreCounted
    <2>5. RootCounts(doc, RootItems[4], c3, c4, n) /\ n \in Nat
      BY <1>5, <2>4
    <2>6. Tally(doc, c4, A, 4)
      BY ONLY <1>2, <1>9, <2>5, InTurn, TallyStep
    <2>7. QED
      BY <2>4, <2>6
  <1>11. Tally(doc, c5, A, 5) /\ SameGroups(c4, c5)
    <2>1. CASE t.memo = ""
      <3>1. WordLeaf(doc, "memo", "") /\ MemoItems(t) = 0
        BY <1>3, <2>1 DEF MemoItems
      <3>2. IsCount(doc, c4) /\ ~c4.deep /\ c5 = CountRoot(doc, "memo", c4)
        BY <1>c, <1>5, <1>10 DEF Tally
      <3>3. RootCounts(doc, "memo", c4, c5, 0) /\ SameGroups(c4, c5)
        BY <3>1, <3>2, EmptyMemoCounts
      <3>4. RootCounts(doc, RootItems[5], c4, c5, 0) /\ A[5] = 0
        BY <1>2, <1>5, <3>1, <3>3
      <3>5. Tally(doc, c5, A, 5)
        BY ONLY <1>10, <3>4, InTurn, TallyStep
      <3>6. QED
        BY <3>3, <3>5
    <2>2. CASE t.memo # ""
      <3>1. /\ WordLeaf(doc, RootItems[5], t.memo) /\ RootItems[5] = "memo" /\ t.memo # ""
            /\ A[5] = 1
        BY <1>2, <1>3, <1>5, <2>2 DEF MemoItems
      <3>2. QED
        BY ONLY <1>r, <1>c, <1>10, <3>1, InTurn, WordTally
    <2>3. QED
      BY <2>1, <2>2
  <1>12. Tally(doc, c6, A, 6) /\ SameGroups(c5, c6)
    <2>1. NotYet(doc, RootItems[6], c5)
      BY ONLY <1>11, InTurn, TallyNot
    <2>2. NotYet(doc, "fee", c5) /\ c6 = CountRoot(doc, "fee", c5)
      BY <1>c, <1>5, <2>1
    <2>3. RootCounts(doc, "fee", c5, c6, 2) /\ SameGroups(c5, c6)
      BY <2>2, FeeIsCounted
    <2>4. RootCounts(doc, RootItems[6], c5, c6, 2)
      BY <1>5, <2>3
    <2>5. Tally(doc, c6, A, 6)
      BY ONLY <1>2, <1>11, <2>4, InTurn, TallyStep
    <2>6. QED
      BY <2>3, <2>5
  <1>13. Tally(doc, c7, A, 7) /\ SameGroups(c6, c7)
    <2>1. c7 = c6
      BY <1>c, <1>4, <1>5 DEF CountRoot
    <2>2. NotYet(doc, RootItems[7], c6)
      BY ONLY <1>12, InTurn, TallyNot
    <2>3. /\ IsCount(doc, c6) /\ ~c6.deep /\ c6.subitems[RootItems[7]] = 0
          /\ \A q \in 1 .. 6 : c6.subitems[RootItems[q]] = A[q]
      BY <1>12, <2>2 DEF Tally, NotYet
    <2>4. /\ \A q \in 1 .. 7 : q \in 1 .. 6 \/ q = 7
          /\ \A q \in 7 + 1 .. 7 : FALSE
      OBVIOUS
    <2>5. \A q \in 1 .. 7 : c6.subitems[RootItems[q]] = A[q]
      BY <1>2, <2>3, <2>4
    <2>6. QED
      BY <2>1, <2>3, <2>4, <2>5 DEF Tally, SameGroups
  <1>14. QED
    <2>1. c7.types = c4.types /\ c7.froms = c4.froms /\ c7 = counts
      BY <1>c, <1>11, <1>12, <1>13 DEF SameGroups
    <2>2. QED
      BY <1>10, <1>13, <2>1

-----------------------------------------------------------------------------
(* The cache, the items it shows, and the screens they are.                *)

\* The chain id of an ordinary transaction is read as it was sent.
LEMMA ChainIdIs ==
    ASSUME NEW doc, NEW t, Encodes(doc, t)
    PROVE  ChainId(doc) = Word(t.chain_id)
  <1> DEFINE k == RootToken(doc, "chain_id")
             leaves == RootLeaves(doc, "chain_id", FALSE)
             key == << "chain_id" >>
  <1>1. WordLeaf(doc, "chain_id", t.chain_id)
    BY WordsHaveLeaves
  <1>2. ValueAt(doc, k, Str(t.chain_id)) /\ leaves = << [token |-> k, key |-> key] >>
    BY <1>1 DEF WordLeaf
  <1>3. Tokenized(doc)
    BY DEF Encodes
  <1>4. Text(doc.tokens, k) = Word(t.chain_id)
    BY <1>2, <1>3, WordAt
  <1>5. ChainId(doc) = FirstText(doc, leaves)
    BY DEF ChainId
  <1> HIDE DEF leaves, k, key
  <1>6. Len(leaves) = 1 /\ leaves[1].token = k
    BY ONLY <1>2, OnlyLeaf
  <1>7. leaves # << >>
    BY <1>6
  <1>8. QED
    BY <1>4, <1>5, <1>6, <1>7 DEF FirstText

\* The cache of an ordinary transaction: the numbers of its items, and the
\* messages' leaves that are kept.
CacheIs(doc, t, leaves, A, c) ==
    /\ \A q \in 1 .. 7 : c.subitems[RootItems[q]] = A[q]
    /\ IsGroup(c.types) /\ IsGroup(c.froms)
    /\ MsgsKept(doc, t, leaves, c)

\* The cache of a review has these numbers, and keeps the screens of the messages.
LEMMA OwnCacheIs ==
    ASSUME NEW doc, NEW t, Reads(doc, t),
           NEW leaves, leaves = RootLeaves(doc, "msgs", FALSE),
           NEW n \in Nat, n = Len(leaves), n < U8,
           NEW A, A = ItemNumbers(n, t), NEW c, c = OwnCache(doc, expert)
    PROVE  CacheIs(doc, t, leaves, A, c)
  <1> DEFINE counts == Counts(doc, FALSE)
             is == ChainId(doc) = Word(COIN_DEFAULT_CHAINID)
             b == ~expert /\ is
  <1>1. /\ Tally(doc, counts, A, 7)
        /\ GroupsOfMsgs(doc, leaves, n, counts.types, counts.froms)
    BY CountsAre
  <1>2. IsCount(doc, counts) /\ \A q \in 1 .. 7 : counts.subitems[RootItems[q]] = A[q]
    BY <1>1 DEF Tally
  <1>3. is <=> t.chain_id = COIN_DEFAULT_CHAINID
    <2>1. ChainId(doc) = Word(t.chain_id)
      BY ChainIdIs DEF Reads
    <2>2. QED
      BY <2>1, WordsDiffer
  <1>4. IsGroup(counts.types) /\ IsGroup(counts.froms)
    BY <1>2, CountParts
  <1> DEFINE froms == [counts.froms EXCEPT !.on = @ /\ ~expert /\ is]
  <1>5. c = [valid |-> TRUE, subitems |-> counts.subitems, types |-> counts.types, froms |-> froms]
    BY DEF OwnCache, Indexed
  <1> HIDE DEF counts
  <1>6. froms = OnIf(counts.froms, b)
    <2> DEFINE x == counts.froms.on /\ ~expert /\ is
               y == counts.froms.on /\ b
    <2>1. x = y
      BY DEF b
    <2>2. froms = [counts.froms EXCEPT !.on = x] /\ OnIf(counts.froms, b) = [counts.froms EXCEPT !.on = y]
      BY DEF OnIf
    <2> HIDE DEF x, y, b, froms
    <2>3. QED
      BY <2>1, <2>2
  <1> HIDE DEF froms
  <1>7. c.subitems = counts.subitems /\ c.types = counts.types /\ c.froms = froms
    BY <1>5
  <1>8. b \in BOOLEAN /\ (b <=> ~expert /\ t.chain_id = COIN_DEFAULT_CHAINID)
    BY <1>3
  <1>9. IsGroup(froms)
    <2>1. IsCache(doc, Indexed(doc, counts, expert))
      BY <1>2, IndexedType
    <2>2. c = Indexed(doc, counts, expert)
      BY DEF OwnCache, counts
    <2>3. IsGroup(c.froms)
      BY <2>1, <2>2 DEF IsCache
    <2>4. QED
      BY <1>7, <2>3
  <1> HIDE DEF b, is
  <1>10. MsgsKept(doc, t, leaves, c)
    <2>1. Encodes(doc, t)
      BY DEF Reads
    <2> DEFINE types == counts.types
               group == counts.froms
    <2>2. GroupsOfMsgs(doc, leaves, n, types, group) /\ c.types = types /\ c.froms = OnIf(group, b)
      BY <1>1, <1>6, <1>7
    <2> HIDE DEF types, group
    <2>3. QED
      BY <1>8, <2>1, <2>2, MsgsAreKept
  <1>11. QED
    BY <1>2, <1>4, <1>7, <1>9, <1>10 DEF CacheIs

\* A group repeats a number of fields.
LEMMA RepeatsType ==
    ASSUME NEW group, IsGroup(group)
    PROVE  Repeats(group) \in Nat
  <1>1. PICK text : \E on \in BOOLEAN, count \in 0 .. U8 - 1, idx \in Nat :
           group = [on |-> on, count |-> count, idx |-> idx, text |-> text]
    BY DEF IsGroup
  <1>2. PICK on \in BOOLEAN, count \in 0 .. U8 - 1, idx \in Nat :
           group = [on |-> on, count |-> count, idx |-> idx, text |-> text]
    BY <1>1
  <1>3. group.on = on /\ group.count = count
    BY <1>2
  <1>4. Repeats(group) = IF on /\ count > 0 THEN count - 1 ELSE 0
    BY <1>3 DEF Repeats
  <1>5. count \in Nat
    BY DEF U8
  <1>6. QED
    BY ONLY <1>4, <1>5

\* A transaction with a chain id has items.
LEMMA SomeItems ==
    ASSUME NEW c, NEW A, \A q \in 1 .. 7 : A[q] \in Nat, A[1] = 1,
           \A q \in 1 .. 7 : c.subitems[RootItems[q]] = A[q]
    PROVE  SumOfSubitems(c) # 0
  <1> DEFINE zero == 0
             upTo[r \in 0 .. Len(RootItems)] ==
                 IF r = 0 THEN 0 ELSE upTo[r - 1] + c.subitems[RootItems[r]]
  <1>1. SumOfSubitems(c) = upTo[Len(RootItems)]
    BY DEF SumOfSubitems
  <1>2. FiniteNatInductiveDefHypothesis(upTo, zero,
            LAMBDA v, r : v + c.subitems[RootItems[r]], 0, Len(RootItems))
    BY DEF FiniteNatInductiveDefHypothesis
  <1> HIDE DEF upTo
  <1>3. FiniteNatInductiveDefConclusion(upTo, zero,
            LAMBDA v, r : v + c.subitems[RootItems[r]], 0, Len(RootItems))
    <2>1. Len(RootItems) \in Nat /\ 0 \in Nat
      BY RootNames
    <2>2. QED
      BY <1>2, <2>1, FiniteNatInductiveDef
  <1>4. upTo = [r \in 0 .. 7 |-> IF r = 0 THEN zero ELSE upTo[r - 1] + c.subitems[RootItems[r]]]
    BY <1>3, RootNames DEF FiniteNatInductiveDefConclusion
  <1> DEFINE S == {r \in 0 .. 7 : upTo[r] \in Nat /\ (r > 0 => upTo[r] > 0)}
  <1>5. 0 \in S
    BY <1>4
  <1>6. ASSUME NEW r \in 0 .. 7 - 1, r \in S PROVE r + 1 \in S
    <2> DEFINE k == r + 1
               u == upTo[r]
               a == A[k]
    <2>1. k \in 0 .. 7 /\ k \in 1 .. 7 /\ k # 0 /\ k - 1 = r /\ (r = 0 => k = 1)
      BY ONLY r \in 0 .. 7 - 1
    <2>2. upTo[k] = upTo[k - 1] + c.subitems[RootItems[k]]
      BY <1>4, <2>1
    <2>3. upTo[k] = u + a /\ a \in Nat /\ (r = 0 => a = 1)
      BY <2>1, <2>2
    <2>4. u \in Nat /\ (r > 0 => u > 0)
      BY <1>6
    <2> HIDE DEF u, a
    <2>5. u + a \in Nat /\ u + a > 0
      BY ONLY <2>3, <2>4, r \in 0 .. 7 - 1
    <2> HIDE DEF k
    <2>6. k \in S
      BY <2>1, <2>3, <2>5
    <2>7. QED
      BY <2>6 DEF k
  <1> HIDE DEF S
  <1>7. \A r \in 0 .. 7 : r \in S
    BY <1>5, <1>6, Induction
  <1>8. 7 \in S
    BY <1>7
  <1>9. upTo[7] > 0 /\ upTo[7] \in Nat
    BY <1>8 DEF S
  <1>10. QED
    BY <1>1, <1>9, RootNames

\* How many items of each root field are shown, m of the messages.
ItemsShown(t, c, m) ==
    /\ get_subitem_count(c, expert, "chain_id") = 1
    /\ get_subitem_count(c, expert, "account_number") = (IF expert THEN 1 ELSE 0)
    /\ get_subitem_count(c, expert, "sequence") = (IF expert THEN 1 ELSE 0)
    /\ get_subitem_count(c, expert, "msgs") = m
    /\ get_subitem_count(c, expert, "memo") = MemoItems(t)
    /\ get_subitem_count(c, expert, "fee") = (IF expert THEN 2 ELSE 1)
    /\ get_subitem_count(c, expert, "?") = 0

\* What is taken off the number of the messages' items leaves a byte.
LEMMA FewerFit ==
    ASSUME NEW n \in Nat, n < U8, NEW p \in Nat, NEW q \in Nat, NEW m \in Nat, m = n - p - q
    PROVE  (n - p - q) % U8 = m /\ m <= n
  <1> DEFINE u == U8
  <1>1. m < u /\ m <= n
    <2>1. n < u
      OBVIOUS
    <2>2. u \in Nat
      BY DEF U8
    <2> HIDE DEF u
    <2>3. QED
      BY <2>1, <2>2
  <1>2. m % U8 = m
    BY <1>1 DEF U8
  <1>3. QED
    BY <1>1, <1>2

\* The cache of a review shows that many: of the messages as many as are kept.
LEMMA ItemsAreShown ==
    ASSUME NEW doc, NEW t, NEW leaves, NEW n \in Nat, n = Len(leaves), n < U8,
           NEW A, A = ItemNumbers(n, t), NEW c, CacheIs(doc, t, leaves, A, c),
           NEW m \in Nat, m = Len(Kept(leaves, c))
    PROVE  ItemsShown(t, c, m) /\ m <= n
  <1>1. /\ A[1] = 1 /\ A[2] = 1 /\ A[3] = 1 /\ A[4] = n /\ A[5] = MemoItems(t)
        /\ A[6] = 2 /\ A[7] = 0
    BY ONLY A = ItemNumbers(n, t), NumbersAre
  <1>2. \A q \in 1 .. 7 : A[q] \in Nat
    <2>1. MemoItems(t) \in Nat
      BY DEF MemoItems
    <2>2. \A q \in 1 .. 7 : q = 1 \/ q = 2 \/ q = 3 \/ q = 4 \/ q = 5 \/ q = 6 \/ q = 7
      BY ONLY TRUE
    <2>3. 1 \in Nat /\ 2 \in Nat /\ 0 \in Nat /\ n \in Nat
      BY ONLY n \in Nat
    <2>4. QED
      BY ONLY <1>1, <2>1, <2>2, <2>3
  <1>3. \A q \in 1 .. 7 : c.subitems[RootItems[q]] = A[q]
    BY DEF CacheIs
  <1> DEFINE z == SumOfSubitems(c) = 0
  <1>4. ~z
    BY <1>1, <1>2, <1>3, SomeItems
  <1>5. /\ c.subitems["chain_id"] = 1 /\ c.subitems["account_number"] = 1
        /\ c.subitems["sequence"] = 1 /\ c.subitems["msgs"] = n
        /\ c.subitems["memo"] = MemoItems(t) /\ c.subitems["fee"] = 2 /\ c.subitems["?"] = 0
    BY <1>1, <1>3, InTurn, RootsDiffer
  <1>6. ASSUME NEW root
        PROVE  get_subitem_count(c, expert, root) =
                  IF ~expert /\ root \in {"sequence", "account_number"} THEN 0
                  ELSE IF ~expert /\ root = "fee" THEN 1
                  ELSE IF root = "msgs"
                  THEN (c.subitems[root] - Repeats(c.types) - Repeats(c.froms)) % U8
                  ELSE c.subitems[root]
    BY <1>4 DEF get_subitem_count
  <1> DEFINE p == Repeats(c.types)
             q == Repeats(c.froms)
  <1>7. p \in Nat /\ q \in Nat
    BY RepeatsType DEF CacheIs
  <1>8. m = n - p - q
    BY DEF CacheIs, MsgsKept
  <1> HIDE DEF p, q
  <1>9. (n - p - q) % U8 = m /\ m <= n
    BY ONLY <1>7, <1>8, FewerFit, n \in Nat, m \in Nat, n < U8
  <1>10. get_subitem_count(c, expert, "msgs") = m
    <2> DEFINE s == c.subitems["msgs"]
    <2>1. get_subitem_count(c, expert, "msgs") = (s - p - q) % U8
      BY <1>4 DEF get_subitem_count, p, q
    <2>2. s = n
      BY <1>5
    <2> HIDE DEF s
    <2>3. QED
      BY <1>9, <2>1, <2>2
  <1>11. /\ get_subitem_count(c, expert, "chain_id") = 1
         /\ get_subitem_count(c, expert, "memo") = MemoItems(t)
         /\ get_subitem_count(c, expert, "?") = 0
    BY <1>5, <1>6
  <1>12. /\ get_subitem_count(c, expert, "account_number") = IF expert THEN 1 ELSE 0
         /\ get_subitem_count(c, expert, "sequence") = IF expert THEN 1 ELSE 0
    BY <1>5, <1>6
  <1>13. get_subitem_count(c, expert, "fee") = IF expert THEN 2 ELSE 1
    BY <1>5, <1>6
  <1>14. QED
    BY <1>9, <1>10, <1>11, <1>12, <1>13 DEF ItemsShown

-----------------------------------------------------------------------------
\* A field other than the messages keeps all its leaves.
LEMMA OthersKept ==
    ASSUME NEW leaves, IsSeq(leaves), NEW c,
           \A i \in 1 .. Len(leaves) : leaves[i].key # TypeKey /\ leaves[i].key # FromKey
    PROVE  Kept(leaves, c) = leaves
  <1>1. DOMAIN leaves = 1 .. Len(leaves)
    BY DEF IsSeq
  <1>2. \A i \in DOMAIN leaves : ~Skipped(c, i, leaves[i])
    BY <1>1 DEF Skipped
  <1>3. [i \in DOMAIN leaves |-> IF Skipped(c, i, leaves[i]) THEN << >> ELSE << leaves[i] >>]
           = [i \in DOMAIN leaves |-> << leaves[i] >>]
    BY <1>2
  <1>4. FlattenSeq([i \in DOMAIN leaves |-> << leaves[i] >>]) = leaves
    BY FlattenSingles
  <1>5. QED
    BY <1>3, <1>4 DEF Kept

\* An item of the display, and what it shows when it does.
IndexShows(doc, c, idx, item) ==
    ItemAt(doc, c, idx, FALSE).ok => ItemAt(doc, c, idx, FALSE).item = item

ShowsItems(doc, c, indexes, items) ==
    Alike(indexes, items, LAMBDA x, s : IndexShows(doc, c, x, s))

\* The indexes of one root field.
Segment(c, root) ==
    [i \in 1 .. get_subitem_count(c, expert, root) |-> << root, i >>]

\* Its items are what its kept leaves show.
LEMMA SegmentShows ==
    ASSUME NEW doc, NEW c, NEW root, NEW n \in Nat, get_subitem_count(c, expert, root) = n,
           NEW kept, kept = Kept(RootLeaves(doc, root, FALSE), c), IsSeq(kept), n <= Len(kept),
           NEW items, IsSeq(items), Len(items) = n,
           \A i \in 1 .. n : LeafShows(doc, kept[i], items[i])
    PROVE  ShowsItems(doc, c, Segment(c, root), items)
  <1> DEFINE s == Segment(c, root)
  <1>1. s = [i \in 1 .. n |-> << root, i >>]
    BY DEF Segment
  <1>2. IsSeq(s) /\ Len(s) = n
    <2> HIDE DEF s
    <2> DEFINE V(i) == << root, i >>
    <2>1. s = [i \in 1 .. n |-> V(i)]
      BY <1>1
    <2> HIDE DEF V
    <2>2. QED
      BY <2>1, FunctionIsSeq
  <1>3. ASSUME NEW i \in 1 .. n PROVE IndexShows(doc, c, s[i], items[i])
    <2>1. s[i][1] = root /\ s[i][2] = i
      BY <1>1
    <2>2. i \in DOMAIN kept
      <3> DEFINE l == Len(kept)
      <3>1. DOMAIN kept = 1 .. l /\ l \in Nat /\ n <= l
        BY DEF IsSeq
      <3> HIDE DEF l
      <3>2. i \in 1 .. l
        BY ONLY <3>1, n \in Nat, i \in 1 .. n
      <3>3. QED
        BY <3>1, <3>2
    <2> HIDE DEF s
    <2>3. ItemAt(doc, c, s[i], FALSE) = ItemOf(doc.tokens, kept[i], FALSE)
      BY <2>1, <2>2 DEF ItemAt, NthItem
    <2>4. ItemOf(doc.tokens, kept[i], FALSE).ok => ItemOf(doc.tokens, kept[i], FALSE).item = items[i]
      BY DEF LeafShows
    <2>5. QED
      BY <2>3, <2>4 DEF IndexShows
  <1> HIDE DEF s
  <1>4. \A i \in 1 .. Len(s) : IndexShows(doc, c, s[i], items[i])
    BY <1>2, <1>3
  <1>5. ShowsItems(doc, c, s, items)
    BY <1>2, <1>4 DEF ShowsItems, Alike
  <1>6. QED
    BY <1>5 DEF s

\* A root field that shows nothing.
LEMMA NothingShown ==
    ASSUME NEW doc, NEW c, NEW root, get_subitem_count(c, expert, root) = 0
    PROVE  ShowsItems(doc, c, Segment(c, root), << >>)
  <1> DEFINE s == Segment(c, root)
  <1>1. s = [i \in 1 .. 0 |-> << root, i >>]
    BY DEF Segment
  <1>2. s = << >>
    BY <1>1
  <1>3. IsSeq(<< >>) /\ Len(<< >>) = 0
    BY ShortSeqs
  <1> HIDE DEF s
  <1> DEFINE e == << >>
  <1>4. IsSeq(s) /\ IsSeq(e) /\ Len(s) = Len(e) /\ Len(s) = 0
    BY <1>2, <1>3
  <1> HIDE DEF e
  <1>5. \A i \in 1 .. Len(s) : IndexShows(doc, c, s[i], e[i])
    BY <1>4
  <1>6. ShowsItems(doc, c, s, e)
    BY <1>4, <1>5 DEF ShowsItems, Alike
  <1>7. QED
    BY <1>6 DEF s, e

\* A root field that is a word, when it is shown.
LEMMA WordSegment ==
    ASSUME NEW doc, Tokenized(doc), NEW c, NEW root, NEW w, WordLeaf(doc, root, w), IsKept(w),
           get_subitem_count(c, expert, root) = 1
    PROVE  ShowsItems(doc, c, Segment(c, root), << << << root >>, Word(w) >> >>)
  <1> DEFINE k == RootToken(doc, root)
             key == << root >>
             leaf == [token |-> k, key |-> key]
             flat == RootLeaves(doc, root, FALSE)
             kept == Kept(flat, c)
             item == << key, Word(w) >>
             one == 1
  <1>1. flat = << leaf >> /\ ValueAt(doc, k, Str(w))
    BY DEF WordLeaf
  <1>2. leaf.key = key /\ leaf.token = k
    OBVIOUS
  <1>3. key \notin AmountKeys /\ key # TypeKey /\ key # FromKey
    BY AmountPaths, OffKeys
  <1> HIDE DEF k, key, leaf, flat
  <1>4. IsSeq(flat) /\ Len(flat) = 1 /\ flat[1] = leaf
    BY <1>1, ShortSeqs
  <1>5. \A i \in 1 .. 1 : i = 1
    BY OneFits
  <1>6. kept = flat
    BY <1>2, <1>3, <1>4, <1>5, OthersKept
  <1>7. LeafShows(doc, leaf, item)
    BY <1>1, <1>2, <1>3, WordShown
  <1> DEFINE items == << item >>
  <1> HIDE DEF item
  <1>8. IsSeq(items) /\ Len(items) = 1 /\ items[1] = item
    BY ShortSeqs
  <1>9. kept = Kept(RootLeaves(doc, root, FALSE), c)
    BY DEF flat
  <1> HIDE DEF kept, items
  <1>10. /\ one \in Nat /\ get_subitem_count(c, expert, root) = one
         /\ IsSeq(kept) /\ one <= Len(kept) /\ Len(items) = one
         /\ \A i \in 1 .. one : LeafShows(doc, kept[i], items[i])
    BY <1>4, <1>5, <1>6, <1>7, <1>8
  <1> HIDE DEF one
  <1>11. ShowsItems(doc, c, Segment(c, root), items)
    BY <1>8, <1>9, <1>10, SegmentShows
  <1>12. QED
    BY <1>11 DEF items, item, key

\* The screens of all messages.
MsgsItems(t) == FlattenSeq([i \in DOMAIN t.msgs |-> ExpectedMsg(t, i)])

\* As many of the messages' leaves are shown as are kept.
MsgsShown(doc, t, leaves, c, m) ==
    /\ Encodes(doc, t) /\ leaves = RootLeaves(doc, "msgs", FALSE)
    /\ MsgsKept(doc, t, leaves, c)
    /\ m \in Nat /\ m = Len(Kept(leaves, c)) /\ get_subitem_count(c, expert, "msgs") = m

\* The messages show the screens expected of them.
LEMMA MsgsSegment ==
    ASSUME NEW doc, NEW t, NEW leaves, NEW c, NEW m, MsgsShown(doc, t, leaves, c, m),
           NEW items, items = MsgsItems(t)
    PROVE  ShowsItems(doc, c, Segment(c, "msgs"), items) /\ Len(items) = m /\ IsSeq(items)
  <1> DEFINE kept == Kept(leaves, c)
             root == "msgs"
  <1>1. Ordinary(t) /\ Tokenized(doc) /\ leaves = RootLeaves(doc, "msgs", FALSE)
        /\ MsgsKept(doc, t, leaves, c) /\ m \in Nat /\ m = Len(Kept(leaves, c))
        /\ get_subitem_count(c, expert, "msgs") = m
    BY DEF Encodes, MsgsShown
  <1>2. items = FlattenSeq(Screens(t, Entries(t)))
    BY <1>1, ExpectedMsgsAre DEF MsgsItems
  <1>3. KeepsItems(doc, kept, items)
    BY <1>1, <1>2 DEF MsgsKept
  <1> HIDE DEF kept
  <1>4. /\ IsSeq(kept) /\ IsSeq(items) /\ Len(kept) = Len(items)
        /\ \A i \in 1 .. Len(kept) : KeptAs(doc, kept[i], items[i])
    BY <1>3 DEF KeepsItems, Alike
  <1>5. Len(kept) = m
    BY <1>1 DEF kept
  <1>6. \A i \in 1 .. m : LeafShows(doc, kept[i], items[i])
    BY <1>1, <1>4, <1>5, KeptShown
  <1>7. kept = Kept(RootLeaves(doc, root, FALSE), c) /\ get_subitem_count(c, expert, root) = m
    BY <1>1 DEF kept
  <1> HIDE DEF root
  <1>8. m <= Len(kept) /\ Len(items) = m
    <2>1. m <= m
      BY ONLY <1>1
    <2>2. QED
      BY <1>4, <1>5, <2>1
  <1>9. ShowsItems(doc, c, Segment(c, root), items)
    BY <1>1, <1>4, <1>6, <1>7, <1>8, SegmentShows
  <1>10. QED
    BY <1>4, <1>8, <1>9 DEF root

\* The screens of the fee.
FeeItems(t) ==
    << << << "fee", "amount" >>, ShownCoins(t.fee) >> >>
    \o ExpertOnly(<< << << "fee", "gas" >>, Word(t.gas) >> >>)

\* The fee shows its coins, and its gas to an expert.
LEMMA FeeSegment ==
    ASSUME NEW doc, NEW t, Encodes(doc, t), NEW c,
           get_subitem_count(c, expert, "fee") = (IF expert THEN 2 ELSE 1)
    PROVE  ShowsItems(doc, c, Segment(c, "fee"), FeeItems(t))
  <1> DEFINE root == "fee"
             flat == RootLeaves(doc, root, FALSE)
             kept == Kept(flat, c)
             n == IF expert THEN 2 ELSE 1
             key1 == << "fee", "amount" >>
             key2 == << "fee", "gas" >>
             item1 == << key1, ShownCoins(t.fee) >>
             item2 == << key2, Word(t.gas) >>
             items == FeeItems(t)
  <1>1. /\ Tokenized(doc) /\ Ordinary(t)
        /\ IsSeq(flat) /\ Len(flat) = 2
        /\ flat[1].key = key1 /\ ValueAt(doc, flat[1].token, EncodeCoins(t.fee))
        /\ flat[2].key = key2 /\ ValueAt(doc, flat[2].token, Str(t.gas))
    BY FeeLeaves DEF Encodes
  <1>2. IsSeq(t.fee) /\ IsKept(t.gas)
    BY <1>1 DEF Ordinary
  <1>3. /\ key1 \in AmountKeys /\ key2 \notin AmountKeys
        /\ key1 # TypeKey /\ key1 # FromKey /\ key2 # TypeKey /\ key2 # FromKey
    BY AmountPaths, OffKeys
  <1>4. (expert => items = << item1, item2 >>) /\ (~expert => items = << item1 >>)
    <2>1. items = << item1 >> \o (IF expert THEN << item2 >> ELSE << >>)
      BY DEF FeeItems, ExpertOnly
    <2> HIDE DEF item1, item2, items
    <2>2. << item1 >> \o << item2 >> = << item1, item2 >> /\ << item1 >> \o << >> = << item1 >>
      BY ShortSeqs
    <2>3. QED
      BY <2>1, <2>2
  <1>5. LeafShows(doc, flat[1], item1)
    <2> DEFINE leaf == flat[1]
               coins == t.fee
    <2>1. leaf.key \in AmountKeys /\ IsSeq(coins) /\ ValueAt(doc, leaf.token, EncodeCoins(coins))
          /\ item1 = << leaf.key, ShownCoins(coins) >>
      BY <1>1, <1>2, <1>3
    <2> HIDE DEF leaf, coins, item1
    <2>2. LeafShows(doc, leaf, item1)
      BY <1>1, <2>1, AmountShown
    <2>3. QED
      BY <2>2 DEF leaf
  <1>6. LeafShows(doc, flat[2], item2)
    <2> DEFINE leaf == flat[2]
               w == t.gas
    <2>1. leaf.key \notin AmountKeys /\ IsKept(w) /\ ValueAt(doc, leaf.token, Str(w))
          /\ item2 = << leaf.key, Word(w) >>
      BY <1>1, <1>2, <1>3
    <2> HIDE DEF leaf, w, item2
    <2>2. LeafShows(doc, leaf, << leaf.key, Word(w) >>)
      BY <1>1, <2>1, WordShown
    <2>3. QED
      BY <2>1, <2>2 DEF leaf
  <1> HIDE DEF flat, key1, key2, item1, item2, items
  <1>7. \A i \in 1 .. 2 : i = 1 \/ i = 2
    OBVIOUS
  <1>8. \A i \in 1 .. Len(flat) : flat[i].key # TypeKey /\ flat[i].key # FromKey
    BY <1>1, <1>3, <1>7
  <1>9. kept = flat
    BY <1>1, <1>8, OthersKept
  <1> HIDE DEF kept
  <1>10. IsSeq(items) /\ Len(items) = n /\ items[1] = item1 /\ (expert => items[2] = item2)
    BY <1>4, ShortSeqs
  <1>11. n \in Nat /\ n <= Len(kept) /\ IsSeq(kept)
    <2>1. n = 1 \/ n = 2
      OBVIOUS
    <2> HIDE DEF n
    <2>2. n \in Nat /\ n <= 2
      BY ONLY <2>1
    <2>3. QED
      BY <1>1, <1>9, <2>2
  <1>12. \A i \in 1 .. n : i = 1 \/ (expert /\ i = 2)
    BY <1>7
  <1>13. \A i \in 1 .. n : LeafShows(doc, kept[i], items[i])
    BY <1>5, <1>6, <1>9, <1>10, <1>12
  <1>14. kept = Kept(RootLeaves(doc, root, FALSE), c) /\ get_subitem_count(c, expert, root) = n
    BY DEF kept, flat
  <1> HIDE DEF root, n
  <1>15. ShowsItems(doc, c, Segment(c, root), items)
    BY <1>10, <1>11, <1>13, <1>14, SegmentShows
  <1>16. QED
    BY <1>15 DEF root, items

-----------------------------------------------------------------------------
\* The screens of a transaction, by its root fields.
MemoItem(t) == IF t.memo = "" THEN << >> ELSE << << << "memo" >>, Word(t.memo) >> >>
ChainItem(t) == << << << "chain_id" >>, Word(t.chain_id) >> >>
AccountItem(t) == ExpertOnly(<< << << "account_number" >>, Word(t.account_number) >> >>)
SequenceItem(t) == ExpertOnly(<< << << "sequence" >>, Word(t.sequence) >> >>)

\* Seven sequences, joined.
LEMMA SevenSeq ==
    ASSUME NEW a, NEW b, NEW c, NEW d, NEW e, NEW f, NEW g
    PROVE  LET s == << a, b, c, d, e, f, g >>
           IN  /\ IsSeq(s) /\ Len(s) = 7 /\ s[1] = a /\ s[2] = b /\ s[3] = c
               /\ s[4] = d /\ s[5] = e /\ s[6] = f /\ s[7] = g
  <1> DEFINE s == << a, b, c, d, e, f, g >>
  <1>1. s \in Seq({a, b, c, d, e, f, g}) /\ Len(s) = 7 /\ s[1] = a /\ s[2] = b /\ s[3] = c
        /\ s[4] = d /\ s[5] = e /\ s[6] = f /\ s[7] = g
    OBVIOUS
  <1> HIDE DEF s
  <1>2. IsSeq(s)
    BY <1>1, TypedIsSeq
  <1>3. QED
    BY <1>1, <1>2 DEF s

AreSeven(s, a, b, c, d, e, f, g) ==
    /\ IsSeq(s) /\ Len(s) = 7 /\ s[1] = a /\ s[2] = b /\ s[3] = c
    /\ s[4] = d /\ s[5] = e /\ s[6] = f /\ s[7] = g
    /\ IsSeq(a) /\ IsSeq(b) /\ IsSeq(c) /\ IsSeq(d) /\ IsSeq(e) /\ IsSeq(f) /\ IsSeq(g)

\* Joining seven sequences joins them one by one.
LEMMA FlattenSeven ==
    ASSUME NEW a, NEW b, NEW c, NEW d, NEW e, NEW f, NEW g,
           NEW s, AreSeven(s, a, b, c, d, e, f, g)
    PROVE  /\ AreSeqs(s, 7)
           /\ FlattenSeq(s) = (((((a \o b) \o c) \o d) \o e) \o f) \o g
  <1>1. AreSeqs(s, 7)
    <2>1. \A i \in 1 .. 7 : i = 1 \/ i = 2 \/ i = 3 \/ i = 4 \/ i = 5 \/ i = 6 \/ i = 7
      OBVIOUS
    <2>2. \A i \in 1 .. 7 : IsSeq(s[i])
      BY <2>1 DEF AreSeven
    <2>3. QED
      BY <2>2 DEF AreSeqs, AreSeven
  <1>2. PICK h : FlattensBy(h, s, 7)
    BY <1>1, FlattenRun
  <1>3. /\ 1 - 1 = 0 /\ 2 - 1 = 1 /\ 3 - 1 = 2 /\ 4 - 1 = 3 /\ 5 - 1 = 4 /\ 6 - 1 = 5 /\ 7 - 1 = 6
        /\ 1 \in 1 .. 7 /\ 2 \in 1 .. 7 /\ 3 \in 1 .. 7 /\ 4 \in 1 .. 7 /\ 5 \in 1 .. 7
        /\ 6 \in 1 .. 7 /\ 7 \in 1 .. 7
    OBVIOUS
  <1>4. \A i \in 1 .. 7 : h[i] = h[i - 1] \o s[i]
    BY <1>2 DEF FlattensBy
  <1>5. /\ h[1] = h[0] \o s[1] /\ h[2] = h[1] \o s[2] /\ h[3] = h[2] \o s[3]
        /\ h[4] = h[3] \o s[4] /\ h[5] = h[4] \o s[5] /\ h[6] = h[5] \o s[6]
        /\ h[7] = h[6] \o s[7]
    BY <1>3, <1>4
  <1>6. h[0] = << >> /\ FlattenSeq(s) = h[7]
    BY <1>2 DEF FlattensBy
  <1>7. << >> \o a = a
    BY ShortSeqs DEF AreSeven
  <1>8. QED
    BY <1>1, <1>5, <1>6, <1>7 DEF AreSeven

\* The screens expected, by the root fields in their order.
ItemsOf(t) == << ChainItem(t), AccountItem(t), SequenceItem(t), MsgsItems(t), MemoItem(t),
                 FeeItems(t), << >> >>

\* They are the ones expected.
LEMMA ExpectedIs ==
    ASSUME NEW t, IsSeq(MsgsItems(t))
    PROVE  AreSeqs(ItemsOf(t), 7) /\ FlattenSeq(ItemsOf(t)) = Expected(t) /\ IsSeq(Expected(t))
  <1> DEFINE C == ChainItem(t)
             A == AccountItem(t)
             S == SequenceItem(t)
             B == ExpertOnly(<< << << "account_number" >>, Word(t.account_number) >>,
                                << << "sequence" >>, Word(t.sequence) >> >>)
             M == MsgsItems(t)
             N == MemoItem(t)
             F == << << << "fee", "amount" >>, ShownCoins(t.fee) >> >>
             G == ExpertOnly(<< << << "fee", "gas" >>, Word(t.gas) >> >>)
             E == F \o G
             O == << >>
             all == ItemsOf(t)
  <1>1. /\ \A x : IsSeq(<< x >>) /\ IsSeq(ExpertOnly(<< x >>))
        /\ \A x, y : /\ ExpertOnly(<< x, y >>) = ExpertOnly(<< x >>) \o ExpertOnly(<< y >>)
        /\ IsSeq(<< >>)
    <2>1. CASE expert
      BY <2>1, ShortSeqs DEF ExpertOnly
    <2>2. CASE ~expert
      BY <2>2, ShortSeqs DEF ExpertOnly
    <2>3. QED
      BY <2>1, <2>2
  <1>2. B = A \o S
    BY <1>1 DEF AccountItem, SequenceItem
  <1>3. IsSeq(C) /\ IsSeq(A) /\ IsSeq(S) /\ IsSeq(F) /\ IsSeq(G) /\ IsSeq(O) /\ IsSeq(M)
    BY <1>1 DEF ChainItem, AccountItem, SequenceItem
  <1>4. IsSeq(N)
    BY <1>1 DEF MemoItem
  <1>5. FeeItems(t) = F \o G
    BY DEF FeeItems
  <1>6. Expected(t) = ((((C \o B) \o M) \o N) \o F) \o G
    BY DEF Expected, ChainItem, MsgsItems, MemoItem
  <1>7. all = << C, A, S, M, N, F \o G, O >>
    BY <1>5 DEF ItemsOf
  <1> HIDE DEF C, A, S, B, M, N, F, G, O
  <1>9. IsSeq(E)
    BY <1>3, Joined
  <1>e. E = F \o G /\ all = << C, A, S, M, N, E, O >>
    BY <1>7
  <1> HIDE DEF E, all
  <1>8. AreSeven(all, C, A, S, M, N, E, O)
    BY <1>3, <1>4, <1>9, <1>e, SevenSeq DEF AreSeven
  <1>10. AreSeqs(all, 7) /\ FlattenSeq(all) = (((((C \o A) \o S) \o M) \o N) \o E) \o O
    BY ONLY <1>8, FlattenSeven
  <1> DEFINE X == ((C \o B) \o M) \o N
             Y == X \o E
  <1>11. (C \o A) \o S = C \o B
    <2>0. IsSeq(C) /\ IsSeq(A) /\ IsSeq(S)
      BY <1>3
    <2>1. (C \o A) \o S = C \o (A \o S)
      BY ONLY <2>0, JoinsAssociate
    <2>2. QED
      BY <1>2, <2>1
  <1>12. IsSeq(X)
    <2>1. IsSeq(C \o A)
      BY <1>3, Joined
    <2>2. IsSeq((C \o A) \o S)
      BY <1>3, <2>1, Joined
    <2>3. IsSeq(C \o B)
      BY <1>11, <2>2
    <2>4. IsSeq((C \o B) \o M)
      BY <1>3, <2>3, Joined
    <2>5. QED
      BY <1>4, <2>4, Joined
  <1>13. FlattenSeq(all) = Y \o O
    BY <1>10, <1>11
  <1> HIDE DEF X
  <1>14. IsSeq(Y)
    BY <1>9, <1>12, Joined
  <1>15. Y \o O = Y
    BY <1>14, ShortSeqs DEF O
  <1>16. (X \o F) \o G = Y
    <2>0. IsSeq(X) /\ IsSeq(F) /\ IsSeq(G)
      BY <1>3, <1>12
    <2>1. (X \o F) \o G = X \o (F \o G)
      BY ONLY <2>0, JoinsAssociate
    <2>2. QED
      BY <1>e, <2>1
  <1>17. Expected(t) = (X \o F) \o G
    BY <1>6 DEF X
  <1> HIDE DEF Y
  <1>18. FlattenSeq(all) = Expected(t) /\ IsSeq(Expected(t))
    BY <1>13, <1>14, <1>15, <1>16, <1>17
  <1>19. QED
    BY <1>10, <1>18 DEF all

\* The items of the display, by the root fields.
LEMMA IndexesJoined ==
    ASSUME NEW doc, NEW c, NEW a, NEW b, AreSeqs(a, 7), AreSeqs(b, 7),
           \A i \in 1 .. 7 : ShowsItems(doc, c, a[i], b[i])
    PROVE  ShowsItems(doc, c, FlattenSeq(a), FlattenSeq(b))
  <1> DEFINE R(x, s) == IndexShows(doc, c, x, s)
  <1>1. \A i \in 1 .. 7 : Alike(a[i], b[i], R)
    BY DEF ShowsItems
  <1>2. Alike(FlattenSeq(a), FlattenSeq(b), R)
    BY <1>1, FlattenAlike
  <1>3. QED
    BY <1>2 DEF ShowsItems

\* How many elements seven sequences have.
LEMMA SevenLong ==
    ASSUME NEW a, NEW b, NEW c, NEW d, NEW e, NEW f, NEW g,
           NEW s, AreSeven(s, a, b, c, d, e, f, g)
    PROVE  Len(FlattenSeq(s)) = Len(a) + Len(b) + Len(c) + Len(d) + Len(e) + Len(f) + Len(g)
  <1> DEFINE ab == a \o b
             abc == ab \o c
             abcd == abc \o d
             abcde == abcd \o e
             abcdef == abcde \o f
             all == abcdef \o g
  <1>1. /\ IsSeq(a) /\ IsSeq(b) /\ IsSeq(c) /\ IsSeq(d) /\ IsSeq(e) /\ IsSeq(f) /\ IsSeq(g)
    BY DEF AreSeven
  <1>2. FlattenSeq(s) = all
    BY FlattenSeven
  <1>3. IsSeq(ab) /\ Len(ab) = Len(a) + Len(b)
    BY <1>1, Joined
  <1> HIDE DEF ab
  <1>4. IsSeq(abc) /\ Len(abc) = Len(ab) + Len(c)
    BY <1>1, <1>3, Joined
  <1> HIDE DEF abc
  <1>5. IsSeq(abcd) /\ Len(abcd) = Len(abc) + Len(d)
    BY <1>1, <1>4, Joined
  <1> HIDE DEF abcd
  <1>6. IsSeq(abcde) /\ Len(abcde) = Len(abcd) + Len(e)
    BY <1>1, <1>5, Joined
  <1> HIDE DEF abcde
  <1>7. IsSeq(abcdef) /\ Len(abcdef) = Len(abcde) + Len(f)
    BY <1>1, <1>6, Joined
  <1> HIDE DEF abcdef
  <1>8. Len(all) = Len(abcdef) + Len(g)
    BY <1>1, <1>7, Joined
  <1>9. QED
    BY <1>2, <1>3, <1>4, <1>5, <1>6, <1>7, <1>8

\* The items of the display, root field by root field.
LEMMA SegmentsAre ==
    ASSUME NEW c
    PROVE  \E a : /\ a = [r \in 1 .. 7 |-> Segment(c, RootItems[r])]
                  /\ TreeIndexes(c, expert) = FlattenSeq(a)
  <1>1. DOMAIN RootItems = 1 .. 7
    BY RootNames
  <1>2. [r \in DOMAIN RootItems |->
           [i \in 1 .. get_subitem_count(c, expert, RootItems[r]) |-> << RootItems[r], i >>]]
           = [r \in 1 .. 7 |-> Segment(c, RootItems[r])]
    BY <1>1 DEF Segment
  <1>3. QED
    BY <1>2 DEF TreeIndexes

\* Each root field shows its screens.
LEMMA SegmentsShow ==
    ASSUME NEW doc, NEW t, Encodes(doc, t), NEW leaves, leaves = RootLeaves(doc, "msgs", FALSE),
           NEW c, MsgsKept(doc, t, leaves, c),
           NEW m \in Nat, m = Len(Kept(leaves, c)), ItemsShown(t, c, m)
    PROVE  /\ ShowsItems(doc, c, Segment(c, "chain_id"), ChainItem(t))
           /\ ShowsItems(doc, c, Segment(c, "account_number"), AccountItem(t))
           /\ ShowsItems(doc, c, Segment(c, "sequence"), SequenceItem(t))
           /\ ShowsItems(doc, c, Segment(c, "msgs"), MsgsItems(t))
           /\ IsSeq(MsgsItems(t)) /\ Len(MsgsItems(t)) = m
           /\ ShowsItems(doc, c, Segment(c, "memo"), MemoItem(t))
           /\ ShowsItems(doc, c, Segment(c, "fee"), FeeItems(t))
           /\ ShowsItems(doc, c, Segment(c, "?"), << >>)
  <1>1. /\ WordLeaf(doc, "chain_id", t.chain_id)
        /\ WordLeaf(doc, "account_number", t.account_number)
        /\ WordLeaf(doc, "sequence", t.sequence)
        /\ WordLeaf(doc, "memo", t.memo)
    BY WordsHaveLeaves
  <1>2. /\ Tokenized(doc) /\ IsKept(t.chain_id) /\ IsKept(t.account_number)
        /\ IsKept(t.sequence) /\ IsKept(t.memo)
    BY DEF Encodes, Ordinary
  <1>3. ShowsItems(doc, c, Segment(c, "chain_id"), ChainItem(t))
    BY <1>1, <1>2, WordSegment DEF ItemsShown, ChainItem
  <1>4. /\ ShowsItems(doc, c, Segment(c, "account_number"), AccountItem(t))
        /\ ShowsItems(doc, c, Segment(c, "sequence"), SequenceItem(t))
    <2>1. CASE expert
      BY <1>1, <1>2, <2>1, WordSegment DEF ItemsShown, AccountItem, SequenceItem, ExpertOnly
    <2>2. CASE ~expert
      BY <2>2, NothingShown DEF ItemsShown, AccountItem, SequenceItem, ExpertOnly
    <2>3. QED
      BY <2>1, <2>2
  <1>5. /\ ShowsItems(doc, c, Segment(c, "msgs"), MsgsItems(t))
        /\ IsSeq(MsgsItems(t)) /\ Len(MsgsItems(t)) = m
    <2> DEFINE items == MsgsItems(t)
    <2>1. items = MsgsItems(t)
      OBVIOUS
    <2>2. MsgsShown(doc, t, leaves, c, m)
      BY DEF ItemsShown, MsgsShown
    <2> HIDE DEF items
    <2>3. ShowsItems(doc, c, Segment(c, "msgs"), items) /\ Len(items) = m /\ IsSeq(items)
      BY ONLY <2>1, <2>2, MsgsSegment
    <2>4. QED
      BY <2>3 DEF items
  <1>6. ShowsItems(doc, c, Segment(c, "memo"), MemoItem(t))
    <2>1. CASE t.memo = ""
      BY <2>1, NothingShown DEF ItemsShown, MemoItem, MemoItems
    <2>2. CASE t.memo # ""
      BY <1>1, <1>2, <2>2, WordSegment DEF ItemsShown, MemoItem, MemoItems
    <2>3. QED
      BY <2>1, <2>2
  <1>7. ShowsItems(doc, c, Segment(c, "fee"), FeeItems(t))
    BY FeeSegment DEF ItemsShown
  <1>8. ShowsItems(doc, c, Segment(c, "?"), << >>)
    BY NothingShown DEF ItemsShown
  <1>9. QED
    BY <1>3, <1>4, <1>5, <1>6, <1>7, <1>8

\* Few screens are no messages'.
LEMMA FewScreens ==
    ASSUME NEW t
    PROVE  /\ Len(ChainItem(t)) = 1 /\ Len(AccountItem(t)) \in 0 .. 1
           /\ Len(SequenceItem(t)) \in 0 .. 1 /\ Len(MemoItem(t)) \in 0 .. 1
           /\ Len(FeeItems(t)) \in 0 .. 2 /\ Len(<< >>) = 0
  <1>1. /\ \A x : Len(<< x >>) = 1 /\ Len(ExpertOnly(<< x >>)) \in {0, 1}
        /\ \A x, y : Len(<< x >> \o ExpertOnly(<< y >>)) \in {1, 2}
        /\ Len(<< >>) = 0
    <2>1. CASE expert
      BY <2>1, ShortSeqs DEF ExpertOnly
    <2>2. CASE ~expert
      BY <2>2, ShortSeqs DEF ExpertOnly
    <2>3. QED
      BY <2>1, <2>2
  <1>2. {0, 1} \subseteq 0 .. 1 /\ {1, 2} \subseteq 0 .. 2
    OBVIOUS
  <1>3. Len(ChainItem(t)) = 1 /\ Len(AccountItem(t)) \in {0, 1} /\ Len(SequenceItem(t)) \in {0, 1}
    BY <1>1 DEF ChainItem, AccountItem, SequenceItem
  <1>4. Len(MemoItem(t)) \in {0, 1}
    BY <1>1 DEF MemoItem
  <1>5. Len(FeeItems(t)) \in {1, 2}
    BY <1>1 DEF FeeItems
  <1>6. QED
    BY <1>1, <1>2, <1>3, <1>4, <1>5

\* Few screens more than those of the messages.
LEMMA FewMore ==
    ASSUME NEW t, IsSeq(MsgsItems(t)), NEW m \in Nat, Len(MsgsItems(t)) = m
    PROVE  Len(Expected(t)) \in 0 .. m + 6
  <1> DEFINE s == ItemsOf(t)
             a == ChainItem(t)
             b == AccountItem(t)
             c == SequenceItem(t)
             d == MsgsItems(t)
             e == MemoItem(t)
             f == FeeItems(t)
             g == << >>
  <1>1. FlattenSeq(s) = Expected(t) /\ AreSeqs(s, 7)
    BY ExpectedIs
  <1>2. s = << a, b, c, d, e, f, g >>
    BY DEF ItemsOf
  <1>3. /\ Len(a) = 1 /\ Len(b) \in 0 .. 1 /\ Len(c) \in 0 .. 1 /\ Len(e) \in 0 .. 1
        /\ Len(f) \in 0 .. 2 /\ Len(g) = 0
    BY FewScreens
  <1> HIDE DEF s, a, b, c, d, e, f, g
  <1>4. AreSeven(s, a, b, c, d, e, f, g)
    <2>1. /\ IsSeq(s) /\ Len(s) = 7 /\ s[1] = a /\ s[2] = b /\ s[3] = c
          /\ s[4] = d /\ s[5] = e /\ s[6] = f /\ s[7] = g
      BY <1>2, SevenSeq
    <2>2. \A i \in 1 .. 7 : IsSeq(s[i])
      BY <1>1 DEF AreSeqs
    <2>3. /\ IsSeq(s[1]) /\ IsSeq(s[2]) /\ IsSeq(s[3]) /\ IsSeq(s[4]) /\ IsSeq(s[5])
          /\ IsSeq(s[6]) /\ IsSeq(s[7])
      BY <2>2, InTurn
    <2>4. QED
      BY <2>1, <2>3 DEF AreSeven
  <1>5. Len(FlattenSeq(s)) = Len(a) + Len(b) + Len(c) + Len(d) + Len(e) + Len(f) + Len(g)
    BY <1>4, SevenLong
  <1> DEFINE la == Len(a)
             lb == Len(b)
             lc == Len(c)
             ld == Len(d)
             le == Len(e)
             lf == Len(f)
             lg == Len(g)
             l == Len(Expected(t))
  <1>6. /\ l = la + lb + lc + ld + le + lf + lg /\ ld = m
        /\ la = 1 /\ lb \in 0 .. 1 /\ lc \in 0 .. 1 /\ le \in 0 .. 1 /\ lf \in 0 .. 2 /\ lg = 0
    BY <1>1, <1>3, <1>5 DEF d
  <1> HIDE DEF la, lb, lc, ld, le, lf, lg, l
  <1>7. l \in 0 .. m + 6
    BY ONLY <1>6, m \in Nat
  <1>8. QED
    BY <1>7 DEF l

\* The display of an ordinary transaction: its items are the screens expected,
\* in their order, as far as they show, and no more than a byte counts.
ShowsExpected(doc, t, c) ==
    /\ ShowsItems(doc, c, TreeIndexes(c, expert), Expected(t))
    /\ Len(Expected(t)) \in 0 .. U8 - 1

\* An ordinary transaction is displayed like that under review, whatever the
\* number of its messages and of their fields.
THEOREM ExpectedShown ==
    ASSUME NEW doc, NEW t, Reads(doc, t), NEW c, c = OwnCache(doc, expert)
    PROVE  ShowsExpected(doc, t, c)
  <1> DEFINE leaves == RootLeaves(doc, "msgs", FALSE)
             es == Entries(t)
             n == Len(leaves)
             A == ItemNumbers(n, t)
             m == Len(Kept(leaves, c))
             u == U8
  <1>1. Encodes(doc, t) /\ Ordinary(t) /\ Tokenized(doc)
    BY DEF Reads, Encodes
  <1>2. Len(es) + 6 < u
    BY <1>1 DEF Ordinary
  <1>3. ShowAllOf(doc, leaves, es)
    BY <1>1, MsgLeaves
  <1>l. leaves = RootLeaves(doc, "msgs", FALSE)
    OBVIOUS
  <1> HIDE DEF leaves, es
  <1>4. IsSeq(leaves) /\ Len(leaves) = Len(es)
    BY ONLY <1>3, ShowsOneByOne
  <1>5. n \in Nat
    BY <1>4 DEF IsSeq
  <1>6. n + 6 < u
    BY <1>2, <1>4
  <1>n. n = Len(leaves)
    OBVIOUS
  <1>u. u = U8 /\ u \in Nat
    BY DEF U8
  <1> HIDE DEF n, u
  <1>7. n < u
    BY ONLY <1>5, <1>6, <1>u
  <1>8. n < U8 /\ A = ItemNumbers(n, t)
    BY <1>7, <1>u
  <1> HIDE DEF A
  <1>9. CacheIs(doc, t, leaves, A, c)
    BY <1>5, <1>8, <1>l, <1>n, OwnCacheIs
  <1>10. MsgsKept(doc, t, leaves, c)
    BY <1>9 DEF CacheIs
  <1>11. m \in Nat
    <2> DEFINE kept == Kept(leaves, c)
    <2>1. KeepsItems(doc, kept, FlattenSeq(Screens(t, Entries(t))))
      BY <1>10 DEF MsgsKept
    <2> HIDE DEF kept
    <2>2. IsSeq(kept)
      BY <2>1 DEF KeepsItems, Alike
    <2>3. Len(kept) \in Nat
      BY <2>2 DEF IsSeq
    <2>4. QED
      BY <2>3 DEF kept
  <1>m. m = Len(Kept(leaves, c))
    OBVIOUS
  <1> HIDE DEF m
  <1>12. ItemsShown(t, c, m) /\ m <= n
    BY <1>5, <1>8, <1>9, <1>11, <1>m, <1>n, ItemsAreShown
  <1>13. /\ ShowsItems(doc, c, Segment(c, "chain_id"), ChainItem(t))
         /\ ShowsItems(doc, c, Segment(c, "account_number"), AccountItem(t))
         /\ ShowsItems(doc, c, Segment(c, "sequence"), SequenceItem(t))
         /\ ShowsItems(doc, c, Segment(c, "msgs"), MsgsItems(t))
         /\ IsSeq(MsgsItems(t)) /\ Len(MsgsItems(t)) = m
         /\ ShowsItems(doc, c, Segment(c, "memo"), MemoItem(t))
         /\ ShowsItems(doc, c, Segment(c, "fee"), FeeItems(t))
         /\ ShowsItems(doc, c, Segment(c, "?"), << >>)
    BY <1>1, <1>10, <1>11, <1>12, <1>l, <1>m, SegmentsShow
  <1>14. Len(Expected(t)) \in 0 .. U8 - 1
    <2>1. Len(Expected(t)) \in 0 .. m + 6
      BY <1>11, <1>13, FewMore
    <2> DEFINE l == Len(Expected(t))
    <2> HIDE DEF l
    <2>2. l \in 0 .. u - 1
      BY ONLY <2>1, <1>5, <1>6, <1>11, <1>12, <1>u DEF l
    <2>3. QED
      BY <1>u, <2>2 DEF l
  <1>15. ShowsItems(doc, c, TreeIndexes(c, expert), Expected(t))
    <2>1. PICK a : /\ a = [r \in 1 .. 7 |-> Segment(c, RootItems[r])]
                   /\ TreeIndexes(c, expert) = FlattenSeq(a)
      BY SegmentsAre
    <2> DEFINE b == ItemsOf(t)
    <2>2. AreSeqs(b, 7) /\ FlattenSeq(b) = Expected(t)
      BY <1>13, ExpectedIs
    <2>3. /\ a[1] = Segment(c, "chain_id") /\ a[2] = Segment(c, "account_number")
          /\ a[3] = Segment(c, "sequence") /\ a[4] = Segment(c, "msgs")
          /\ a[5] = Segment(c, "memo") /\ a[6] = Segment(c, "fee") /\ a[7] = Segment(c, "?")
      BY <2>1, InTurn, RootsDiffer
    <2>4. /\ b[1] = ChainItem(t) /\ b[2] = AccountItem(t) /\ b[3] = SequenceItem(t)
          /\ b[4] = MsgsItems(t) /\ b[5] = MemoItem(t) /\ b[6] = FeeItems(t) /\ b[7] = << >>
      BY SevenSeq DEF ItemsOf
    <2> HIDE DEF b
    <2>5. \A i \in 1 .. 7 : i = 1 \/ i = 2 \/ i = 3 \/ i = 4 \/ i = 5 \/ i = 6 \/ i = 7
      BY ONLY TRUE
    <2>6. \A i \in 1 .. 7 : ShowsItems(doc, c, a[i], b[i])
      BY ONLY <1>13, <2>3, <2>4, <2>5
    <2>7. AreSeqs(a, 7)
      <3>1. \A i \in 1 .. 7 : IsSeq(a[i])
        BY <2>6 DEF ShowsItems, Alike
      <3>2. IsSeq(a) /\ Len(a) = 7
        <4> DEFINE V(r) == Segment(c, RootItems[r])
                   k == 7
        <4>1. a = [r \in 1 .. k |-> V(r)] /\ k \in Nat
          BY <2>1
        <4> HIDE DEF V, k
        <4>2. IsSeq(a) /\ Len(a) = k
          BY <4>1, FunctionIsSeq
        <4>3. QED
          BY <4>2 DEF k
      <3>3. QED
        BY <3>1, <3>2 DEF AreSeqs
    <2>8. ShowsItems(doc, c, FlattenSeq(a), FlattenSeq(b))
      BY ONLY <2>2, <2>6, <2>7, IndexesJoined
    <2>9. QED
      BY <2>1, <2>2, <2>8
  <1>16. QED
    BY <1>14, <1>15 DEF ShowsExpected

-----------------------------------------------------------------------------
(* The whole review.                                                       *)

\* Where no text is MsgMultiSend, the chain id is not.
LEMMA MultiSendNotId ==
    ASSUME NEW doc, Tokenized(doc), IsJson(doc), Len(doc.tokens) > 0,
           Never(doc, MsgMultiSend), RootToken(doc, "chain_id") # 0
    PROVE  ChainId(doc) # MsgMultiSend
  <1> DEFINE chain == RootLeaves(doc, "chain_id", FALSE)
  <1>1. << >> # MsgMultiSend
    BY DEF MsgMultiSend, Word
  <1>2. CASE chain = << >>
    <2>1. ChainId(doc) = << >>
      BY <1>2 DEF ChainId, FirstText
    <2>2. QED
      BY <1>1, <2>1
  <1>3. CASE chain # << >>
    <2>1. chain \in Seq(PlacesOf(doc.tokens, "chain_id"))
      BY RootLeavesType
    <2>2. ChainId(doc) = Text(doc.tokens, chain[1].token)
      BY <1>3 DEF ChainId, FirstText
    <2> HIDE DEF chain
    <2>3. 1 \in 1 .. Len(chain)
      BY <1>3, <2>1
    <2>4. chain[1].token \in DOMAIN doc.tokens
      BY <2>3, LeafIsToken DEF chain
    <2>5. QED
      BY <2>2, <2>4 DEF Never
  <1>4. QED
    BY <1>2, <1>3

\* At the last item of an ordinary transaction the view has seen its screens, one
\* after the other, each with what the transaction says.
LEMMA OrdinarySeen ==
    ASSUME ReviewIsOwn, DepthIsOwn, SeenSoFar, AtLastItem,
           IsJson(json), Never(json, MsgMultiSend),
           NEW t \in Transactions, Sent(t), Ordinary(t)
    PROVE  /\ DOMAIN shown = 0 .. Len(Expected(t)) - 1
           /\ \A i \in DOMAIN shown : shown[i].item = Expected(t)[i + 1]
  <1> DEFINE indexes == TreeIndexes(cache, expert)
             n == parser_display_numItems(cache, expert)
             e == Expected(t)
  <1>1. phase = "review"
    BY DEF AtLastItem
  <1>2. Tokenized(json) /\ Len(json.tokens) > 0 /\ cache = OwnCache(json, expert)
    BY <1>1, ReviewFacts DEF ReviewIsOwn
  <1>h. RootToken(json, "chain_id") # 0
    BY <1>1, ReviewFacts DEF HasFields
  <1>3. json = Encode(t)
    BY DEF Sent, Encodings
  <1>4. Reads(json, t)
    BY <1>2, <1>3 DEF Reads, Encodes, IsJson
  <1>5. ShowsExpected(json, t, cache)
    BY <1>2, <1>4, ExpectedShown
  <1>6. /\ Len(indexes) = Len(e) /\ Len(e) \in 0 .. U8 - 1
        /\ \A i \in 1 .. Len(indexes) : IndexShows(json, cache, indexes[i], e[i])
    BY <1>5 DEF ShowsExpected, ShowsItems, Alike
  <1>7. n = Len(e)
    <2> DEFINE l == Len(e)
    <2>1. n = l % U8
      BY <1>6 DEF parser_display_numItems
    <2>2. l \in 0 .. U8 - 1
      BY <1>6
    <2> HIDE DEF l, n
    <2>3. n = l
      BY ONLY <2>1, <2>2 DEF U8
    <2>4. QED
      BY <2>3 DEF l
  <1>8. ~OwnDepth(json)
    <2>2. ~Counts(json, FALSE).deep
      BY <1>2, CountsType
    <2>3. ChainId(json) # MsgMultiSend
      BY <1>2, <1>h, MultiSendNotId
    <2>4. QED
      BY <2>2, <2>3 DEF OwnDepth, DeepAfter
  <1>9. OwnDepth(json) = FALSE
    <2> DEFINE own == OwnDepth(json)
    <2>1. own \in BOOLEAN
      BY DEF OwnDepth, DeepAfter
    <2> HIDE DEF own
    <2>2. own = FALSE
      BY <1>8, <2>1 DEF own
    <2>3. QED
      BY <2>2 DEF own
  <1>10. /\ \A i \in 0 .. n - 1 : OwnItem(i).ok
         /\ \A i \in DOMAIN shown : shown[i] = OwnItem(i)
    BY <1>1 DEF DepthIsOwn, OneDepth
  <1>11. DOMAIN shown = 0 .. n - 1
    BY SeenIsAll
  <1>12. ASSUME NEW i \in 0 .. n - 1
         PROVE  shown[i].item = e[i + 1]
    <2>1. OwnItem(i) = ItemAt(json, cache, indexes[i + 1], FALSE)
      BY <1>9, <1>12 DEF OwnItem, parser_getItem
    <2>2. i + 1 \in 1 .. Len(indexes)
      <3> DEFINE l == Len(indexes)
      <3>1. n = l /\ l \in 0 .. U8 - 1 /\ i \in 0 .. n - 1
        BY <1>6, <1>7, <1>12
      <3> HIDE DEF l, n
      <3>2. i + 1 \in 1 .. l
        BY ONLY <3>1 DEF U8
      <3>3. QED
        BY <3>2 DEF l
    <2>3. IndexShows(json, cache, indexes[i + 1], e[i + 1])
      BY <1>6, <2>2
    <2>4. OwnItem(i).ok /\ shown[i] = OwnItem(i)
      BY <1>10, <1>11, <1>12
    <2> HIDE DEF indexes, e, n
    <2>5. QED
      BY <2>1, <2>3, <2>4 DEF IndexShows
  <1>13. QED
    BY <1>7, <1>11, <1>12

\* Behind the last item the approval is offered (app_sign), and the view has then
\* shown the whole of an ordinary transaction as the host meant it: its fields and
\* those of its messages, in their order, each text under the path of its key, and
\* a type or a delegator that all messages share once.
THEOREM OrdinaryIsSeen ==
    Spec => [](/\ IsJson(json) /\ Never(json, MsgMultiSend)
               /\ \A t \in Transactions : Sent(t) => Ordinary(t)
               => ApprovalSeesTransaction)
  <1>1. Init => SeenSoFar
    BY DEF Init, SeenSoFar
  <1>2. ReviewIsOwn /\ DepthIsOwn /\ SeenSoFar =>
          (/\ IsJson(json) /\ Never(json, MsgMultiSend)
           /\ \A t \in Transactions : Sent(t) => Ordinary(t)
           => ApprovalSeesTransaction)
    BY OrdinarySeen DEF ApprovalSeesTransaction
  <1>3. QED
    BY <1>1, <1>2, SeenStep, DepthKept, PTL DEF Spec
=============================================================================
