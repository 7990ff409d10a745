--------------------------- MODULE ServerListProofs ---------------------------
(***************************************************************************)
(* ServerList, for any number of commands, servers, settings and edits: a  *)
(* command that changes the file leaves what it read with exactly the      *)
(* change it was asked for, and no sequence of commands and failures turns *)
(* a list that loads into one that does not, the blank URL aside.          *)
(*                                                                         *)
(* What a command is going to write is fixed when it has read the file, so *)
(* the argument is that loading, changing and saving is exact (SaveLoads,  *)
(* AddExact, RemoveExact), and that it stays what it was until it is in    *)
(* place (Pending).                                                        *)
(***************************************************************************)
EXTENDS ServerList, SequenceTheorems, TLAPS

----------------------------------------------------------------------------
(* Loading, changing and saving a list.                                    *)

\* A server as the program holds one; `add' lets a blank URL through.
AnyServer == [alias : Alias, url : Url, token : Token, policy : Policy]

Distinct(servers) ==
  \A i, j \in DOMAIN servers : servers[i].alias = servers[j].alias => i = j

Config(cfg) ==
  /\ cfg = [defaults |-> cfg.defaults, servers |-> cfg.servers]
  /\ cfg.defaults \in [Setting -> Value \union {BadValue}]
  /\ cfg.servers \in Seq(AnyServer) /\ Distinct(cfg.servers)

Urls(servers) == \A i \in DOMAIN servers : servers[i].url # ""

\* _deep_merge over a full set of values gives one.
LEMMA MergeType ==
  ASSUME NEW V, Unset \notin V, NEW base \in [Setting -> V],
         NEW over \in [Setting -> V \union {Unset}]
  PROVE  Merge(base, over) \in [Setting -> V]
BY DEF Merge

LEMMA MergeFull ==
  ASSUME NEW over \in Policy, NEW base
  PROVE  Merge(base, over) = over
<1>1. \A s \in Setting : over[s] # Unset
  BY ServerListAssumption DEF Policy, ServerListAssumption
<1> QED
  BY <1>1 DEF Merge, Policy

\* load: what it yields is a list of complete servers, no alias twice.
LEMMA LoadType ==
  ASSUME NEW doc \in Doc \union {NoFile}, Loads(doc)
  PROVE  Config(Load(doc)) /\ Urls(Load(doc).servers)
<1>1. CASE doc = NoFile
  <2>1. Load(doc) = [defaults |-> BuiltIn, servers |-> <<>>]
    BY <1>1 DEF Load
  <2>2. BuiltIn \in [Setting -> Value \union {BadValue}]
    BY ServerListAssumption DEF ServerListAssumption
  <2>3. <<>> \in Seq(AnyServer) /\ DOMAIN <<>> = {}
    BY EmptySeq
  <2> QED
    BY <2>1, <2>2, <2>3 DEF Config, Distinct, Urls
<1>2. CASE doc # NoFile
  <2>1. PICK n \in Nat : n = Len(doc.servers) /\ DOMAIN doc.servers = 1..n
    BY <1>2, LenProperties DEF Doc
  <2>2. /\ \A i \in 1..n : ServerOf(doc, doc.servers[i]) \in Server
        /\ \A i, j \in 1..n : doc.servers[i].alias = doc.servers[j].alias => i = j
    BY <1>2, <2>1 DEF Loads
  <2>3. PICK servers : servers = [i \in 1..n |-> ServerOf(doc, doc.servers[i])]
    OBVIOUS
  <2>4. Load(doc) = [defaults |-> Defaults(doc), servers |-> servers]
    BY <1>2, <2>1, <2>3 DEF Load
  <2>5. \A i \in 1..n : servers[i] \in Server /\ servers[i].alias = doc.servers[i].alias
    BY <2>2, <2>3 DEF ServerOf
  <2>6. servers \in Seq(AnyServer) /\ DOMAIN servers = 1..n
    <3>1. \A i \in 1..n : servers[i] \in AnyServer
      BY <2>5 DEF Server, AnyServer
    <3>2. servers \in [1..n -> AnyServer]
      BY <2>3, <3>1
    <3> QED
      BY <3>2, SeqDef
  <2>7. Distinct(servers)
    BY <2>2, <2>5, <2>6 DEF Distinct
  <2>8. Urls(servers)
    BY <2>5, <2>6 DEF Urls, Server
  <2>9. Defaults(doc) \in [Setting -> Value \union {BadValue}]
    <3>1. doc.defaults \in [Setting -> (Value \union {BadValue}) \union {Unset}]
      BY <1>2 DEF Doc
    <3>2. /\ BuiltIn \in [Setting -> Value \union {BadValue}]
          /\ Unset \notin Value \union {BadValue}
      BY ServerListAssumption DEF ServerListAssumption
    <3> QED
      BY <3>1, <3>2, MergeType DEF Defaults
  <2> QED
    BY <2>4, <2>6, <2>7, <2>8, <2>9 DEF Config
<1> QED
  BY <1>1, <1>2

\* What save writes for a server.
SavedEntry == [alias : Alias, url : Url, token : Token, settings : Policy]

LEMMA EntryType ==
  ASSUME NEW s \in AnyServer
  PROVE  /\ Entry(s, s.policy) \in SavedEntry
         /\ Entry(s, s.policy).alias = s.alias /\ Entry(s, s.policy).url = s.url
BY DEF AnyServer, SavedEntry, Entry

\* Loading what was saved for a server gives that server, whatever the defaults
\* of the list.
LEMMA EntryLoads ==
  ASSUME NEW s \in AnyServer, NEW doc
  PROVE  ServerOf(doc, Entry(s, s.policy)) = s
<1>1. PICK e : e = Entry(s, s.policy)
  OBVIOUS
<1>2. e.alias = s.alias /\ e.url = s.url /\ e.token = s.token /\ e.settings = s.policy
  BY <1>1 DEF Entry
<1>3. Merge(Defaults(doc), e.settings) = s.policy
  <2>1. s.policy \in Policy
    BY DEF AnyServer
  <2> QED
    BY <1>2, <2>1, MergeFull
<1>4. ServerOf(doc, e) = [alias |-> s.alias, url |-> s.url, token |-> s.token,
                          policy |-> s.policy]
  BY <1>2, <1>3 DEF ServerOf
<1>5. s = [alias |-> s.alias, url |-> s.url, token |-> s.token, policy |-> s.policy]
  BY DEF AnyServer
<1> QED
  BY <1>1, <1>4, <1>5

LEMMA SavedIsFile == Saved \subseteq Doc /\ NoFile \notin Saved
<1> SUFFICES ASSUME NEW d \in Saved PROVE d \in Doc
  BY ServerListAssumption DEF ServerListAssumption
<1>1. d.servers \in Seq([alias : Alias \union {BadAlias}, url : Url, token : Token,
              settings : [Setting -> Value \union {BadValue, Unset}]])
  <2>1. d.servers \in Seq(SavedEntry)
    BY DEF Saved, SavedEntry
  <2>2. Policy \subseteq [Setting -> Value \union {BadValue, Unset}]
    BY DEF Policy
  <2>3. SavedEntry
          \subseteq [alias : Alias \union {BadAlias}, url : Url, token : Token,
                     settings : [Setting -> Value \union {BadValue, Unset}]]
    BY <2>2 DEF SavedEntry
  <2> QED
    BY <2>1, <2>3, SeqMonotonic
<1>2. d.defaults \in [Setting -> Value \union {BadValue, Unset}]
      /\ d = [defaults |-> d.defaults, servers |-> d.servers]
  BY DEF Saved
<1> QED
  BY <1>1, <1>2 DEF Doc

\* save: the file it writes is one load takes apart, and loading it gives the
\* very servers saved, whatever the defaults.
LEMMA SaveLoads ==
  ASSUME NEW cfg, Config(cfg)
  PROVE  /\ Save(cfg) \in Saved
         /\ Urls(cfg.servers) => Loads(Save(cfg))
         /\ Effective(Save(cfg)) = ToSet(cfg.servers)
         /\ \A i \in DOMAIN cfg.servers :
              /\ i \in DOMAIN Save(cfg).servers
              /\ Save(cfg).servers[i].url = cfg.servers[i].url
<1>1. PICK old : /\ old = cfg.servers
                 /\ old \in Seq(AnyServer) /\ Distinct(old)
  BY DEF Config
<1>2. PICK n \in Nat : n = Len(old) /\ DOMAIN old = 1..n
  BY <1>1, LenProperties
<1>3. \A i \in 1..n : old[i] \in AnyServer
  BY <1>1, <1>2, ElementOfSeq
<1>4. PICK entries : entries = [i \in 1..n |-> Entry(old[i], old[i].policy)]
  OBVIOUS
<1>5. PICK doc : doc = Save(cfg)
  OBVIOUS
<1>6. doc = [defaults |-> cfg.defaults, servers |-> entries]
  BY <1>1, <1>2, <1>4, <1>5 DEF Save
<1>7. DOMAIN entries = 1..n /\ doc.servers = entries /\ doc.defaults = cfg.defaults
  BY <1>4, <1>6
<1>8. \A i \in 1..n : /\ entries[i] \in SavedEntry
                      /\ entries[i].alias = old[i].alias /\ entries[i].url = old[i].url
                      /\ ServerOf(doc, entries[i]) = old[i]
  <2> SUFFICES ASSUME NEW i \in 1..n
               PROVE  /\ entries[i] \in SavedEntry
                      /\ entries[i].alias = old[i].alias /\ entries[i].url = old[i].url
                      /\ ServerOf(doc, entries[i]) = old[i]
    OBVIOUS
  <2>1. PICK s \in AnyServer : s = old[i] /\ entries[i] = Entry(s, s.policy)
    BY <1>3, <1>4
  <2> QED
    BY <2>1, EntryType, EntryLoads
<1>9. doc \in Saved
  <2>1. entries \in [1..n -> SavedEntry]
    BY <1>4, <1>8
  <2>2. entries \in Seq(SavedEntry)
    BY <2>1, SeqDef
  <2>3. cfg.defaults \in [Setting -> Value \union {BadValue}]
    BY DEF Config
  <2> QED
    BY <1>6, <2>2, <2>3 DEF Saved, SavedEntry
<1>10. ASSUME Urls(old)
       PROVE  Loads(doc)
  <2>1. \A i \in 1..n : old[i] \in Server
    <3> SUFFICES ASSUME NEW i \in 1..n PROVE old[i] \in Server
      OBVIOUS
    <3>1. PICK s \in AnyServer : s = old[i] /\ s.url # ""
      BY <1>2, <1>3, <1>10 DEF Urls
    <3> QED
      BY <3>1 DEF AnyServer, Server
  <2>2. \A i \in 1..n : ServerOf(doc, entries[i]) \in Server
    BY <1>8, <2>1
  <2>3. \A i, j \in 1..n : entries[i].alias = entries[j].alias => i = j
    <3> SUFFICES ASSUME NEW i \in 1..n, NEW j \in 1..n,
                        entries[i].alias = entries[j].alias
                 PROVE  i = j
      OBVIOUS
    <3>1. old[i].alias = old[j].alias
      BY <1>8
    <3> QED
      BY <1>1, <1>2, <3>1 DEF Distinct
  <2> QED
    BY <1>7, <2>2, <2>3 DEF Loads
<1>11. Effective(doc) = ToSet(old)
  <2>1. doc # NoFile
    BY <1>9, SavedIsFile
  <2>2. Load(doc).servers = [i \in 1..n |-> ServerOf(doc, entries[i])]
    BY <1>7, <2>1 DEF Load
  <2>3. PICK again : again = [i \in 1..n |-> ServerOf(doc, entries[i])]
    OBVIOUS
  <2>4. \A i \in 1..n : again[i] = old[i]
    BY <1>8, <2>3
  <2>5. Load(doc).servers = again /\ DOMAIN again = 1..n
    BY <2>2, <2>3
  <2> QED
    BY <1>2, <2>4, <2>5 DEF Effective, ToSet
<1>12. \A i \in 1..n : i \in DOMAIN doc.servers /\ doc.servers[i].url = old[i].url
  BY <1>7, <1>8
<1> QED
  BY <1>1, <1>2, <1>5, <1>9, <1>10, <1>11, <1>12

\* add_server of an alias that is not there.
LEMMA AddExact ==
  ASSUME NEW cfg, Config(cfg), NEW server \in AnyServer, ~Has(cfg, server.alias)
  PROVE  /\ Config(add_server(cfg, server))
         /\ ToSet(add_server(cfg, server).servers) = ToSet(cfg.servers) \union {server}
         /\ Urls(cfg.servers) /\ server.url # "" =>
              Urls(add_server(cfg, server).servers)
         /\ \E i \in DOMAIN add_server(cfg, server).servers :
              add_server(cfg, server).servers[i] = server
<1>1. PICK old : /\ old = cfg.servers /\ old \in Seq(AnyServer) /\ Distinct(old)
                 /\ cfg = [defaults |-> cfg.defaults, servers |-> old]
  BY DEF Config
<1>2. PICK n \in Nat : n = Len(old) /\ DOMAIN old = 1..n
  BY <1>1, LenProperties
<1>3. PICK added : added = Append(old, server)
  OBVIOUS
<1>4. PICK new : new = add_server(cfg, server)
  OBVIOUS
<1>5. new = [defaults |-> cfg.defaults, servers |-> added]
  <2>1. new = [cfg EXCEPT !.servers = added]
    BY <1>1, <1>3, <1>4 DEF add_server
  <2> QED
    BY <1>1, <2>1
<1>6. /\ added \in Seq(AnyServer) /\ Len(added) = n + 1
      /\ \A i \in 1..n : added[i] = old[i]
      /\ added[n + 1] = server
  BY <1>1, <1>2, <1>3, AppendProperties
<1>7. DOMAIN added = 1..n + 1 /\ 1..n + 1 = 1..n \union {n + 1}
  BY <1>2, <1>6, LenProperties
<1>8. \A i \in 1..n : old[i].alias # server.alias
  BY <1>1, <1>2 DEF Has
<1>9. Distinct(added)
  BY <1>1, <1>2, <1>6, <1>7, <1>8 DEF Distinct
<1>10. Config(new)
  <2>1. new.defaults = cfg.defaults /\ new.servers = added
    BY <1>5
  <2>2. cfg.defaults \in [Setting -> Value \union {BadValue}]
    BY DEF Config
  <2> QED
    BY <1>5, <1>6, <1>9, <2>1, <2>2 DEF Config
<1>11. ToSet(added) = ToSet(old) \union {server}
  BY <1>2, <1>6, <1>7 DEF ToSet
<1>12. Urls(old) /\ server.url # "" => Urls(added)
  BY <1>2, <1>6, <1>7 DEF Urls
<1>13. \E i \in DOMAIN added : added[i] = server
  BY <1>6, <1>7
<1>14. cfg.servers = old /\ new.servers = added
  BY <1>1, <1>5
<1>15. /\ Config(new)
       /\ ToSet(new.servers) = ToSet(cfg.servers) \union {server}
       /\ Urls(cfg.servers) /\ server.url # "" => Urls(new.servers)
       /\ \E i \in DOMAIN new.servers : new.servers[i] = server
  BY <1>10, <1>11, <1>12, <1>13, <1>14, Zenon
<1> QED
  BY <1>4, <1>15, Zenon

\* RemoveAt closes the gap.
LEMMA RemoveAtProperties ==
  ASSUME NEW S, NEW s \in Seq(S), NEW at \in 1..Len(s)
  PROVE  /\ RemoveAt(s, at) \in Seq(S)
         /\ Len(RemoveAt(s, at)) = Len(s) - 1
         /\ \A i \in 1..Len(s) - 1 :
              RemoveAt(s, at)[i] = IF i < at THEN s[i] ELSE s[i + 1]
<1>1. PICK n \in Nat : n = Len(s)
  BY LenProperties
<1>2. \A i \in 1..n : s[i] \in S
  BY <1>1, ElementOfSeq
<1>3. PICK front, back : front = SubSeq(s, 1, at - 1) /\ back = SubSeq(s, at + 1, n)
  OBVIOUS
<1>4. at \in 1..n /\ at - 1 \in Int /\ at + 1 \in Int
  BY <1>1
<1>5. /\ front \in Seq(S) /\ Len(front) = at - 1
      /\ \A i \in 1..at - 1 : front[i] = s[i]
  <2>1. \A i \in 1..at - 1 : s[i] \in S
    BY <1>2, <1>4
  <2>2. /\ SubSeq(s, 1, at - 1) \in Seq(S)
        /\ Len(SubSeq(s, 1, at - 1)) = IF 1 <= at - 1 THEN (at - 1) - 1 + 1 ELSE 0
        /\ \A i \in 1..(at - 1) - 1 + 1 : SubSeq(s, 1, at - 1)[i] = s[1 + i - 1]
    BY <1>4, <2>1, SubSeqProperties
  <2> QED
    BY <1>3, <1>4, <2>2
<1>6. /\ back \in Seq(S) /\ Len(back) = n - at
      /\ \A i \in 1..n - at : back[i] = s[at + i]
  <2>1. \A i \in at + 1..n : s[i] \in S
    BY <1>2, <1>4
  <2>2. /\ SubSeq(s, at + 1, n) \in Seq(S)
        /\ Len(SubSeq(s, at + 1, n)) = IF at + 1 <= n THEN n - (at + 1) + 1 ELSE 0
        /\ \A i \in 1..n - (at + 1) + 1 :
             SubSeq(s, at + 1, n)[i] = s[(at + 1) + i - 1]
    BY <1>4, <2>1, SubSeqProperties
  <2> QED
    BY <1>3, <1>4, <2>2
<1>7. PICK t : t = RemoveAt(s, at)
  OBVIOUS
<1>8. t = front \o back
  BY <1>1, <1>3, <1>7 DEF RemoveAt
<1>9. PICK m \in Nat : m = Len(front) /\ m = at - 1
  BY <1>4, <1>5
<1>10. /\ t \in Seq(S)
       /\ Len(t) = m + Len(back)
       /\ \A i \in 1..m + Len(back) :
            t[i] = IF i <= m THEN front[i] ELSE back[i - m]
  <2>1. front \in Seq(S) /\ back \in Seq(S)
    BY <1>5, <1>6
  <2>2. /\ front \o back \in Seq(S)
        /\ Len(front \o back) = Len(front) + Len(back)
        /\ \A i \in 1..Len(front) + Len(back) : (front \o back)[i] =
             IF i <= Len(front) THEN front[i] ELSE back[i - Len(front)]
    BY <2>1, ConcatProperties, Zenon
  <2> QED
    BY <1>8, <1>9, <2>2
<1>11. m + Len(back) = n - 1
  BY <1>4, <1>6, <1>9
<1>12. ASSUME NEW i \in 1..n - 1
       PROVE  t[i] = IF i < at THEN s[i] ELSE s[i + 1]
  <2>1. t[i] = IF i <= m THEN front[i] ELSE back[i - m]
    BY <1>10, <1>11, <1>12
  <2>2. CASE i < at
    <3>1. i <= m /\ i \in 1..at - 1
      BY <1>4, <1>9, <2>2
    <3> QED
      BY <1>5, <2>1, <2>2, <3>1
  <2>3. CASE ~(i < at)
    <3>1. ~(i <= m) /\ i - m \in 1..n - at /\ at + (i - m) = i + 1
      BY <1>4, <1>9, <2>3
    <3> QED
      BY <1>6, <2>1, <2>3, <3>1
  <2> QED
    BY <2>2, <2>3
<1> QED
  BY <1>1, <1>7, <1>10, <1>11, <1>12

\* remove_server of an alias that is there.
LEMMA RemoveExact ==
  ASSUME NEW cfg, Config(cfg), NEW a, Has(cfg, a)
  PROVE  /\ Config(remove_server(cfg, a))
         /\ ToSet(remove_server(cfg, a).servers) =
              {s \in ToSet(cfg.servers) : s.alias # a}
         /\ Urls(cfg.servers) => Urls(remove_server(cfg, a).servers)
<1>1. PICK old : /\ old = cfg.servers /\ old \in Seq(AnyServer) /\ Distinct(old)
                 /\ cfg = [defaults |-> cfg.defaults, servers |-> old]
  BY DEF Config
<1>2. PICK n \in Nat : n = Len(old) /\ DOMAIN old = 1..n
  BY <1>1, LenProperties
<1>3. PICK at : at = CHOOSE i \in DOMAIN old : old[i].alias = a
  OBVIOUS
<1>4. at \in 1..n /\ old[at].alias = a
  BY <1>1, <1>2, <1>3 DEF Has
<1>5. PICK left : left = RemoveAt(old, at)
  OBVIOUS
<1>6. PICK new : new = remove_server(cfg, a)
  OBVIOUS
<1>7. new = [defaults |-> cfg.defaults, servers |-> left]
  <2>1. new = [cfg EXCEPT !.servers = left]
    BY <1>1, <1>3, <1>5, <1>6 DEF remove_server
  <2> QED
    BY <1>1, <2>1
<1>8. /\ left \in Seq(AnyServer) /\ Len(left) = n - 1
      /\ \A i \in 1..n - 1 : left[i] = IF i < at THEN old[i] ELSE old[i + 1]
  BY <1>1, <1>2, <1>4, <1>5, RemoveAtProperties
<1>9. DOMAIN left = 1..n - 1
  BY <1>8, LenProperties
<1>10. PICK from \in [1..n - 1 -> (1..n) \ {at}] :
         /\ \A i \in 1..n - 1 : left[i] = old[from[i]]
         /\ \A i, j \in 1..n - 1 : from[i] = from[j] => i = j
         /\ \A k \in (1..n) \ {at} : \E i \in 1..n - 1 : from[i] = k
  <2>1. PICK f : f = [i \in 1..n - 1 |-> IF i < at THEN i ELSE i + 1]
    OBVIOUS
  <2>2. f \in [1..n - 1 -> (1..n) \ {at}]
    BY <1>4, <2>1
  <2>3. \A i \in 1..n - 1 : left[i] = old[f[i]]
    BY <1>8, <2>1
  <2>4. \A i, j \in 1..n - 1 : f[i] = f[j] => i = j
    BY <1>4, <2>1
  <2>5. ASSUME NEW k \in (1..n) \ {at}
        PROVE  \E i \in 1..n - 1 : f[i] = k
    <3>1. CASE k < at
      <4>1. k \in 1..n - 1 /\ f[k] = k
        BY <1>4, <2>1, <3>1
      <4> QED
        BY <4>1
    <3>2. CASE ~(k < at)
      <4>1. k - 1 \in 1..n - 1 /\ f[k - 1] = k
        BY <1>4, <2>1, <3>2
      <4> QED
        BY <4>1
    <3> QED
      BY <3>1, <3>2
  <2> QED
    BY <2>2, <2>3, <2>4, <2>5
<1>11. \A k \in 1..n : old[k].alias = a <=> k = at
  BY <1>1, <1>2, <1>4 DEF Distinct
<1>12. \A i \in 1..n - 1 : from[i] \in 1..n /\ from[i] # at
  BY <1>10
<1>13. Distinct(left)
  <2> SUFFICES ASSUME NEW i \in 1..n - 1, NEW j \in 1..n - 1,
                      left[i].alias = left[j].alias
               PROVE  i = j
    BY <1>9 DEF Distinct
  <2>1. old[from[i]].alias = old[from[j]].alias
    BY <1>10
  <2>2. from[i] = from[j]
    BY <1>1, <1>2, <1>12, <2>1 DEF Distinct
  <2> QED
    BY <1>10, <2>2
<1>14. ToSet(left) = {s \in ToSet(old) : s.alias # a}
  <2>1. ASSUME NEW s \in ToSet(left)
        PROVE  s \in ToSet(old) /\ s.alias # a
    <3>1. PICK i \in 1..n - 1 : s = left[i]
      BY <1>9, <2>1 DEF ToSet
    <3>2. s = old[from[i]] /\ from[i] \in 1..n /\ from[i] # at
      BY <1>10, <1>12, <3>1
    <3> QED
      BY <1>2, <1>11, <3>2 DEF ToSet
  <2>2. ASSUME NEW s \in ToSet(old), s.alias # a
        PROVE  s \in ToSet(left)
    <3>1. PICK k \in 1..n : s = old[k]
      BY <1>2, <2>2 DEF ToSet
    <3>2. PICK i \in 1..n - 1 : from[i] = k
      BY <1>10, <1>11, <2>2, <3>1
    <3>3. s = left[i]
      BY <1>10, <3>1, <3>2
    <3> QED
      BY <1>9, <3>3 DEF ToSet
  <2> QED
    BY <2>1, <2>2
<1>15. Urls(old) => Urls(left)
  <2> SUFFICES ASSUME Urls(old), NEW i \in 1..n - 1 PROVE left[i].url # ""
    BY <1>9 DEF Urls
  <2>1. old[from[i]].url # ""
    BY <1>2, <1>12 DEF Urls
  <2> QED
    BY <1>10, <2>1
<1>16. Config(new)
  <2>1. new.defaults = cfg.defaults /\ new.servers = left
    BY <1>7
  <2>2. cfg.defaults \in [Setting -> Value \union {BadValue}]
    BY DEF Config
  <2> QED
    BY <1>7, <1>8, <1>13, <2>1, <2>2 DEF Config
<1> QED
  BY <1>1, <1>6, <1>7, <1>14, <1>15, <1>16

----------------------------------------------------------------------------
(* The commands.                                                           *)

Changing(p) == op[p].pc \in {"write", "replace"}

\* A list that loads, or has the blank URL.
LoadsOrBlank(doc) ==
  Loads(doc) \/ \E i \in DOMAIN doc.servers : doc.servers[i].url = ""

\* doc is what was asked for, of the servers of base.
IsAsked(doc, base, asked) ==
  \/ Blank(asked)
  \/ Loads(doc) /\ Effective(doc) = Asked(Effective(base), asked)

\* What a command is going to put in place.
Pending(p) ==
  Changing(p) =>
    /\ op[p].next \in Saved /\ LoadsOrBlank(op[p].next)
    /\ IsAsked(op[p].next, op[p].base, op[p].asked)

OpShape ==
  /\ DOMAIN op = Process
  /\ \A p \in Process : op[p] = [pc |-> op[p].pc, asked |-> op[p].asked,
       base |-> op[p].base, next |-> op[p].next, exit |-> op[p].exit]

ListInv ==
  /\ TypeOK /\ OpShape /\ LoadsOrOwners
  /\ \A p \in Process : Pending(p)

LEMMA EditsCount == ASSUME TypeOK PROVE edits \in Nat /\ MaxEdits \in Nat
<1>1. edits \in 0..MaxEdits /\ MaxEdits \in Nat
  BY ServerListAssumption DEF TypeOK, ServerListAssumption
<1> QED
  BY <1>1

\* The file is one load takes apart.
LEMMA FileIsDoc == ASSUME TypeOK PROVE file \in Doc \union {NoFile}
BY SavedIsFile, ServerListAssumption DEF TypeOK, ServerListAssumption

\* The server `add' makes is complete.
LEMMA NewServerType ==
  ASSUME NEW a \in Alias, NEW u \in Url, NEW t \in Token, NEW f \in Flags
  PROVE  /\ NewServer(a, u, t, f) \in AnyServer
         /\ NewServer(a, u, t, f).alias = a /\ NewServer(a, u, t, f).url = u
<1>1. /\ f \in [Setting -> Value \union {Unset}] /\ Unset \notin Value
      /\ BuiltIn \in [Setting -> Value]
  BY ServerListAssumption DEF Flags, ServerListAssumption
<1>2. PICK policy \in Policy : policy = Merge(BuiltIn, f)
  BY <1>1, MergeType DEF Policy
<1>3. NewServer(a, u, t, f) = [alias |-> a, url |-> u, token |-> t, policy |-> policy]
  BY <1>2 DEF NewServer
<1>4. PICK server : server = [alias |-> a, url |-> u, token |-> t, policy |-> policy]
  OBVIOUS
<1>5. /\ server.alias = a /\ server.url = u
      /\ server \in AnyServer
  BY <1>4 DEF AnyServer
<1> QED
  BY <1>3, <1>4, <1>5

\* What `add' is going to write.
LEMMA AddPending ==
  ASSUME TypeOK, Loads(file), NEW server \in AnyServer,
         ~Has(Load(file), server.alias)
  PROVE  /\ Save(add_server(Load(file), server)) \in Saved
         /\ LoadsOrBlank(Save(add_server(Load(file), server)))
         /\ IsAsked(Save(add_server(Load(file), server)), file, <<"add", server>>)
<1>1. PICK cfg : cfg = Load(file)
  OBVIOUS
<1>2. Config(cfg) /\ Urls(cfg.servers)
  BY <1>1, FileIsDoc, LoadType
<1>3. PICK new : new = add_server(cfg, server)
  OBVIOUS
<1>4. /\ Config(new) /\ ToSet(new.servers) = ToSet(cfg.servers) \union {server}
      /\ server.url # "" => Urls(new.servers)
      /\ \E i \in DOMAIN new.servers : new.servers[i] = server
  BY <1>1, <1>2, <1>3, AddExact
<1>5. PICK doc : doc = Save(new)
  OBVIOUS
<1>6. /\ doc \in Saved
      /\ Urls(new.servers) => Loads(doc)
      /\ Effective(doc) = ToSet(new.servers)
      /\ \A i \in DOMAIN new.servers :
           i \in DOMAIN doc.servers /\ doc.servers[i].url = new.servers[i].url
  BY <1>4, <1>5, SaveLoads
<1>7. LoadsOrBlank(doc)
  BY <1>4, <1>6 DEF LoadsOrBlank
<1>8. PICK asked : asked = <<"add", server>>
  OBVIOUS
<1>9. asked[1] = "add" /\ asked[2] = server
  BY <1>8
<1>10. Effective(file) = ToSet(cfg.servers)
  BY <1>1 DEF Effective
<1>11. IsAsked(doc, file, asked)
  BY <1>4, <1>6, <1>9, <1>10 DEF IsAsked, Blank, Asked
<1> QED
  BY <1>1, <1>3, <1>5, <1>6, <1>7, <1>8, <1>11

\* What `remove' is going to write.
LEMMA RemovePending ==
  ASSUME TypeOK, Loads(file), NEW a \in Alias, Has(Load(file), a)
  PROVE  /\ Save(remove_server(Load(file), a)) \in Saved
         /\ LoadsOrBlank(Save(remove_server(Load(file), a)))
         /\ IsAsked(Save(remove_server(Load(file), a)), file, <<"remove", a>>)
<1>1. PICK cfg : cfg = Load(file)
  OBVIOUS
<1>2. Config(cfg) /\ Urls(cfg.servers)
  BY <1>1, FileIsDoc, LoadType
<1>3. PICK new : new = remove_server(cfg, a)
  OBVIOUS
<1>4. /\ Config(new) /\ ToSet(new.servers) = {s \in ToSet(cfg.servers) : s.alias # a}
      /\ Urls(new.servers)
  BY <1>1, <1>2, <1>3, RemoveExact
<1>5. PICK doc : doc = Save(new)
  OBVIOUS
<1>6. doc \in Saved /\ Loads(doc) /\ Effective(doc) = ToSet(new.servers)
  BY <1>4, <1>5, SaveLoads
<1>7. PICK asked : asked = <<"remove", a>>
  OBVIOUS
<1>8. asked[1] = "remove" /\ asked[2] = a
  BY <1>7
<1>9. Effective(file) = ToSet(cfg.servers)
  BY <1>1 DEF Effective
<1>10. IsAsked(doc, file, asked)
  BY <1>4, <1>6, <1>8, <1>9 DEF IsAsked, Asked
<1> QED
  BY <1>1, <1>3, <1>5, <1>6, <1>7, <1>10 DEF LoadsOrBlank

\* Steps that leave the file alone and touch one command only.
LEMMA MoveOp ==
  ASSUME ListInv, NEW p \in Process, UNCHANGED <<file, edits>>,
         NEW o, op' = [op EXCEPT ![p] = o],
         o = [pc |-> o.pc, asked |-> o.asked, base |-> o.base, next |-> o.next,
              exit |-> o.exit],
         o.pc \in {"new", "write", "replace", "done"},
         o.exit \in {"", "0", "1", "2", "read", "failed"},
         o.pc \in {"write", "replace"} =>
           /\ o.next \in Saved /\ LoadsOrBlank(o.next)
           /\ IsAsked(o.next, o.base, o.asked)
  PROVE  ListInv'
<1>1. op'[p] = o /\ DOMAIN op' = Process /\ \A q \in Process \ {p} : op'[q] = op[q]
  BY DEF ListInv, OpShape
<1>2. OpShape'
  BY <1>1 DEF ListInv, OpShape
<1>3. TypeOK'
  <2>1. \A q \in Process :
          /\ op'[q].pc \in {"new", "write", "replace", "done"}
          /\ op'[q].exit \in {"", "0", "1", "2", "read", "failed"}
          /\ op'[q].pc \in {"write", "replace"} => op'[q].next \in Saved
    BY <1>1 DEF ListInv, TypeOK
  <2> QED
    BY <2>1 DEF ListInv, TypeOK
<1>4. ASSUME NEW q \in Process
      PROVE  Pending(q)'
  <2>1. CASE q = p
    BY <1>1, <2>1 DEF Pending, Changing, LoadsOrBlank, IsAsked
  <2>2. CASE q # p
    <3>1. op'[q] = op[q]
      BY <1>1, <2>2
    <3> QED
      BY <3>1 DEF ListInv, Pending, Changing, LoadsOrBlank, IsAsked
  <2> QED
    BY <2>1, <2>2
<1>5. LoadsOrOwners'
  BY DEF ListInv, LoadsOrOwners
<1> QED
  BY <1>2, <1>3, <1>4, <1>5 DEF ListInv

\* The records of commands, written out.
LEMMA DoneRecord ==
  ASSUME NEW exit, NEW w, w = [NewOp EXCEPT !.pc = "done", !.exit = exit]
  PROVE  w = [pc |-> "done", asked |-> <<>>, base |-> NoFile, next |-> NoFile,
              exit |-> exit]
<1>1. PICK e, n : e = <<>> /\ n = NoFile
  OBVIOUS
<1>2. NewOp = [pc |-> "new", asked |-> e, base |-> n, next |-> n, exit |-> ""]
  BY <1>1 DEF NewOp
<1>3. PICK o : o = [NewOp EXCEPT !.pc = "done"]
  OBVIOUS
<1>4. o = [pc |-> "done", asked |-> e, base |-> n, next |-> n, exit |-> ""]
  BY <1>2, <1>3
<1>5. w = [o EXCEPT !.exit = exit]
  BY <1>3
<1>6. w = [pc |-> "done", asked |-> e, base |-> n, next |-> n, exit |-> exit]
  BY <1>4, <1>5
<1> QED
  BY <1>1, <1>6

LEMMA WriteRecord ==
  ASSUME NEW asked, NEW base, NEW next, NEW w,
         w = [NewOp EXCEPT !.pc = "write", !.asked = asked, !.base = base, !.next = next]
  PROVE  w = [pc |-> "write", asked |-> asked, base |-> base, next |-> next,
              exit |-> ""]
<1>1. PICK e, n : e = <<>> /\ n = NoFile
  OBVIOUS
<1>2. NewOp = [pc |-> "new", asked |-> e, base |-> n, next |-> n, exit |-> ""]
  BY <1>1 DEF NewOp
<1>3. PICK o : o = [NewOp EXCEPT !.pc = "write"]
  OBVIOUS
<1>4. o = [pc |-> "write", asked |-> e, base |-> n, next |-> n, exit |-> ""]
  BY <1>2, <1>3
<1>5. PICK o2 : o2 = [o EXCEPT !.asked = asked]
  OBVIOUS
<1>6. o2 = [pc |-> "write", asked |-> asked, base |-> n, next |-> n, exit |-> ""]
  BY <1>4, <1>5
<1>7. PICK o3 : o3 = [o2 EXCEPT !.base = base]
  OBVIOUS
<1>8. o3 = [pc |-> "write", asked |-> asked, base |-> base, next |-> n, exit |-> ""]
  BY <1>6, <1>7
<1>9. w = [o3 EXCEPT !.next = next]
  BY <1>3, <1>5, <1>7
<1> QED
  BY <1>8, <1>9

\* A command that begins to change the list.
LEMMA GoWriteKeeps ==
  ASSUME ListInv, NEW p \in Process, UNCHANGED <<file, edits>>,
         NEW asked, NEW cfg, GoWrite(p, asked, cfg),
         Save(cfg) \in Saved, LoadsOrBlank(Save(cfg)),
         IsAsked(Save(cfg), file, asked)
  PROVE  ListInv'
<1>1. PICK next : next = Save(cfg)
  OBVIOUS
<1>2. PICK o : o = [pc |-> "write", asked |-> asked, base |-> file, next |-> next,
                    exit |-> ""]
  OBVIOUS
<1>3. op' = [op EXCEPT ![p] = o]
  <2>1. PICK base : base = file
    OBVIOUS
  <2>2. PICK w : w = [NewOp EXCEPT !.pc = "write", !.asked = asked, !.base = base,
                                   !.next = next]
    OBVIOUS
  <2>3. w = o
    BY <1>2, <2>1, <2>2, WriteRecord
  <2>4. op' = [op EXCEPT ![p] = w]
    BY <1>1, <2>1, <2>2 DEF GoWrite
  <2> QED
    BY <2>3, <2>4
<1>4. /\ o.pc = "write" /\ o.exit = "" /\ o.next = next /\ o.base = file
      /\ o.asked = asked
      /\ o = [pc |-> o.pc, asked |-> o.asked, base |-> o.base, next |-> o.next,
              exit |-> o.exit]
  BY <1>2
<1> QED
  BY <1>1, <1>3, <1>4, MoveOp

\* A command that ends.
LEMMA ExitKeeps ==
  ASSUME ListInv, NEW p \in Process, UNCHANGED <<file, edits>>,
         NEW code \in {"0", "1", "2", "read", "failed"}, Exit(p, code)
  PROVE  ListInv'
<1>1. PICK o : o = [pc |-> "done", asked |-> <<>>, base |-> NoFile, next |-> NoFile,
                    exit |-> code]
  OBVIOUS
<1>2. op' = [op EXCEPT ![p] = o]
  <2>1. PICK w : w = [NewOp EXCEPT !.pc = "done", !.exit = code]
    OBVIOUS
  <2>2. w = o
    BY <1>1, <2>1, DoneRecord
  <2>3. op' = [op EXCEPT ![p] = w]
    BY <2>1 DEF Exit
  <2> QED
    BY <2>2, <2>3
<1>3. /\ o.pc = "done" /\ o.exit = code
      /\ o = [pc |-> o.pc, asked |-> o.asked, base |-> o.base, next |-> o.next,
              exit |-> o.exit]
  BY <1>1
<1> QED
  BY <1>2, <1>3, MoveOp

LEMMA ListInit == Init => ListInv
<1> SUFFICES ASSUME Init PROVE ListInv
  OBVIOUS
<1>1. \A p \in Process : /\ op[p] = NewOp /\ op[p].pc = "new" /\ op[p].exit = ""
  BY DEF Init, NewOp
<1>2. OpShape
  BY DEF Init, OpShape, NewOp
<1>3. edits \in 0..MaxEdits
  BY ServerListAssumption DEF Init, ServerListAssumption
<1>4. TypeOK
  BY <1>1, <1>3 DEF Init, TypeOK
<1>5. LoadsOrOwners
  BY DEF Init, LoadsOrOwners, Loads
<1> QED
  BY <1>1, <1>2, <1>4, <1>5 DEF ListInv, Pending, Changing

\* os.replace puts in place what is pending.
LEMMA ReplaceKeeps ==
  ASSUME ListInv, NEW p \in Process, Replace(p)
  PROVE  ListInv'
<1>1. op[p].pc = "replace" /\ file' = op[p].next /\ edits' = edits
  BY DEF Replace
<1>2. file' \in Saved /\ LoadsOrBlank(file')
  BY <1>1 DEF ListInv, Pending, Changing
<1>3. PICK o : o = [pc |-> "done", asked |-> <<>>, base |-> NoFile, next |-> NoFile,
                    exit |-> "0"]
  OBVIOUS
<1>4. op' = [op EXCEPT ![p] = o]
  <2>1. PICK w : w = [NewOp EXCEPT !.pc = "done", !.exit = "0"]
    OBVIOUS
  <2>2. w = o
    BY <1>3, <2>1, DoneRecord
  <2>3. op' = [op EXCEPT ![p] = w]
    BY <2>1 DEF Replace, Exit
  <2> QED
    BY <2>2, <2>3
<1>5. op'[p] = o /\ DOMAIN op' = Process /\ \A q \in Process \ {p} : op'[q] = op[q]
  BY <1>4 DEF ListInv, OpShape
<1>6. o.pc = "done" /\ o.exit = "0"
      /\ o = [pc |-> o.pc, asked |-> o.asked, base |-> o.base, next |-> o.next,
              exit |-> o.exit]
  BY <1>3
<1>7. OpShape'
  BY <1>5, <1>6 DEF ListInv, OpShape
<1>8. TypeOK'
  <2>1. \A q \in Process :
          /\ op'[q].pc \in {"new", "write", "replace", "done"}
          /\ op'[q].exit \in {"", "0", "1", "2", "read", "failed"}
          /\ op'[q].pc \in {"write", "replace"} => op'[q].next \in Saved
    BY <1>5, <1>6 DEF ListInv, TypeOK
  <2> QED
    BY <1>1, <1>2, <2>1 DEF ListInv, TypeOK
<1>9. ASSUME NEW q \in Process
      PROVE  Pending(q)'
  <2>1. CASE q = p
    BY <1>5, <1>6, <2>1 DEF Pending, Changing
  <2>2. CASE q # p
    <3>1. op'[q] = op[q]
      BY <1>5, <2>2
    <3> QED
      BY <3>1 DEF ListInv, Pending, Changing, LoadsOrBlank, IsAsked
  <2> QED
    BY <2>1, <2>2
<1>10. LoadsOrOwners'
  BY <1>2 DEF LoadsOrOwners, LoadsOrBlank
<1> QED
  BY <1>7, <1>8, <1>9, <1>10 DEF ListInv

\* The owner writes a list of theirs.
LEMMA EditKeeps ==
  ASSUME ListInv, NEW doc \in OwnerDocs, Edit(doc)
  PROVE  ListInv'
<1>1. file' = doc /\ edits' = edits + 1 /\ edits < MaxEdits /\ op' = op
  BY DEF Edit
<1>2. edits' \in 0..MaxEdits
  BY <1>1, EditsCount DEF ListInv
<1>3. TypeOK' /\ OpShape'
  BY <1>1, <1>2 DEF ListInv, TypeOK, OpShape
<1>4. \A p \in Process : Pending(p)'
  BY <1>1 DEF ListInv, Pending, Changing, LoadsOrBlank, IsAsked
<1>5. LoadsOrOwners'
  BY <1>1 DEF LoadsOrOwners
<1> QED
  BY <1>3, <1>4, <1>5 DEF ListInv

LEMMA ListStep == ListInv /\ [Next]_vars => ListInv'
<1> SUFFICES ASSUME ListInv, [Next]_vars PROVE ListInv'
  OBVIOUS
<1>0. TypeOK
  BY DEF ListInv
<1>1. ASSUME NEW p \in Process, NEW a \in Alias \union {BadAlias}, NEW u \in Url,
             NEW t \in Token, NEW f \in Flags, AddServer(p, a, u, t, f)
      PROVE  ListInv'
  <2>1. PICK server : server = NewServer(a, u, t, f)
    OBVIOUS
  <2>2. UNCHANGED <<file, edits>>
    BY <1>1 DEF AddServer
  <2>3. CASE ~Loads(file) \/ a = BadAlias \/ Has(Load(file), a)
    <3>1. Exit(p, "2")
      BY <1>1, <2>3 DEF AddServer
    <3> QED
      BY <2>2, <3>1, ExitKeeps
  <2>4. CASE ~(~Loads(file) \/ a = BadAlias \/ Has(Load(file), a))
    <3>1. GoWrite(p, <<"add", server>>, add_server(Load(file), server))
      BY <1>1, <2>1, <2>4 DEF AddServer
    <3>2. server \in AnyServer /\ server.alias = a
      BY <2>1, <2>4, NewServerType
    <3>3. /\ Save(add_server(Load(file), server)) \in Saved
          /\ LoadsOrBlank(Save(add_server(Load(file), server)))
          /\ IsAsked(Save(add_server(Load(file), server)), file, <<"add", server>>)
      BY <1>0, <2>4, <3>2, AddPending
    <3> QED
      BY <2>2, <3>1, <3>3, GoWriteKeeps
  <2> QED
    BY <2>3, <2>4
<1>2. ASSUME NEW p \in Process, NEW a \in Alias, RemoveServer(p, a)
      PROVE  ListInv'
  <2>1. UNCHANGED <<file, edits>>
    BY <1>2 DEF RemoveServer
  <2>2. CASE ~Loads(file)
    <3>1. Exit(p, "2")
      BY <1>2, <2>2 DEF RemoveServer
    <3> QED
      BY <2>1, <3>1, ExitKeeps
  <2>3. CASE Loads(file) /\ ~Has(Load(file), a)
    <3>1. Exit(p, "1")
      BY <1>2, <2>3 DEF RemoveServer
    <3> QED
      BY <2>1, <3>1, ExitKeeps
  <2>4. CASE Loads(file) /\ Has(Load(file), a)
    <3>1. GoWrite(p, <<"remove", a>>, remove_server(Load(file), a))
      BY <1>2, <2>4 DEF RemoveServer
    <3>2. /\ Save(remove_server(Load(file), a)) \in Saved
          /\ LoadsOrBlank(Save(remove_server(Load(file), a)))
          /\ IsAsked(Save(remove_server(Load(file), a)), file, <<"remove", a>>)
      BY <1>0, <2>4, RemovePending
    <3> QED
      BY <2>1, <3>1, <3>2, GoWriteKeeps
  <2> QED
    BY <2>2, <2>3, <2>4
<1>3. ASSUME NEW p \in Process, Read(p)
      PROVE  ListInv'
  <2>1. UNCHANGED <<file, edits>> /\ (Exit(p, "read") \/ Exit(p, "2"))
    BY <1>3 DEF Read
  <2> QED
    BY <2>1, ExitKeeps
<1>4. ASSUME NEW p \in Process, WriteTemp(p)
      PROVE  ListInv'
  <2>1. PICK o : o = [op[p] EXCEPT !.pc = "replace"]
    OBVIOUS
  <2>2. op' = [op EXCEPT ![p] = o] /\ UNCHANGED <<file, edits>> /\ op[p].pc = "write"
    BY <1>4, <2>1 DEF WriteTemp
  <2>3. o = [pc |-> "replace", asked |-> op[p].asked, base |-> op[p].base,
             next |-> op[p].next, exit |-> op[p].exit]
    BY <2>1 DEF ListInv, OpShape
  <2>4. /\ o.pc = "replace" /\ o.asked = op[p].asked /\ o.base = op[p].base
        /\ o.next = op[p].next /\ o.exit = op[p].exit
        /\ o = [pc |-> o.pc, asked |-> o.asked, base |-> o.base, next |-> o.next,
                exit |-> o.exit]
    BY <2>3
  <2>5. /\ op[p].next \in Saved /\ LoadsOrBlank(op[p].next)
        /\ IsAsked(op[p].next, op[p].base, op[p].asked)
    BY <2>2 DEF ListInv, Pending, Changing
  <2>6. o.exit \in {"", "0", "1", "2", "read", "failed"}
    BY <1>0, <2>4 DEF TypeOK
  <2> QED
    BY <2>2, <2>4, <2>5, <2>6, MoveOp
<1>5. ASSUME NEW p \in Process, Fails(p)
      PROVE  ListInv'
  BY <1>5, ExitKeeps DEF Fails
<1>6. CASE UNCHANGED vars
  <2>1. TypeOK' /\ OpShape' /\ LoadsOrOwners'
    BY <1>6 DEF vars, ListInv, TypeOK, OpShape, LoadsOrOwners
  <2>2. \A p \in Process : Pending(p)'
    BY <1>6 DEF vars, ListInv, Pending, Changing, LoadsOrBlank, IsAsked
  <2> QED
    BY <2>1, <2>2 DEF ListInv
<1> QED
  BY <1>1, <1>2, <1>3, <1>4, <1>5, <1>6, ReplaceKeeps, EditKeeps DEF Next

LEMMA ListInvariant == Spec => []ListInv
BY ListInit, ListStep, PTL DEF Spec

----------------------------------------------------------------------------
(* The theorems.                                                           *)

\* The file is always a list save wrote, one of its owner's, or missing.
THEOREM ListTypeCorrect == Spec => []TypeOK
<1>1. ListInv => TypeOK
  BY DEF ListInv
<1> QED
  BY <1>1, ListInvariant, PTL

\* save, add, remove: no number of commands, failing and overtaking each other
\* in whatever order, leaves a list that load refuses, but for the blank URL
\* that `add' does not look at.
THEOREM ListStaysLoadable == Spec => []LoadsOrOwners
<1>1. ListInv => LoadsOrOwners
  BY DEF ListInv
<1> QED
  BY <1>1, ListInvariant, PTL

\* A command that changes the file leaves the servers it read, in effect, with
\* the one it was asked to add or remove, however many there are and whatever
\* the defaults say of them; nothing else but an edit changes the file.
THEOREM UpdatesStayExact == Spec => UpdatesAreExact
<1>1. ListInv /\ [Next]_vars =>
        [file' # file =>
           \/ edits' # edits
           \/ \E p \in Process :
                /\ op[p].pc = "replace" /\ op'[p].exit = "0"
                /\ Blank(op[p].asked) \/
                     /\ Loads(file')
                     /\ Effective(file') = Asked(Effective(op[p].base), op[p].asked)
        ]_vars
  <2> SUFFICES ASSUME ListInv, Next, file' # file
               PROVE  \/ edits' # edits
                      \/ \E p \in Process :
                           /\ op[p].pc = "replace" /\ op'[p].exit = "0"
                           /\ Blank(op[p].asked) \/
                                /\ Loads(file')
                                /\ Effective(file') =
                                     Asked(Effective(op[p].base), op[p].asked)
    OBVIOUS
  <2>1. ASSUME NEW doc \in OwnerDocs, Edit(doc)
        PROVE  edits' # edits
    <3>1. edits \in Nat /\ edits' = edits + 1
      BY <2>1, EditsCount DEF Edit, ListInv
    <3> QED
      BY <3>1
  <2>2. ASSUME NEW p \in Process, Replace(p)
        PROVE  /\ op[p].pc = "replace" /\ op'[p].exit = "0"
               /\ IsAsked(file', op[p].base, op[p].asked)
    <3>1. op[p].pc = "replace" /\ file' = op[p].next
      BY <2>2 DEF Replace
    <3>2. op'[p] = [NewOp EXCEPT !.pc = "done", !.exit = "0"]
      BY <2>2 DEF Replace, Exit, ListInv, OpShape
    <3>3. op'[p].exit = "0"
      BY <3>2 DEF NewOp
    <3>4. IsAsked(op[p].next, op[p].base, op[p].asked)
      BY <3>1 DEF ListInv, Pending, Changing
    <3> QED
      BY <3>1, <3>3, <3>4
  <2>3. \/ \E doc \in OwnerDocs : Edit(doc)
        \/ \E p \in Process : Replace(p)
    BY DEF Next, AddServer, RemoveServer, Read, WriteTemp, Fails
  <2> QED
    BY <2>1, <2>2, <2>3 DEF IsAsked
<1> QED
  BY <1>1, ListInvariant, PTL DEF Spec, UpdatesAreExact
===============================================================================
