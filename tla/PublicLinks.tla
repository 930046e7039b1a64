----------------------------- MODULE PublicLinks -----------------------------
(***************************************************************************)
(* What the web page does with a public link before, or instead of, a      *)
(* download: browse_folder lists a folder (routes_folder.py, MegaAPI.get_  *)
(* folder_nodes, features/folder_tree.py), and stream_video serves a range *)
(* of a file to a player (streaming/video_proxy.py).  Each request is one  *)
(* action, for nothing is shared with another.                             *)
(***************************************************************************)
EXTENDS Integers, Sequences, FiniteSets

CONSTANTS
    Handle,             \* nodes of a folder
    Outside,            \* model value: the owner's side of the shared folder
    Blank,              \* model value: a number left out of a Range header
    VideoSizes,         \* bytes of a file
    RangeNumbers,       \* numbers in a Range header
    CHUNK_READ_SIZE

AesBlock == 16

ASSUME LinksAssumption ==
    /\ IsFiniteSet(Handle) /\ Outside \notin Handle
    /\ VideoSizes \subseteq Nat /\ RangeNumbers \subseteq Nat /\ Blank \notin Nat
    /\ CHUNK_READ_SIZE \in Nat /\ CHUNK_READ_SIZE >= AesBlock

VARIABLES link, response
linkVars == <<link, response>>

NoResponse == [status |-> 0]

\* A folder as MEGA sends it: a tree of nodes under the shared folder, some of
\* which no key segment opens (another share's, or a damaged attribute).
IsShare(parent, folders) ==
    \E wrapper \in folders :
      /\ \A h \in Handle : parent[h] = Outside <=> h = wrapper
      /\ \E depth \in [Handle -> 1..Cardinality(Handle)] :
           \A h \in Handle \ {wrapper} : parent[h] \in folders /\ depth[parent[h]] < depth[h]

Folder == {l \in [kind : {"folder"}, parent : [Handle -> Handle \cup {Outside}],
                  folders : SUBSET Handle, readable : SUBSET Handle] :
             IsShare(l.parent, l.folders)}
File == [kind : {"file"}, size : VideoSizes]

LinkInit == link \in Folder \cup File /\ response = NoResponse

-----------------------------------------------------------------------------
(* browse_folder.                                                           *)

\* get_folder_nodes keeps the nodes one of whose segments yields a name: a dict
\* of nodes by handle, each with its parent.
get_folder_nodes == [h \in link.readable |-> link.parent[h]]

Children(nodes, h) == {c \in DOMAIN nodes : nodes[c] = h}

\* Nested: of each node, the set of those in it.
build(nodes) ==
    LET below[h \in DOMAIN nodes] ==
          {[handle |-> c, children |-> below[c]] : c \in Children(nodes, h)}
    IN  below

\* Faulty variant: the roots are known by the owner's handle.
TopOfShare(nodes) == {h \in DOMAIN nodes : nodes[h] = Outside}
Roots(nodes) == {h \in DOMAIN nodes : nodes[h] \notin DOMAIN nodes}

build_tree(nodes) ==
    LET roots == Roots(nodes) IN
    IF Cardinality(roots) = 1
    THEN build(nodes)[CHOOSE h \in roots : TRUE]
    ELSE {[handle |-> h, children |-> build(nodes)[h]] : h \in roots}

Browse ==
    /\ response = NoResponse
    /\ response' = IF link.kind = "folder"
                   THEN [status |-> 200, tree |-> build_tree(get_folder_nodes)]
                   ELSE [status |-> 400]
    /\ UNCHANGED link

-----------------------------------------------------------------------------
(* stream_video.                                                            *)

Least(a, b) == IF a < b THEN a ELSE b

Header == [ranged : {FALSE}, start : {Blank}, end : {Blank}]
          \cup [ranged : {TRUE}, start : RangeNumbers \cup {Blank}, end : RangeNumbers \cup {Blank}]

_parse_range(header, size) ==
    [start |-> IF header.start = Blank THEN 0 ELSE header.start,
     end |-> IF header.end = Blank THEN size - 1 ELSE Least(header.end, size - 1)]

AlignedStart(start) == (start \div AesBlock) * AesBlock

\* The decrypted bytes of aligned..end, each with its place in the file and
\* the place in the keystream it was decrypted with.
Plain(aligned, end) ==
    [i \in 1..(end - aligned + 1) |->
        [byte |-> aligned + i - 1, key |-> (aligned \div AesBlock) * AesBlock + i - 1]]

\* Faulty variant: every block that is read loses its first bytes.
DiscardEach(plain, discard) ==
    LET blocks == (Len(plain) + CHUNK_READ_SIZE - 1) \div CHUNK_READ_SIZE
        kept == {i \in 1..Len(plain) : (i - 1) % CHUNK_READ_SIZE >= discard}
    IN  [i \in 1..Cardinality(kept) |-> plain[CHOOSE k \in kept : Cardinality({j \in kept : j < k}) = i - 1]]
\* The leading bytes are taken off the first block only, however short it is.
Discard(plain, discard) ==
    SubSeq(plain, 1 + Least(discard, CHUNK_READ_SIZE), Len(plain))

StreamVideo ==
    /\ link.kind = "file" /\ response = NoResponse
    /\ \E header \in Header :
         LET range == _parse_range(header, link.size)
             aligned == AlignedStart(range.start) IN
         response' =
           IF range.start > range.end \/ range.end >= link.size
           THEN [status |-> 416, header |-> header]
           ELSE [status |-> IF header.ranged THEN 206 ELSE 200, header |-> header,
                 content_length |-> range.end - range.start + 1,
                 body |-> Discard(Plain(aligned, range.end), range.start - aligned)]
    /\ UNCHANGED link

LinkNext == Browse \/ StreamVideo
LinkSpec == LinkInit /\ [][LinkNext]_linkVars

-----------------------------------------------------------------------------
(* Properties.                                                              *)

\* The nodes above a node, from the top down to it.
Chain(nodes) ==
    LET chain[h \in DOMAIN nodes] ==
          IF nodes[h] \in DOMAIN nodes THEN Append(chain[nodes[h]], h) ELSE <<h>>
    IN  chain

\* The nodes at each depth of a tree, each with the path that leads to it.
Levels(tree) ==
    LET level[k \in 0..Cardinality(Handle)] ==
          IF k = 0
          THEN {[path |-> <<n.handle>>, node |-> n] : n \in tree}
          ELSE UNION {{[path |-> Append(up.path, n.handle), node |-> n] : n \in up.node.children} :
                        up \in level[k - 1]}
    IN  level

Paths(tree) ==
    {at.path : at \in UNION {Levels(tree)[k] : k \in 0..Cardinality(Handle)}}

\* The tree shows every readable node, and shows it where its folder is: those
\* under a node that cannot be read move to the top, and only the shared
\* folder's own node is left out.  A lone node under an unreadable shared
\* folder is taken for the shared folder (folder_tree.py:61-67).
TreeComplete ==
    link.kind = "folder" /\ response.status = 200 =>
      LET chain == Chain(get_folder_nodes)
          top == Roots(get_folder_nodes) IN
      IF Cardinality(top) # 1
      THEN Paths(response.tree) = {chain[h] : h \in link.readable}
      ELSE \E wrapper \in top :
             Paths(response.tree) = {Tail(chain[h]) : h \in link.readable \ {wrapper}}

\* A range that names its first byte is answered with the bytes from there to
\* its end or the end of the file, as many as Content-Length promises, each
\* decrypted with its own byte of the keystream; or with 416 if the file has
\* none (video_proxy.py:84-108).
RangeServed ==
    link.kind = "file" /\ response.status \in {200, 206, 416} =>
      LET header == response.header
          start == IF header.ranged THEN header.start ELSE 0
          end == IF header.end = Blank THEN link.size - 1 ELSE Least(header.end, link.size - 1) IN
      start # Blank =>
        IF start > end
        THEN response.status = 416
        ELSE /\ response.content_length = end - start + 1
             /\ response.body = [i \in 1..(end - start + 1) |->
                                   [byte |-> start + i - 1, key |-> start + i - 1]]
=============================================================================
