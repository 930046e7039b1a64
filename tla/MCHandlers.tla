----------------------------- MODULE MCHandlers -----------------------------
(* Chunks, PublicLinks, AccountStore and Subscribers for TLC.  They share    *)
(* nothing, so that a behaviour is one of any of them, the part it takes.    *)
EXTENDS Chunks, PublicLinks, AccountStore, Subscribers

VARIABLE part

NoFile ==
    /\ file_size = 0 /\ existing = 0 /\ size_multi = [s \in Side |-> 1]
    /\ chunks = [s \in Side |-> <<>>] /\ exhausted = [s \in Side |-> TRUE]
    /\ resume_bytes = 0 /\ resume_chunks = 0
NoLink == link = [kind |-> "none"] /\ response = [status |-> 200]

EachInit ==
    /\ part \in {"chunks", "links", "accounts", "tabs"}
    /\ IF part = "chunks" THEN Init ELSE NoFile
    /\ IF part = "links" THEN LinkInit ELSE NoLink
    /\ StoreInit /\ (part # "accounts" => serial)
    /\ TabInit
EachNext ==
    /\ \/ part = "chunks" /\ Next /\ UNCHANGED <<linkVars, storeVars, tabVars>>
       \/ part = "links" /\ LinkNext /\ UNCHANGED <<vars, storeVars, tabVars>>
       \/ part = "accounts" /\ StoreNext /\ UNCHANGED <<vars, linkVars, tabVars>>
       \/ part = "tabs" /\ TabNext /\ UNCHANGED <<vars, linkVars, storeVars>>
    /\ UNCHANGED part
EachSpec == EachInit /\ [][EachNext]_<<part, vars, linkVars, storeVars, tabVars>>
=============================================================================
