--------------------------------- MODULE Blogs ---------------------------------
(***************************************************************************)
(* The blog of the administrators (be, modules/blogs): posts, their        *)
(* addresses and the images their articles and covers show.                *)
(*                                                                         *)
(* create and update are transactions at READ COMMITTED, taken apart into  *)
(* their statements: a read sees what is committed, a write waits for the  *)
(* rows another transaction has written and then sees the newer rows.      *)
(* repository.save() reads the row again and writes only the columns that  *)
(* differ; it inserts the row if it is gone.                               *)
(***************************************************************************)
EXTENDS Naturals

CONSTANTS
    BlogAdmins,     \* administrators saving a post
    PostIds,        \* identifiers of blog_posts
    ImageIds,       \* identifiers of blog_images
    Slugs           \* addresses

VARIABLES
    posts,      \* blog_posts
    images,     \* blog_images
    edits       \* create and update transactions in flight

blogVars == <<posts, images, edits>>

Blank == "blank"
Reserved == "post"

ASSUME BlogsAssumption == Blank \notin PostIds

(* shows: the images of the article and the cover.                         *)
PostRows == [slug : Slugs, shows : SUBSET ImageIds]
Unborn == [state |-> "unborn"]
Gone == [state |-> "gone"]
IsLive(p) == posts[p] \notin {Unborn, Gone}

(* stale: uploaded more than 24 hours ago.                                 *)
ImageRows == [owner : PostIds \cup {Blank}, stale : BOOLEAN]
IsStored(x) == images[x] \notin {Unborn, Gone}

(* An update without a slug keeps the one the post has; a post without one *)
(* is given one that is derived from its title.                            *)
PostInputs == [slug : Slugs \cup {Reserved, Blank}, shows : SUBSET ImageIds]

IdleEdit == [pc |-> "idle"]
PostColumns == {"slug", "shows"}
Edits ==
    [pc : {"loaded", "row", "written", "chosen", "pruned", "adopted"},
     post : PostIds, row : PostRows, insert : BOOLEAN, changed : SUBSET PostColumns,
     pruned : SUBSET ImageIds, adopted : SUBSET ImageIds]

BlogsTypeOK ==
    /\ posts \in [PostIds -> PostRows \cup {Unborn, Gone}]
    /\ images \in [ImageIds -> ImageRows \cup {Unborn, Gone}]
    /\ edits \in [BlogAdmins -> Edits \cup {IdleEdit}]

BlogsInit ==
    /\ posts = [p \in PostIds |-> Unborn]
    /\ images = [x \in ImageIds |-> Unborn]
    /\ edits = [e \in BlogAdmins |-> IdleEdit]

Begin(e, p, row, pc, insert, changed) ==
    edits' = [edits EXCEPT ![e] =
        [pc |-> pc, post |-> p, row |-> row, insert |-> insert, changed |-> changed,
         pruned |-> {}, adopted |-> {}]]

-----------------------------------------------------------------------------
(* Row locks of the transactions in flight.                                *)

Wrote(e) == edits[e].pc \in {"written", "chosen", "pruned", "adopted"}

(* Adopting an image locks the post against its deletion.                  *)
HoldsPost(e, p) ==
    /\ Wrote(e) /\ edits[e].post = p
    /\ edits[e].changed # {} \/ edits[e].adopted # {}

HoldsImage(e, x) == Wrote(e) /\ x \in edits[e].pruned \cup edits[e].adopted

ImagesFree(e, X) == \A f \in BlogAdmins \ {e} : \A x \in X : ~HoldsImage(f, x)

-----------------------------------------------------------------------------
(* create() and update().                                                  *)

InUse(slug, but) == \E q \in PostIds \ but : IsLive(q) /\ posts[q].slug = slug

(* createCustomSlug and createUniqueSlug.                                  *)
FreeSlugs(slug, but) ==
    {s \in Slugs : ~InUse(s, but) /\ (slug = Blank \/ s = slug)}

CreatePost(e, p, input) ==
    /\ edits[e] = IdleEdit
    /\ posts[p] = Unborn
    /\ \A f \in BlogAdmins \ {e} : edits[f] # IdleEdit => edits[f].post # p
    /\ \E slug \in FreeSlugs(input.slug, {}) :
           Begin(e, p, [slug |-> slug, shows |-> input.shows], "row", TRUE, PostColumns)
    /\ UNCHANGED <<posts, images>>

UpdatePost(e, p, input) ==
    LET slugs == IF input.slug = Blank THEN {posts[p].slug}
                 ELSE FreeSlugs(input.slug, {p})
    IN
    /\ edits[e] = IdleEdit
    /\ IsLive(p)
    /\ \E slug \in slugs :
           Begin(e, p, [slug |-> slug, shows |-> input.shows], "loaded", FALSE, {})
    /\ UNCHANGED <<posts, images>>

(* save() reads the row of the post again.                                 *)
CompareRow(e) ==
    LET p == edits[e].post
        row == edits[e].row
    IN
    /\ edits[e].pc = "loaded"
    /\ edits' = [edits EXCEPT ![e].pc = "row",
           ![e].insert = ~IsLive(p),
           ![e].changed = IF IsLive(p) THEN {c \in PostColumns : posts[p][c] # row[c]}
                          ELSE PostColumns]
    /\ UNCHANGED <<posts, images>>

(* Faulty: the slug is indexed, but not uniquely.                          *)
MutantWriteRow(e) ==
    LET p == edits[e].post IN
    /\ edits[e].pc = "row"
    /\ edits[e].changed # {} => \A f \in BlogAdmins \ {e} : ~HoldsPost(f, p)
    /\ edits' = [edits EXCEPT ![e].pc = "written"]
    /\ UNCHANGED <<posts, images>>

(* The INSERT or UPDATE, which the unique index over slug may refuse.      *)
WriteRow(e) ==
    LET p == edits[e].post
        others == BlogAdmins \ {e}
    IN
    /\ edits[e].pc = "row"
    /\ edits[e].changed # {} => \A f \in others : ~HoldsPost(f, p)
    /\ "slug" \in edits[e].changed =>
           /\ ~InUse(edits[e].row.slug, {p})
           /\ \A f \in others :
                  Wrote(f) /\ "slug" \in edits[f].changed
                  => edits[f].row.slug # edits[e].row.slug
    /\ edits' = [edits EXCEPT ![e].pc = "written"]
    /\ UNCHANGED <<posts, images>>

(* syncImages: every image is there and belongs to no other post.          *)
ChooseImages(e) ==
    /\ edits[e].pc = "written"
    /\ \A x \in edits[e].row.shows :
           IsStored(x) /\ images[x].owner \in {edits[e].post, Blank}
    /\ edits' = [edits EXCEPT ![e].pc = "chosen"]
    /\ UNCHANGED <<posts, images>>

PruneImages(e) ==
    LET p == edits[e].post
        unused == {x \in ImageIds : IsStored(x) /\ images[x].owner = p}
                  \ edits[e].row.shows
    IN
    /\ edits[e].pc = "chosen"
    /\ ImagesFree(e, unused)
    /\ edits' = [edits EXCEPT ![e].pc = "pruned", ![e].pruned = unused]
    /\ UNCHANGED <<posts, images>>

(* The update finds the images that are still there; the foreign key asks  *)
(* for the post if it finds any.                                           *)
AdoptImages(e) ==
    LET found == {x \in edits[e].row.shows : IsStored(x)} IN
    /\ edits[e].pc = "pruned"
    /\ ImagesFree(e, found)
    /\ found # {} => edits[e].insert \/ IsLive(edits[e].post)
    /\ edits' = [edits EXCEPT ![e].pc = "adopted", ![e].adopted = found]
    /\ UNCHANGED <<posts, images>>

(* An update of a row that was deleted meanwhile changes no row.           *)
CommitEdit(e) ==
    LET t == edits[e]
        p == t.post
    IN
    /\ t.pc = "adopted"
    /\ posts' =
           IF t.insert THEN [posts EXCEPT ![p] = t.row]
           ELSE IF IsLive(p)
           THEN [posts EXCEPT ![p] =
                    [slug |-> IF "slug" \in t.changed THEN t.row.slug ELSE @.slug,
                     shows |-> IF "shows" \in t.changed THEN t.row.shows ELSE @.shows]]
           ELSE posts
    /\ images' = [x \in ImageIds |->
           IF x \in t.pruned THEN Gone
           ELSE IF x \in t.adopted THEN [images[x] EXCEPT !.owner = p]
           ELSE images[x]]
    /\ edits' = [edits EXCEPT ![e] = IdleEdit]

(* A check refuses, a lock times out or the server stops: rolled back.     *)
RollBackEdit(e) ==
    /\ edits[e] # IdleEdit
    /\ edits' = [edits EXCEPT ![e] = IdleEdit]
    /\ UNCHANGED <<posts, images>>

-----------------------------------------------------------------------------
(* One statement each.                                                     *)

ImagesOf(p) == {x \in ImageIds : IsStored(x) /\ images[x].owner = p}

(* The foreign key of the images cascades.                                 *)
DeletePost(p) ==
    /\ IsLive(p)
    /\ \A e \in BlogAdmins :
           ~HoldsPost(e, p) /\ \A x \in ImagesOf(p) : ~HoldsImage(e, x)
    /\ posts' = [posts EXCEPT ![p] = Gone]
    /\ images' = [x \in ImageIds |-> IF x \in ImagesOf(p) THEN Gone ELSE images[x]]
    /\ UNCHANGED edits

(* Faulty: the cleanup does not ask whether an image is used.              *)
MutantUploadImage(new) ==
    LET unused == {y \in ImageIds : IsStored(y) /\ images[y].stale} IN
    /\ \A x \in new : images[x] = Unborn
    /\ images' = [y \in ImageIds |->
           IF y \in new THEN [owner |-> Blank, stale |-> FALSE]
           ELSE IF y \in unused THEN Gone ELSE images[y]]
    /\ UNCHANGED <<posts, edits>>

(* An upload first deletes the images nobody used for 24 hours; new is     *)
(* empty if storing the image fails.                                       *)
UploadImage(new) ==
    LET unused == {y \in ImagesOf(Blank) : images[y].stale} IN
    /\ \A x \in new : images[x] = Unborn
    /\ \A e \in BlogAdmins : \A y \in unused : ~HoldsImage(e, y)
    /\ images' = [y \in ImageIds |->
           IF y \in new THEN [owner |-> Blank, stale |-> FALSE]
           ELSE IF y \in unused THEN Gone ELSE images[y]]
    /\ UNCHANGED <<posts, edits>>

PassADay(x) ==
    /\ IsStored(x) /\ ~images[x].stale
    /\ images' = [images EXCEPT ![x].stale = TRUE]
    /\ UNCHANGED <<posts, edits>>

EditStep(e) ==
    \/ \E p \in PostIds, input \in PostInputs :
           CreatePost(e, p, input) \/ UpdatePost(e, p, input)
    \/ CompareRow(e)
    \/ WriteRow(e)
    \/ ChooseImages(e)
    \/ PruneImages(e)
    \/ AdoptImages(e)
    \/ CommitEdit(e)
    \/ RollBackEdit(e)

BlogsNext ==
    \/ \E e \in BlogAdmins : EditStep(e)
    \/ \E p \in PostIds : DeletePost(p)
    \/ UploadImage({})
    \/ \E x \in ImageIds : UploadImage({x}) \/ PassADay(x)

BlogsSpec == BlogsInit /\ [][BlogsNext]_blogVars

-----------------------------------------------------------------------------
(* Properties.                                                             *)

(* No two posts share an address, though the address is probed before the  *)
(* row is written and another save may commit in between.                  *)
AddressesDistinct ==
    \A p, q \in PostIds :
        IsLive(p) /\ IsLive(q) /\ p # q => posts[p].slug # posts[q].slug

(* An image of a post leaves the database only with the post, or because a *)
(* save of that very post commits and does not show it: neither the        *)
(* cleanup nor the save of another post takes it, whatever they read of it *)
(* before it got its owner.                                                *)
ImagesLeaveByOwner ==
    [][\A p \in PostIds : \A x \in ImagesOf(p) :
         images'[x] = Gone =>
             \/ posts'[p] = Gone
             \/ \E e \in BlogAdmins :
                    /\ edits[e].pc = "adopted" /\ edits'[e] = IdleEdit
                    /\ edits[e].post = p /\ x \notin edits[e].row.shows]_blogVars
=============================================================================
