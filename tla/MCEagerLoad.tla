----------------------------- MODULE MCEagerLoad -----------------------------
(***************************************************************************)
(* An instance of EagerLoad for TLC: posts with comments, an editor and a  *)
(* cover, tags through a join table and reactions through comments; the    *)
(* images and tags are polymorphic.                                        *)
(***************************************************************************)
EXTENDS EagerLoad

Of(table, live, col) == [table |-> table, live |-> live, col |-> col]

Post(id)    == Of("posts", TRUE, [id |-> id, editor_id |-> 1])
User(id)    == Of("users", TRUE, [id |-> id])
Tag(id)     == Of("tags", TRUE, [id |-> id])
Tagged(id, tag, owner, type) ==
    Of("taggables", TRUE, [id |-> id, tag_id |-> tag, taggable_id |-> owner,
                           taggable_type |-> type])
Comment(id, post, user) ==
    Of("comments", TRUE, [id |-> id, post_id |-> post, user_id |-> user])
Reaction(id, comment) ==
    Of("reactions", TRUE, [id |-> id, comment_id |-> comment])
Image(id, owner, type) ==
    Of("images", TRUE, [id |-> id, owner_id |-> owner, owner_type |-> type])
Trashed(row) == [row EXCEPT !.live = FALSE]

\* Post 1 has two comments and two tags, post 2 shares one tag, the other is of
\* a video with its id; image 2 is of a user with post 1's id, image 3 of a type
\* without a model.
Blog == {Post(1), Post(2), User(1), User(2), Comment(1, 1, 1), Comment(2, 1, 2),
         Tag(1), Tag(2), Tagged(1, 1, 1, "posts"), Tagged(2, 2, 1, "posts"),
         Tagged(3, 1, 2, "posts"), Tagged(4, 2, 2, "videos"),
         Reaction(1, 1), Reaction(2, 2),
         Image(1, 1, "posts"), Image(2, 1, "users"), Image(3, 1, "videos")}

\* In another, post 2 has a comment, and some rows are trashed.
Moved == (Blog \ {Comment(2, 1, 2), Tag(2)})
            \cup {Comment(2, 2, 1), Trashed(Tag(2)), Trashed(Comment(3, 1, 1))}

Others == {Trashed(User(1)), Comment(1, 2, 1), Trashed(Comment(2, 1, 2)),
           Trashed(Tag(1)), Tagged(3, 2, 2, "posts"), Reaction(2, 1),
           Image(1, 2, "posts"), Image(1, 1, "users")}

AllVersions == Blog \cup Moved \cup Others
TwoStores   == {Blog, Moved}

All == AllVersions
OfType(type) ==
    {r \in AllVersions :
        \/ r.table = "images" /\ r.col.owner_type = type
        \/ r.table = "taggables" /\ r.col.taggable_type = type}

Direct(kind, table, foreign, local, typed) ==
    [kind |-> kind, table |-> table, foreign |-> foreign, local |-> local,
     typed |-> typed, comparable |-> TRUE]

Via(kind, table, foreign, via, viaParent, viaRelated, typed) ==
    [kind |-> kind, table |-> table, foreign |-> foreign, local |-> "id",
     via |-> via, viaParent |-> viaParent, viaRelated |-> viaRelated,
     typed |-> typed, comparable |-> TRUE]

AllRelations ==
    [comments |-> Direct("hasMany", "comments", "post_id", "id", All),
     cover    |-> Direct("morphOne", "images", "owner_id", "id", OfType("posts")),
     images   |-> Direct("morphMany", "images", "owner_id", "id", OfType("posts")),
     latest   |-> Direct("hasOne", "comments", "post_id", "id", All),
     author   |-> Direct("belongsTo", "users", "id", "user_id", All),
     votes    |-> Direct("hasMany", "reactions", "comment_id", "id", All),
     editor   |-> [Direct("belongsTo", "users", "id", "editor_id", All)
                     EXCEPT !.comparable = FALSE],
     tags      |-> Via("morphToMany", "tags", "id", "taggables",
                       "taggable_id", "tag_id", OfType("posts")),
     posts     |-> Via("morphedByMany", "posts", "id", "taggables",
                       "tag_id", "taggable_id", OfType("posts")),
     reactions |-> Via("hasManyThrough", "reactions", "comment_id", "comments",
                       "post_id", "id", All),
     reaction  |-> Via("hasOneThrough", "reactions", "comment_id", "comments",
                       "post_id", "id", All),
     owner     |-> [kind |-> "morphTo", comparable |-> TRUE,
                    idCol |-> "owner_id", typeCol |-> "owner_type",
                    owners |-> [posts |-> "posts", users |-> "users"]]]

Load(names)           == [path |-> names, closure |-> <<>>]
LoadIf(names, closure) == [path |-> names, closure |-> closure]
Query(model, loads)   == [model |-> model, withs |-> loads]

NotSecond == <<And({r \in AllVersions : r.col.id # 2})>>

SeparatePaths ==
    {Query("posts", <<Load(<<"comments", "author">>), Load(<<"tags">>)>>),
     Query("posts", <<LoadIf(<<"images">>, NotSecond), Load(<<"cover">>),
                      Load(<<"reactions">>)>>),
     Query("posts", <<LoadIf(<<"comments">>, NotSecond),
                      Load(<<"latest", "author">>), Load(<<"editor">>)>>),
     Query("posts", <<Load(<<"reaction">>)>>),
     Query("tags", <<LoadIf(<<"posts", "tags">>, NotSecond)>>),
     Query("images", <<Load(<<"owner">>)>>),
     Query("images", <<Load(<<"owner", "comments">>)>>)}

\* Two paths that begin with the same relation.
SharedPrefix ==
    {Query("posts", <<Load(<<"comments", "author">>),
                      Load(<<"comments", "votes">>)>>)}
=============================================================================
