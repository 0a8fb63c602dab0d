---------------------------- MODULE UserCommands ----------------------------
(***************************************************************************)
(* The commands a user defines over MCP (interfaces/mcp commands.rs, its   *)
(* prompts.rs and the command part of server.rs): a directory for each,    *)
(* whose README holds it.  A menu is served from a cached listing, read    *)
(* anew when a fingerprint of the store differs from the cached one; a     *)
(* call takes the fingerprint before it has the cache's lock.  Directories *)
(* are examined one after the other, while another call writes.            *)
(*                                                                         *)
(* A name is a sequence of characters: letters of lower and upper case,    *)
(* and "_" and "-" for what is neither letter nor digit.  A text is a      *)
(* sequence of lines and a line one of words.                              *)
(***************************************************************************)
EXTENDS Naturals, SequencesExt

CONSTANTS
    Calls,          \* calls that list the commands
    Raw,            \* names that define_command and delete_command are given
    Descriptions, Bodies,   \* and the texts
    Builtins,       \* the names of BUILTINS, HELP among them
    START,          \* the entry prompt
    MaxWrites,      \* bound on the calls that write
    MaxFails        \* and on writes that fail

VARIABLES
    disk,      \* disk[n]: the directory n, with what is in its README
    clock,     \* the modification times given out
    author,    \* the define_command or delete_command under way
    saved,     \* saved[n]: what define_command answered for n, since then unwritten
    call,      \* call[c]: the list_commands_cached of c
    cache,     \* the CommandListCache
    lock,      \* who holds its lock
    writes, fails

vars == <<disk, clock, author, saved, call, cache, lock, writes, fails>>

NoCommand == [name |-> <<>>, description |-> <<>>, body |-> <<>>]
NoDir == [holds |-> "none", time |-> 0, text |-> <<>>]
NewDir == [NoDir EXCEPT !.holds = "nothing"]
Readme(t, text) == [holds |-> "README", time |-> t, text |-> text]
-----------------------------------------------------------------------------
(* Names *)

is_reserved(name) == name = START \/ name \in Builtins

Lower(ch) == CASE ch = "A" -> "a" [] ch = "H" -> "h" [] OTHER -> ch
Alphanumeric(ch) == ch \notin {"_", "-"}

\* A run of other characters becomes one dash.
Dashed(raw) ==
    FoldLeft(LAMBDA s, ch :
                 IF Alphanumeric(ch) THEN Append(s, Lower(ch))
                 ELSE IF s # <<>> /\ Last(s) = "-" THEN s ELSE Append(s, "-"),
             <<>>, raw)

\* A text without what X holds at its ends (trim, trim_matches).
Trim(text, X) ==
    LET kept == {k \in DOMAIN text : text[k] \notin X} IN
    IF kept = {} THEN <<>> ELSE SubSeq(text, Min(kept), Max(kept))

\* The slug of a name, <<>> when it is refused.
normalize_name(raw) ==
    LET slug == Trim(Dashed(raw), {"-"}) IN IF is_reserved(slug) THEN <<>> ELSE slug

Names == {normalize_name(r) : r \in Raw} \ {<<>>}
-----------------------------------------------------------------------------
(* The README *)

Blank == <<>>
Fence == <<"---">>

single_line(text) == FlattenSeq(text)

render_readme(command) ==
    <<Fence, <<"name:">> \o command.name, <<"description:">> \o command.description, Fence, Blank>>
        \o command.body

\* Where the frontmatter of a text that opens with a fence ends, 0 when it does not:
\* the closing fence follows a line break.
Closing(text) ==
    LET ends == {k \in 3 .. Len(text) : text[k] = Fence} IN
    IF text = <<>> \/ text[1] # Fence \/ ends = {} THEN 0 ELSE Min(ends)

\* The value of the first line of that key, empty when there is none.
field(front, key) ==
    LET at == {k \in DOMAIN front : front[k] # Blank /\ front[k][1] = key} IN
    IF at = {} THEN <<>> ELSE Tail(front[Min(at)])

Parsed(name, text) ==
    LET k == Closing(text) IN
    [name |-> name,
     description |-> IF k = 0 THEN <<>> ELSE field(SubSeq(text, 2, k - 1), "description:"),
     body |-> Trim(SubSeq(text, k + 1, Len(text)), {Blank})]

HasReadme(n) == disk[n].holds = "README"
read_command(n) == IF HasReadme(n) THEN Parsed(n, disk[n].text) ELSE NoCommand
-----------------------------------------------------------------------------
(* The store, as a whole *)

Stamp(n) == [name |-> n, time |-> disk[n].time]
fingerprint == {Stamp(n) : n \in {m \in DOMAIN disk : HasReadme(m)}}
list == {read_command(n) : n \in DOMAIN disk} \ {NoCommand}

get(name) ==
    LET n == normalize_name(name) IN IF n \in DOMAIN disk THEN read_command(n) ELSE NoCommand

\* `help' and the other built-ins come before what is saved.
resolve_command(name) ==
    IF name \in Builtins THEN [name |-> name, description |-> <<>>, body |-> <<>>] ELSE get(name)
-----------------------------------------------------------------------------
(* define_command: the directory, then fs::write, which empties the README *)
(* and writes it.                                                          *)

Idle == [pc |-> "idle"]
Asked(raw, d, b) ==
    [name |-> normalize_name(raw), description |-> single_line(d), body |-> Trim(b, {Blank})]

Define(raw, d, b) ==
    /\ author = Idle /\ writes < MaxWrites
    /\ normalize_name(raw) # <<>> /\ Trim(b, {Blank}) # <<>>
    /\ LET command == Asked(raw, d, b) IN
       /\ author' = [pc |-> "empty", command |-> command]
       /\ disk' = IF disk[command.name] = NoDir THEN [disk EXCEPT ![command.name] = NewDir] ELSE disk
    /\ writes' = writes + 1
    /\ UNCHANGED <<clock, saved, call, cache, lock, fails>>

\* A refused name or body changes nothing.
DefineRefused(raw, b) ==
    /\ author = Idle /\ (normalize_name(raw) = <<>> \/ Trim(b, {Blank}) = <<>>)
    /\ UNCHANGED vars

Empty ==
    /\ author.pc = "empty"
    /\ LET n == author.command.name IN
       /\ disk' = [disk EXCEPT ![n] = Readme(clock + 1, <<>>)]
       /\ saved' = [saved EXCEPT ![n] = NoCommand]
    /\ clock' = clock + 1 /\ author' = [author EXCEPT !.pc = "write"]
    /\ UNCHANGED <<call, cache, lock, writes, fails>>

Write ==
    /\ author.pc = "write"
    /\ LET n == author.command.name IN
       /\ disk' = [disk EXCEPT ![n] = Readme(clock + 1, render_readme(author.command))]
       /\ saved' = [saved EXCEPT ![n] = author.command]
    /\ clock' = clock + 1 /\ author' = Idle
    /\ UNCHANGED <<call, cache, lock, writes, fails>>

\* The disk is full: an error, and the README stays empty.
WriteFails ==
    /\ author.pc = "write" /\ fails < MaxFails
    /\ fails' = fails + 1 /\ author' = Idle
    /\ UNCHANGED <<disk, clock, saved, call, cache, lock, writes>>

(* delete_command: remove_dir_all, what the directory holds and then it. *)

Delete(raw) ==
    /\ author = Idle /\ writes < MaxWrites
    /\ normalize_name(raw) # <<>> /\ disk[normalize_name(raw)] # NoDir
    /\ author' = [pc |-> IF HasReadme(normalize_name(raw)) THEN "unlink" ELSE "rmdir",
                  name |-> normalize_name(raw)]
    /\ saved' = [saved EXCEPT ![normalize_name(raw)] = NoCommand]
    /\ writes' = writes + 1
    /\ UNCHANGED <<disk, clock, call, cache, lock, fails>>

Unlink ==
    /\ author.pc = "unlink" /\ disk' = [disk EXCEPT ![author.name] = NewDir]
    /\ author' = [author EXCEPT !.pc = "rmdir"]
    /\ UNCHANGED <<clock, saved, call, cache, lock, writes, fails>>

RemoveDir ==
    /\ author.pc = "rmdir" /\ disk' = [disk EXCEPT ![author.name] = NoDir]
    /\ author' = Idle
    /\ UNCHANGED <<clock, saved, call, cache, lock, writes, fails>>
-----------------------------------------------------------------------------
(* list_commands_cached *)

Resting == [pc |-> "idle", left |-> {}, stamps |-> {}, got |-> {}]

Begin(c) ==
    /\ call[c].pc = "idle"
    /\ call' = [call EXCEPT ![c] = [Resting EXCEPT !.pc = "stat", !.left = DOMAIN disk]]
    /\ UNCHANGED <<disk, clock, author, saved, cache, lock, writes, fails>>

Stat(c, n) ==
    /\ call[c].pc = "stat" /\ n \in call[c].left
    /\ call' = [call EXCEPT ![c].left = @ \ {n},
                            ![c].stamps = IF HasReadme(n) THEN @ \cup {Stamp(n)} ELSE @]
    /\ UNCHANGED <<disk, clock, author, saved, cache, lock, writes, fails>>

\* With the lock: an unchanged fingerprint answers from the cache.
Lock(c) ==
    /\ call[c].pc = "stat" /\ call[c].left = {} /\ lock = "free"
    /\ IF call[c].stamps = cache.stamps
       THEN call' = [call EXCEPT ![c] = Resting] /\ UNCHANGED lock
       ELSE /\ call' = [call EXCEPT ![c].pc = "read", ![c].left = DOMAIN disk]
            /\ lock' = c
    /\ UNCHANGED <<disk, clock, author, saved, cache, writes, fails>>

Read(c, n) ==
    /\ call[c].pc = "read" /\ n \in call[c].left
    /\ call' = [call EXCEPT ![c].left = @ \ {n},
                            ![c].got = @ \cup ({read_command(n)} \ {NoCommand})]
    /\ UNCHANGED <<disk, clock, author, saved, cache, lock, writes, fails>>

\* The cached listing goes by the fingerprint taken before it was read.
Listed(c) == [stamps |-> call[c].stamps, commands |-> call[c].got]

Store(c) ==
    /\ call[c].pc = "read" /\ call[c].left = {}
    /\ cache' = Listed(c) /\ lock' = "free"
    /\ call' = [call EXCEPT ![c] = Resting]
    /\ UNCHANGED <<disk, clock, author, saved, writes, fails>>

Init ==
    /\ disk = [n \in Names |-> NoDir] /\ clock = 0 /\ author = Idle
    /\ saved = [n \in Names |-> NoCommand]
    /\ call = [c \in Calls |-> Resting]
    /\ cache = [stamps |-> {}, commands |-> {}] /\ lock = "free"
    /\ writes = 0 /\ fails = 0

Next ==
    \/ \E raw \in Raw, b \in Bodies :
          DefineRefused(raw, b) \/ \E d \in Descriptions : Define(raw, d, b)
    \/ \E raw \in Raw : Delete(raw)
    \/ Empty \/ Write \/ WriteFails \/ Unlink \/ RemoveDir
    \/ \E c \in Calls :
          Begin(c) \/ Lock(c) \/ Store(c) \/ \E n \in DOMAIN disk : Stat(c, n) \/ Read(c, n)

Spec == Init /\ [][Next]_vars
-----------------------------------------------------------------------------
TypeOK ==
    /\ DOMAIN disk = Names /\ clock <= 2 * MaxWrites /\ lock \in Calls \cup {"free"}
    /\ author.pc \in {"idle", "empty", "write", "unlink", "rmdir"}
    /\ \A c \in Calls : call[c].pc \in {"idle", "stat", "read"} /\ call[c].left \subseteq DOMAIN disk
    /\ \A c \in Calls : lock = c <=> call[c].pc = "read"

\* A cached listing with the store's fingerprint has every stored command as it is
\* stored, whatever was written while it was read; what it has besides has been
\* deleted since (list_commands_cached takes the fingerprint first).
MenuCurrent ==
    cache.stamps = fingerprint =>
        /\ list \subseteq cache.commands
        /\ \A x \in cache.commands : x \in list \/ ~HasReadme(x.name)

\* What define_command answered is what the command's name stands for from then on,
\* until it is written again or deleted: the README reads back as it was rendered,
\* its slug is its own slug, and no built-in has it (save, read_command, resolve_command).
CommandKept == \A n \in DOMAIN disk : saved[n] # NoCommand => resolve_command(n) = saved[n]
=============================================================================
