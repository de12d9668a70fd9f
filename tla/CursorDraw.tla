------------------------------- MODULE CursorDraw -------------------------------
(***************************************************************************)
(* The cursor overlay (source/nx_pointer.c: nxp_draw, carray_save,         *)
(* cursor_upload_png, slurp_cursor_png).  It is drawn in the engine's own  *)
(* OpenGL ES 1 context, behind the last call of its frame, and has to give *)
(* the context back as it found it: what it leaves behind shows up in the  *)
(* engine's next frame.                                                    *)
(*                                                                         *)
(* The context (external) is kept to what the overlay touches.  Some of it *)
(* is one for each texture unit, and a call means the unit that is active; *)
(* an array remembers the buffer that was bound when its pointer was set.  *)
(***************************************************************************)
EXTENDS Naturals, Sequences

CONSTANTS Buffer,      \* the engine's buffer objects; 0 is no buffer
          MaxCalls     \* bound: calls that the engine makes

ASSUME BufferAssumption == 0 \notin Buffer
ASSUME CallsAssumption == MaxCalls \in Nat

VARIABLES
    gl,              \* the context
    s_png_bytes,     \* cursor.png was read and is not decoded yet
    s_cursor_tex,    \* the cursor is a texture
    drawing,         \* where nxp_draw is; "no" while the engine runs
    locals,          \* what nxp_draw saved
    before,          \* history: the context when nxp_draw was called
    calls            \* calls of the engine so far

drawvars == <<gl, s_png_bytes, s_cursor_tex, drawing, locals, before, calls>>

Unit == {0, 1}

OneFor == {"BLEND", "DEPTH_TEST", "CULL_FACE", "SCISSOR_TEST", "ALPHA_TEST", "LIGHTING",
           "VERTEX_ARRAY", "COLOR_ARRAY"}
PerUnit == {"TEXTURE_2D", "TEXTURE_COORD_ARRAY"}
Switch == OneFor \cup PerUnit

\* What a switch stands for: its own, the active or the client's active unit's.
Means(g, s) ==
    <<s, IF s = "TEXTURE_2D" THEN g.active ELSE IF s = "TEXTURE_COORD_ARRAY" THEN g.client ELSE 0>>

IsEnabled(g, s) == Means(g, s) \in g.on
Enable(g, set)  == [g EXCEPT !.on = @ \cup {Means(g, s) : s \in set}]
Disable(g, set) == [g EXCEPT !.on = @ \ {Means(g, s) : s \in set}]

Pointer(data, buffer) == [data |-> data, buffer |-> buffer]

\* A context as it is made.
NewContext ==
    [on |-> {}, active |-> 0, client |-> 0, bound |-> [u \in Unit |-> "none"],
     vertex |-> Pointer("none", 0), texCoord |-> [u \in Unit |-> Pointer("none", 0)],
     arrayBuffer |-> 0, blendFunc |-> "default", envMode |-> [u \in Unit |-> "default"],
     matrixMode |-> "MODELVIEW", projection |-> <<"engine">>, modelview |-> <<"engine">>,
     unpack |-> 4, color |-> "neutral"]

DrawInit ==
    /\ gl = NewContext /\ before = NewContext /\ locals = NewContext
    /\ s_png_bytes \in BOOLEAN /\ s_cursor_tex = FALSE
    /\ drawing = "no" /\ calls = 0

-------------------------------------------------------------------------------
(* The engine. *)

GlCall(g) ==
    {Enable(g, {s}) : s \in Switch} \cup {Disable(g, {s}) : s \in Switch}
    \cup {[g EXCEPT !.active = u] : u \in Unit} \cup {[g EXCEPT !.client = u] : u \in Unit}
    \cup {[g EXCEPT !.arrayBuffer = b] : b \in Buffer \cup {0}}
    \cup {[g EXCEPT !.vertex = Pointer("engine", g.arrayBuffer)],
          [g EXCEPT !.texCoord[g.client] = Pointer("engine", g.arrayBuffer)],
          [g EXCEPT !.bound[g.active] = "engine"], [g EXCEPT !.blendFunc = "engine"],
          [g EXCEPT !.envMode[g.active] = "engine"], [g EXCEPT !.matrixMode = "TEXTURE"],
          [g EXCEPT !.unpack = 1], [g EXCEPT !.color = "engine"]}

EngineCalls ==
    /\ drawing = "no" /\ calls < MaxCalls
    /\ gl' \in GlCall(gl) \ {gl}
    /\ calls' = calls + 1 /\ before' = gl'
    /\ UNCHANGED <<s_png_bytes, s_cursor_tex, drawing, locals>>

-------------------------------------------------------------------------------
(* nxp_draw. *)

\* The first time it draws it makes a texture of cursor.png.
nxp_draw ==
    /\ drawing = "no"
    /\ drawing' = IF s_png_bytes THEN "upload" ELSE "save"
    /\ before' = gl
    /\ UNCHANGED <<gl, s_png_bytes, s_cursor_tex, locals, calls>>

\* An image that libpng refuses leaves the arrow.  The texture is bound to unit 0
\* while it is made, and rows are packed without gaps.
cursor_upload_png ==
    /\ drawing = "upload" /\ drawing' = "save"
    /\ s_png_bytes' = FALSE /\ s_cursor_tex' \in BOOLEAN
    /\ gl' = IF s_cursor_tex'
               THEN LET g == [gl EXCEPT !.active = 0]
                        made == [g EXCEPT !.bound[0] = "cursor", !.unpack = 1]
                    IN  [made EXCEPT !.unpack = gl.unpack, !.bound[0] = g.bound[0],
                                     !.active = gl.active]
               ELSE gl
    /\ UNCHANGED <<locals, before, calls>>

\* The source buffer of an array is taken to be the one that is bound now.
carray_save(g, array) == [data |-> array.data, buf |-> g.arrayBuffer]

\* "save every bit of state we touch": the switches before, the rest after unit 0
\* is made the active one.
SaveState ==
    /\ drawing = "save" /\ drawing' = "draw"
    /\ LET g == [gl EXCEPT !.active = 0, !.client = 0] IN
       /\ locals' = [was |-> {s \in Switch : IsEnabled(gl, s)}, blendFunc |-> gl.blendFunc,
                     prev_arr_buf |-> gl.arrayBuffer, prev_active |-> gl.active,
                     prev_cactive |-> gl.client, prev_tex |-> g.bound[0],
                     sv_v |-> carray_save(g, g.vertex), sv_t |-> carray_save(g, g.texCoord[0])]
       /\ gl' = g
    /\ UNCHANGED <<s_png_bytes, s_cursor_tex, before, calls>>

\* Screen coordinates, blending, client-side arrays.  "glDisable" is asked to switch
\* the colour array off, which is a client's array: a driver may refuse.
SetUp(g, colors) ==
    LET off == Disable(g, {"DEPTH_TEST", "CULL_FACE", "SCISSOR_TEST", "ALPHA_TEST", "LIGHTING"}
                          \cup colors)
    IN  [Enable(off, {"BLEND", "VERTEX_ARRAY"})
           EXCEPT !.projection = Append(@, "ortho"), !.modelview = Append(@, "cursor"),
                  !.matrixMode = "MODELVIEW", !.blendFunc = "alpha", !.arrayBuffer = 0]

\* A quad with the texture.
Quad(g) ==
    LET on == Enable(g, {"TEXTURE_2D", "TEXTURE_COORD_ARRAY"})
        drawn == [on EXCEPT !.bound[on.active] = "cursor", !.envMode[on.active] = "modulate",
                            !.color = "cursor", !.vertex = Pointer("cursor", on.arrayBuffer),
                            !.texCoord[on.client] = Pointer("cursor", on.arrayBuffer)]
    IN  Disable(drawn, {"TEXTURE_COORD_ARRAY"})

\* The built-in arrow; its scaling is pushed and popped, and then scaled again.
Arrow(g) ==
    [Disable(g, {"TEXTURE_2D"}) EXCEPT !.vertex = Pointer("cursor", g.arrayBuffer), !.color = "cursor"]

DrawCursor ==
    /\ drawing = "draw" /\ drawing' = "restore"
    /\ \E colors \in {{"COLOR_ARRAY"}, {}} :
          gl' = IF s_cursor_tex THEN Quad(SetUp(gl, colors)) ELSE Arrow(SetUp(gl, colors))
    /\ UNCHANGED <<s_png_bytes, s_cursor_tex, locals, before, calls>>

\* Matrices, and the arrays: each pointer is set with its buffer bound.
Sources(g, l) ==
    [g EXCEPT !.modelview = SubSeq(@, 1, Len(@) - 1), !.projection = SubSeq(@, 1, Len(@) - 1),
              !.matrixMode = "MODELVIEW",
              !.vertex = Pointer(l.sv_v.data, l.sv_v.buf),
              !.texCoord[g.client] = Pointer(l.sv_t.data, l.sv_t.buf),
              !.arrayBuffer = l.prev_arr_buf]

\* Mutant: the engine's unit is made active before the texture is bound again.
Units_First(g, l) ==
    LET u == [g EXCEPT !.client = l.prev_cactive, !.active = l.prev_active]
    IN  [u EXCEPT !.bound[u.active] = l.prev_tex]

\* The texture of unit 0, and only then the engine's units.
Units(g, l) ==
    LET u == [g EXCEPT !.bound[g.active] = l.prev_tex]
    IN  [u EXCEPT !.client = l.prev_cactive, !.active = l.prev_active]

\* Alpha test and lighting are off by now and only enabled again.
Switches(g, l) == Enable(Disable(g, Switch \ (l.was \cup {"ALPHA_TEST", "LIGHTING"})), l.was)

RestoreState ==
    /\ drawing = "restore" /\ drawing' = "no"
    /\ gl' = LET g == [Units(Sources(gl, locals), locals) EXCEPT !.blendFunc = locals.blendFunc]
             IN  [Switches(g, locals) EXCEPT !.color = "neutral"]
    /\ UNCHANGED <<s_png_bytes, s_cursor_tex, locals, before, calls>>

DrawNext ==
    \/ EngineCalls
    \/ nxp_draw \/ cursor_upload_png \/ SaveState \/ DrawCursor \/ RestoreState

DrawSpec == DrawInit /\ [][DrawNext]_drawvars

-------------------------------------------------------------------------------
(* Properties. *)

DrawTypeOK ==
    /\ DOMAIN gl = DOMAIN NewContext /\ gl.on \subseteq Switch \X Unit
    /\ {gl.active, gl.client} \subseteq Unit /\ gl.arrayBuffer \in Buffer \cup {0}
    /\ Len(gl.projection) \in 1..2 /\ Len(gl.modelview) \in 1..2
    /\ {s_png_bytes, s_cursor_tex} \subseteq BOOLEAN
    /\ drawing \in {"no", "upload", "save", "draw", "restore"} /\ calls \in 0..MaxCalls

\* "saves/restores every piece of state it touches so the engine's next frame is
\* unaffected": the context is as it was, but for the current colour ("neutral
\* default"), the matrix mode and unit 0's environment mode.  Where the engine
\* had another unit active, unit 0's switches are excepted too; and where an
\* array had another source than the buffer bound last, that source is.
GivenBack(g, b) ==
    /\ \A f \in {"active", "client", "bound", "arrayBuffer", "blendFunc", "projection",
                 "modelview", "unpack"} : g[f] = b[f]
    /\ \A s \in OneFor : IsEnabled(g, s) = IsEnabled(b, s)
    /\ \A u \in Unit :
          /\ u # 0 \/ b.active = 0 => (<<"TEXTURE_2D", u>> \in g.on <=> <<"TEXTURE_2D", u>> \in b.on)
          /\ u # 0 \/ b.client = 0 =>
               (<<"TEXTURE_COORD_ARRAY", u>> \in g.on <=> <<"TEXTURE_COORD_ARRAY", u>> \in b.on)
          /\ g.texCoord[u].data = b.texCoord[u].data
          /\ u # 0 \/ b.texCoord[u].buffer = b.arrayBuffer => g.texCoord[u] = b.texCoord[u]
    /\ g.vertex.data = b.vertex.data
    /\ b.vertex.buffer = b.arrayBuffer => g.vertex = b.vertex

\* While the engine runs, its context is as it was when nxp_draw was called last, or
\* as its own calls since have made it.
EngineStateKept == drawing = "no" => GivenBack(gl, before)

\* "client arrays: re-bind the source buffer each was using, then its pointer":
\* the engine's arrays are as it set them.
ArraysRestored ==
    drawing = "no" =>
      /\ before.vertex.data = "engine" => gl.vertex = before.vertex
      /\ \A u \in Unit : before.texCoord[u].data = "engine" => gl.texCoord[u] = before.texCoord[u]
=================================================================================
