---------------------------- MODULE DockerDaemon ----------------------------
(***************************************************************************)
(* The Docker daemon as internal/sandbox drives it: containers created     *)
(* from an image, started, stopped, force-removed and committed to a new   *)
(* image.  The daemon is not part of the repository; a call that errors    *)
(* may or may not have been carried out, so every error is modelled with   *)
(* both outcomes by the module that makes the call.                        *)
(***************************************************************************)
EXTENDS FiniteSets

CONSTANTS
    Sandboxes,    \* sandbox ids, the uuids CreateSandbox generates
    Containers,   \* container ids; the daemon never gives one out twice
    Images,       \* ids of committed (pause) images, never given out twice
    Writes,       \* distinguishable pieces of data a client stores in a sandbox
    Nil           \* "no container", "no image", "nobody"

ASSUME DaemonAssumption ==
    /\ Nil \notin Sandboxes \cup Containers \cup Images
    /\ Containers \cap Images = {}

VARIABLES
    container,    \* container id -> what the daemon knows of it
    image,        \* image id -> likewise
    disk,         \* filesystem of a container or an image: the data it holds
    madeFor       \* history: the sandbox a container or image was made for

daemonVars == <<container, image, disk, madeFor>>

ContainerState == {"free", "created", "running", "stopped", "removed"}
ImageState     == {"free", "present", "removed"}

DaemonTypeOK ==
    /\ container \in [Containers -> ContainerState]
    /\ image \in [Images -> ImageState]
    /\ disk \in [Containers \cup Images -> SUBSET Writes]
    /\ madeFor \in [Containers \cup Images -> Sandboxes \cup {Nil}]

DaemonInit ==
    /\ container = [c \in Containers |-> "free"]
    /\ image = [i \in Images |-> "free"]
    /\ disk = [x \in Containers \cup Images |-> {}]
    /\ madeFor = [x \in Containers \cup Images |-> Nil]

-----------------------------------------------------------------------------
\* A container the daemon can be asked about: created and not yet removed.
Exists(c) == c \in Containers /\ container[c] \in {"created", "running", "stopped"}

Running(c) == c \in Containers /\ container[c] = "running"

Unchanged == UNCHANGED daemonVars

\* ContainerCreate: a fresh container for s holding the data of the image it
\* is created from (none of the client's data for a template image).
ContainerCreate(c, s, data) ==
    /\ container[c] = "free"
    /\ container' = [container EXCEPT ![c] = "created"]
    /\ disk' = [disk EXCEPT ![c] = data]
    /\ madeFor' = [madeFor EXCEPT ![c] = s]
    /\ UNCHANGED image

ContainerStart(c) ==
    /\ container' = [container EXCEPT ![c] = "running"]
    /\ UNCHANGED <<image, disk, madeFor>>

\* Stopping a container that is not running is not an error.
ContainerStop(c) ==
    /\ container' = [container EXCEPT ![c] = "stopped"]
    /\ UNCHANGED <<image, disk, madeFor>>

\* ContainerRemove with Force: also kills a running container.
ContainerRemove(c) ==
    /\ container' = [container EXCEPT ![c] = "removed"]
    /\ UNCHANGED <<image, disk, madeFor>>

\* ContainerCommit: a fresh image with the container's present filesystem.
ContainerCommit(c, i) ==
    /\ image[i] = "free"
    /\ image' = [image EXCEPT ![i] = "present"]
    /\ disk' = [disk EXCEPT ![i] = disk[c]]
    /\ madeFor' = [madeFor EXCEPT ![i] = madeFor[c]]
    /\ UNCHANGED container

ImageRemove(i) ==
    /\ image' = [image EXCEPT ![i] = "removed"]
    /\ UNCHANGED <<container, disk, madeFor>>

\* An exec or a file copy leaves the data "new" in the container.
ContainerWrite(c, new) ==
    /\ disk' = [disk EXCEPT ![c] = @ \cup new]
    /\ UNCHANGED <<container, image, madeFor>>

Fresh == Writes \ UNION {disk[x] : x \in Containers \cup Images}
=============================================================================
