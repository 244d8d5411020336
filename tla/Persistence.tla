---------------------------- MODULE Persistence ----------------------------
(***************************************************************************)
(* The Core Data stack of flicsy: one managed object context               *)
(* (PersistenceController.shared.container.viewContext, in memory) over    *)
(* one persistent store (on disk).  A process works on the context; only a *)
(* save moves its objects to the store, and only the store survives the    *)
(* process.                                                                *)
(*                                                                         *)
(* A Date attribute is modelled by its day number: every reader of one     *)
(* asks only whether it lies in today.  NoDate stands for nil.             *)
(***************************************************************************)
EXTENDS Naturals, Sequences, SaveFaults

CONSTANTS
    Photos,       \* the images the photo library can hold
    NoPhoto,      \* the empty UIImage(), which has no PNG data
    Places,       \* what reverse geocoding can answer
    NoPlace       \* empty locality, administrative area and country

ASSUME PhotosAssumption == NoPhoto \notin Photos
ASSUME PlacesAssumption == NoPlace \notin Places

VARIABLES
    running,      \* is there a process (with a context)?
    context,      \* the objects of viewContext, saved or not
    store         \* the objects on disk

Date == Nat
NoDate == 0

Images == Photos \cup {NoPhoto}
Locations == Places \cup {NoPlace}

\* Entities of FlicsyModel.  A Reflection keeps the image, the date of the
\* photo and the three location strings (one place); its title, text, emotion
\* and thumbnail are left out.
RevealController == [nextReveal: Date, submitted: Date, lastSkip: Date]

Reflection == [image: Images, date: Date, place: Locations]

Objects == [controllers: Seq(RevealController), reflections: Seq(Reflection)]

NoObjects == [controllers |-> <<>>, reflections |-> <<>>]

\* RevealController(context:) before any attribute is set.
NewController ==
    [nextReveal |-> NoDate, submitted |-> NoDate, lastSkip |-> NoDate]

----------------------------------------------------------------------------
\* Mutant: the image attribute is optional in the data model.
ValidatesAnything(objs) == TRUE

\* Core Data validates every changed object at save time: the attribute image
\* of Reflection is not optional, and pngData() of UIImage() is nil.
Validates(objs) ==
    \A i \in DOMAIN objs.reflections : objs.reflections[i].image # NoPhoto

\* What is on disk after save(): all of the context, or, when the save
\* throws, what was there before.  Both save() and saveData() swallow the
\* error, and the unsaved objects stay in the context.
SaveOutcomes(objs, disk) ==
    {s \in {objs, disk} : \/ s = objs /\ Validates(objs)
                          \/ s = disk /\ (SaveMayFail \/ ~Validates(objs))}

\* A handler leaves objs in the context and saves.
Save(objs) ==
    /\ context' = objs
    /\ store' \in SaveOutcomes(objs, store)

PersistenceTypeOK ==
    /\ running \in BOOLEAN
    /\ context \in Objects
    /\ store \in Objects

PersistenceInit ==
    /\ running = FALSE
    /\ context = NoObjects
    /\ store = NoObjects
=============================================================================
