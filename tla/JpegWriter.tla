----------------------------- MODULE JpegWriter -----------------------------
(***************************************************************************)
(* A JPEG_Writer from its construction to its deletion: the sizes of its   *)
(* buffers, and the widths, heights and strides with which Write and       *)
(* write_JPEG_file go over the pixels.  They come from three places: the   *)
(* size that the writer was made for, the size of the camera images, which *)
(* is a constant of ShmManager, and the caller.  Resizing and compression  *)
(* are library code: resizing gives just the columns and rows it is asked  *)
(* for, as the factor divides both sizes of the camera images.  An image   *)
(* that is compressed has any of some sizes.                               *)
(*                                                                         *)
(* The generator passes the buffer with the image on to GetPayLoad, whose  *)
(* walk is the module JpegHeader: here it runs once for every image.       *)
(***************************************************************************)
EXTENDS JpegHeader

CONSTANTS
    IMAGE_WIDTH, IMAGE_HEIGHT,  \* of ShmManager
    Writers,      \* arguments of the constructor
    MaxImages     \* bound: images of a writer

ASSUME WritersAssumption ==
    Writers \subseteq [width : Nat \ {0}, height : Nat \ {0}, factor : Nat \ {0}]
(* CameraView is the only one that makes a writer, for the size of the     *)
(* camera images; what is sent of them has a size that fits in the bytes   *)
(* of the RTP headers, and loses no row of blocks to the units of 8.       *)
ASSUME CameraAssumption ==
    /\ IMAGE_WIDTH \in Nat /\ IMAGE_HEIGHT \in Nat
    /\ \A w \in Writers :
          /\ w.width = IMAGE_WIDTH /\ w.height = IMAGE_HEIGHT
          /\ IMAGE_WIDTH % w.factor = 0 /\ IMAGE_HEIGHT % w.factor = 0
          /\ IMAGE_WIDTH \div w.factor \in 8..2047
          /\ IMAGE_HEIGHT \div w.factor \in 8..2047
          /\ (IMAGE_HEIGHT \div w.factor) % 16 \notin 1..7
ASSUME BoundAssumption == MaxImages \in Nat

VARIABLES
    control,        \* "new", "idle", "rows", "walk", "deleted", or "exited": so is the process
    writer,         \* image_width, image_height and downSamplingFactor
    max_data_size,
    allocated,      \* bytes of buffer, and of temp; 0: none
    cinfo,          \* size of the image that is compressed
    y, stride,      \* of write_JPEG_file
    images,
    pixels,         \* history: bytes of pixels in the memory that is compressed
    readTo,         \* history: one more than the last of them that was read
    beyond          \* history: columns of them that are none of the resized image

buffers == <<writer, max_data_size, allocated>>
file == <<cinfo, y, stride, pixels, readTo, beyond>>
allVars == <<vars, control, buffers, file, images>>

channel == 3

WriterTypeOK ==
    /\ TypeOK
    /\ control \in {"new", "idle", "rows", "walk", "deleted", "exited"}
    /\ writer \in Writers
    /\ max_data_size \in Nat /\ allocated \in {0, max_data_size}
    /\ cinfo \in [width : Nat, height : Nat]
    /\ y \in 0..cinfo.height /\ stride \in Nat
    /\ images \in 0..MaxImages
    /\ pixels \in Nat /\ readTo \in Nat /\ beyond \in Nat

SetMaxDataSize(w, h) == w * h * channel + 1024

WriterInit ==
    /\ pc = "failed" /\ buf = 0 /\ read = 0 /\ segments = <<>>
    /\ data_len \in DataLengths
    /\ control = "new" /\ writer \in Writers
    /\ max_data_size = SetMaxDataSize(writer.width, writer.height)
    /\ allocated = 0
    /\ cinfo = [width |-> 0, height |-> 0]
    /\ y = 0 /\ stride = 0 /\ images = 0
    /\ pixels = 0 /\ readTo = 0 /\ beyond = 0

Goes(from, to) == control = from /\ control' = to

Initialize ==
    /\ Goes("new", "idle")
    /\ max_data_size' = SetMaxDataSize(writer.width, writer.height)
    /\ allocated' = max_data_size'
    /\ UNCHANGED <<vars, writer, file, images>>

ByEight(n) == (n \div 8) * 8

(* Mutant: the width of the camera images is not rounded. *)
JpegWidthUnrounded == IMAGE_WIDTH \div writer.factor

(* Whatever writer this is, the width of the camera images is taken. *)
JpegWidth == ByEight(IMAGE_WIDTH \div writer.factor)

BeginFile ==
    /\ cinfo' = [width |-> JpegWidth, height |-> writer.height \div writer.factor]
    /\ y' = 0 /\ readTo' = 0

Resized == writer.factor > 1

(* Columns of temp, and where in the resized image they begin. *)
TempWidth == ByEight(writer.width \div writer.factor)
XOffset == 8

(* Columns of temp that lie to the right of the resized image: Magick      *)
(* fills them with its edge. *)
BehindRightEdge == (XOffset + TempWidth) - (IMAGE_WIDTH \div writer.factor)

(* The writer compresses the memory that it is given, with the stride that *)
(* the caller passes, which is 0; or it resizes the camera image, takes    *)
(* columns of it from the ninth on into temp, and compresses these.  What  *)
(* Magick throws is caught by the caller and leaves everything as it was.  *)
Write ==
    /\ Goes("idle", "rows") /\ images < MaxImages
    /\ stride' = IF Resized THEN channel * TempWidth ELSE 0
    /\ pixels' = IF Resized THEN stride' * (IMAGE_HEIGHT \div writer.factor)
                             ELSE channel * writer.width * writer.height
    /\ beyond' = IF Resized /\ BehindRightEdge > 0 THEN BehindRightEdge ELSE 0
    /\ BeginFile
    /\ UNCHANGED <<vars, buffers, images>>

(* fmemopen finds no memory: exit(1). *)
OpenFails ==
    /\ Goes("idle", "exited") /\ images < MaxImages
    /\ UNCHANGED <<vars, buffers, file, images>>

(* Mutant: one row too many. *)
WriteRowOver ==
    /\ control = "rows" /\ y <= cinfo.height
    /\ y' = y + 1
    /\ readTo' = y * stride + channel * cinfo.width
    /\ UNCHANGED <<vars, control, buffers, cinfo, stride, pixels, beyond, images>>

WriteRow ==
    /\ control = "rows" /\ y < cinfo.height
    /\ y' = y + 1
    /\ readTo' = y * stride + channel * cinfo.width
    /\ UNCHANGED <<vars, control, buffers, cinfo, stride, pixels, beyond, images>>

(* The error handler of libjpeg ends the process when the image does not   *)
(* fit in the buffer.  One that does is passed to GetPayLoad.              *)
FinishFile(size) ==
    /\ y = cinfo.height
    /\ \/ /\ size <= allocated /\ Goes("rows", "walk")
          /\ pc' = "SOI" /\ data_len' = size /\ UNCHANGED <<buf, read, segments>>
          /\ images' = images + 1
       \/ size > allocated /\ Goes("rows", "exited") /\ UNCHANGED <<vars, images>>
    /\ UNCHANGED <<buffers, file>>

Walk == control = "walk" /\ Next /\ UNCHANGED <<control, buffers, file, images>>

(* The scan data have been sent, or GetData has thrown. *)
StreamImage ==
    /\ Goes("walk", "idle") /\ pc \in {"found", "failed"}
    /\ pc' = "failed" /\ buf' = 0 /\ read' = 0 /\ segments' = <<>>
    /\ UNCHANGED <<data_len, buffers, file, images>>

(* ~JPEG_Writer, after the join; the thread may not have initialised it. *)
Delete ==
    /\ Goes("new", "deleted") \/ Goes("idle", "deleted")
    /\ allocated' = 0
    /\ UNCHANGED <<vars, writer, max_data_size, file, images>>

WriterNext ==
    \/ Initialize \/ Write \/ OpenFails \/ WriteRow
    \/ \E size \in DataLengths : FinishFile(size)
    \/ Walk \/ StreamImage \/ Delete

WriterSpec == WriterInit /\ [][WriterNext]_allVars

------------------------------------------------------------------------------
(***************************************************************************)
(* Properties.                                                             *)
(***************************************************************************)

(* The rows that are compressed lie in the memory that holds the pixels,   *)
(* and what Write makes of a camera image fits in temp.  The columns are   *)
(* not all of the camera: those that Write cuts off on the left are more   *)
(* than the rounded width leaves over, so at least one column and at most  *)
(* eight, at the right, repeat the edge (4 of 480 for CameraView).         *)
RowsInSource ==
    /\ readTo <= pixels
    /\ control = "rows" /\ Resized => pixels <= allocated /\ beyond \in 1..8

(* CameraView::stream_generator announces the size of the image by itself. *)
AnnouncedWidth == ByEight(IMAGE_WIDTH \div writer.factor)
AnnouncedHeight == IMAGE_HEIGHT \div writer.factor

Blocks(n) == (n + 15) \div 16

(* The size in the RTP headers, in units of 8 pixels, says what is in the  *)
(* image: the same width, and rows of blocks as many as there are, though  *)
(* the height loses up to 7 rows.                                          *)
AnnouncedRight ==
    control = "walk" =>
        /\ AnnouncedWidth = cinfo.width /\ AnnouncedWidth \div 8 \in 1..255
        /\ AnnouncedHeight \div 8 \in 1..255
        /\ Blocks(ByEight(AnnouncedHeight)) = Blocks(cinfo.height)

==============================================================================
